CONSTANTS
  Device = "device"
  RouterId = "router"
  Host = "host"
  DataLengths <- MCDataLengths
SPECIFICATION Spec
INVARIANTS DeviceRoundTrip
