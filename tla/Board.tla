-------------------------------- MODULE Board --------------------------------
(***************************************************************************)
(* Configuration, start and stop of the concentrator: the setters of       *)
(* loragw_hal.c and loragw_lbt.c, lgw_start with the firmware of the AGC,  *)
(* lgw_stop, and the programs that call them: project_ipv6, and utilities  *)
(* that call them in another order or start again.                         *)
(*                                                                         *)
(* The host and the AGC run side by side.  They share two registers: the   *)
(* host writes RADIO_SELECT, waits a millisecond and reads MCU_AGC_STATUS; *)
(* the firmware polls RADIO_SELECT and writes the status when it has taken *)
(* a value.  Nothing tells the host that a write was seen in time.         *)
(***************************************************************************)
EXTENDS Integers, FiniteSets, Sequences

CONSTANTS
  Chains,       (* the IF chains that are configured, of 0..9              *)
  LutMax,       (* TX_GAIN_LUT_SIZE_MAX                                    *)
  LbtChannels,  (* LBT_CHANNEL_FREQ_NB                                     *)
  StartFreq,    (* lbt_start_freq, in units of 100 kHz                     *)
  Fpgas,        (* the boards: with an FPGA, or without                    *)
  Jsons,        (* configuration files                                     *)
  RxifConfs, TxgainConfs, LbtConfs,     (* arguments of the setters        *)
  MaxCalls, MaxStarts,    (* bounds: setters called, calls of lgw_start    *)
  GainWhileStarted        (* programs load a gain table while it runs      *)

(* The table is no longer than 16: the acknowledgement of an entry has to  *)
(* differ from 0x40, the status when all is taken.                         *)
ASSUME BoardAssumption ==
  /\ Chains \subseteq 0..9 /\ LutMax \in 2..16 /\ LbtChannels \in Nat \ {0}
  /\ StartFreq \in Nat /\ Fpgas \subseteq BOOLEAN /\ GainWhileStarted \in BOOLEAN
  /\ {MaxCalls, MaxStarts} \subseteq Nat

VARIABLES
  conf,       (* the static variables of the HAL and of the LBT module     *)
  started,    (* lgw_is_started                                            *)
  phase,      (* where lgw_start is; "out" when it is not running          *)
  step,       (* index in the loop of the gain table                       *)
  returned,   (* what lgw_start returned last: "none", "success", "error"  *)
  chip,       (* the SX1301 and its radios                                 *)
  fpga,       (* present, and its LBT registers                            *)
  agc,        (* the AGC: state, status, what it was given                 *)
  select,     (* RADIO_SELECT                                              *)
  program,    (* "begin", "configured", "serving" in the menu, "leaving", *)
              (* "ended" of project_ipv6, or "utility"                     *)
  exit_sig,
  calls, starts

hal == <<conf, started, phase, step, returned>>
board == <<chip, fpga, agc, select>>
caller == <<program, exit_sig, calls, starts>>
vars == <<hal, board, caller>>

Multi == Chains \intersect 0..7
LoraStd == 8
Fsk == 9
WAIT == 16      (* AGC_CMD_WAIT                                            *)
ABORT == 17     (* AGC_CMD_ABORT                                           *)
Ack == 48       (* 0x30                                                    *)
Absent == [absent |-> TRUE]

RadioTypes == {"none", "SX1255", "SX1257"}
RfConf == [enable : BOOLEAN, freq : Int, type : RadioTypes]
IfConf == [enable : BOOLEAN, rf_chain : {0, 1}, freq : Int, bw : Nat, sf : SUBSET Nat]

(* What a setter or a file may hold.                                       *)
ASSUME ConfAssumption ==
  /\ RxifConfs \subseteq IfConf
  /\ \A lut \in TxgainConfs : lut \in Seq([mix : Nat, dac : Nat, pa : Nat])
  /\ \A lbt \in LbtConfs : lbt.enable \in BOOLEAN /\ lbt.channels \in Seq([freq : Int, scan : Nat])
  /\ \A json \in Jsons : /\ json.public \in BOOLEAN
                         /\ \A i \in 0..1 : json.rf[i] \in {Absent} \union RfConf
                         /\ \A i \in Chains : json.if[i] \in {Absent} \union IfConf

Max2(a, b) == IF a > b THEN a ELSE b

(***************************************************************************)
(* The setters.  Each returns the configuration after; the same one when it*)
(* refuses.                                                                *)
(***************************************************************************)
lgw_board_setconf(c, public) ==
  IF started THEN c ELSE [c EXCEPT !.lorawan_public = public]

(* A disabled radio has no type in a configuration file: it is refused.    *)
lgw_rxrf_setconf(c, rf_chain, rf) ==
  IF started \/ rf.type \notin {"SX1255", "SX1257"} THEN c
  ELSE [c EXCEPT !.rf[rf_chain] = rf]

(* Bandwidths are the codes 1 to 7 of loragw_hal.h, 500 kHz to 7.8 kHz.    *)
(* What a code stands for, and the useful bandwidth of the radio for it, in*)
(* Hz: one that is undefined or unknown counts as 125 kHz.                 *)
BW_500KHZ == 1
BW_250KHZ == 2
BW_125KHZ == 3
lgw_bw_getval(bw) ==
  IF bw \in 1..7 THEN <<500000, 250000, 125000, 62500, 31200, 15600, 7800>>[bw] ELSE 125000
RadioBandwidth(bw) ==
  CASE bw = BW_250KHZ -> 1000000 [] bw = BW_500KHZ -> 1100000 [] OTHER -> 925000
Fits(freq, bw) == 2 * Max2(freq, -freq) + lgw_bw_getval(bw) <= RadioBandwidth(bw)

(* Undefined values get the defaults of the kind of chain; what the modem  *)
(* does not support is refused.  The data rate is a set of spreading       *)
(* factors, of the FSK chain the bits per second.  A chain that is disabled*)
(* keeps its radio and its data rate.                                      *)
Defaulted(chain, x) ==
  [x EXCEPT !.bw = IF @ # 0 THEN @ ELSE IF chain \in Multi THEN BW_125KHZ ELSE BW_250KHZ,
            !.sf = IF @ # {} THEN @
                   ELSE CASE chain \in Multi -> 7..12 [] chain = LoraStd -> {9} [] OTHER -> {64000}]
Supported(chain, x) ==
  CASE chain \in Multi -> x.bw = BW_125KHZ /\ x.sf \subseteq 7..12
    [] chain = LoraStd -> /\ x.bw \in {BW_125KHZ, BW_250KHZ, BW_500KHZ}
                          /\ \E sf \in 7..12 : x.sf = {sf}
    [] OTHER -> x.bw \in 1..7 /\ \E rate \in x.sf : x.sf = {rate} /\ rate >= 500 /\ rate <= 250000
lgw_rxif_setconf(c, chain, x) ==
  LET y == Defaulted(chain, x)
  IN  IF started THEN c
      ELSE IF ~x.enable THEN [c EXCEPT !.if[chain].enable = FALSE, !.if[chain].freq = 0]
      ELSE IF ~Fits(x.freq, x.bw) \/ ~Supported(chain, y) THEN c
      ELSE [c EXCEPT !.if[chain] = y]

(* There is no check that the concentrator is stopped.  The size is set    *)
(* first, then the entries up to the first that is out of range; of an     *)
(* entry only its load value is kept here.  mix_gain 8 to 15 and dac_gain 3*)
(* are what makes a load value differ from the commands of the AGC.        *)
GoodGain(g) == g.dac = 3 /\ g.mix \in 8..15 /\ g.pa \in 0..3
LoadValue(g) == g.mix + 16 * g.dac + 64 * g.pa
lgw_txgain_setconf(c, lut) ==
  LET accepted == {i \in 1..Len(lut) : \A j \in 1..i : GoodGain(lut[j])}
  IN  IF Len(lut) \notin 1..LutMax THEN c
      ELSE [c EXCEPT !.size = Len(lut),
                     !.lut = [i \in 1..LutMax |-> IF i \in accepted THEN LoadValue(lut[i]) ELSE @[i]]]

lbt_setconf(c, lbt) ==
  IF started \/ Len(lbt.channels) \notin 1..LbtChannels THEN c
  ELSE [c EXCEPT !.lbt = [enable |-> lbt.enable, active |-> Len(lbt.channels),
                          channels |-> [i \in 1..LbtChannels |->
                            IF i <= Len(lbt.channels) THEN lbt.channels[i] ELSE [freq |-> 0, scan |-> 0]]]]

(* parse_SX1301_configuration: what a setter refuses is only reported.     *)
ParsedRadio(c, json, i) ==
  IF json.rf[i] = Absent THEN c ELSE lgw_rxrf_setconf(c, i, json.rf[i])
ParsedChain(c, json, i) ==
  IF json.if[i] = Absent THEN c.if[i] ELSE lgw_rxif_setconf(c, i, json.if[i]).if[i]
parse_SX1301_configuration(c, json) ==
  LET d == ParsedRadio(ParsedRadio(lgw_board_setconf(c, json.public), json, 0), json, 1)
  IN  [d EXCEPT !.if = [i \in Chains |-> ParsedChain(d, json, i)]]

(***************************************************************************)
(* The firmware of the AGC, as lgw_start uses it.  Waiting, it takes the   *)
(* next value that is not the command; the first values are entries of the *)
(* gain table, until it has them all or is told to abort.                  *)
(***************************************************************************)
Silent == [state |-> "off", status |-> 0, stage |-> "lut", lut |-> <<>>, msb |-> 0, radios |-> 0]

FirmwareWaits ==
  /\ agc.state = "idle" /\ select = WAIT
  /\ agc' = [agc EXCEPT !.state = "waiting"]
  /\ UNCHANGED <<hal, chip, fpga, select, caller>>

Taken(a, value) ==
  CASE a.stage = "lut" /\ value = ABORT ->
         [a EXCEPT !.stage = "msb", !.status = Ack]
    [] a.stage = "lut" /\ value # ABORT ->
         [a EXCEPT !.lut = Append(@, value), !.status = Ack + Len(a.lut),
                   !.stage = IF Len(a.lut) + 1 = LutMax THEN "msb" ELSE "lut"]
    [] a.stage = "msb" -> [a EXCEPT !.msb = value, !.status = Ack + value, !.stage = "chan"]
    [] a.stage = "chan" -> [a EXCEPT !.status = Ack + value, !.stage = "radios"]
    [] OTHER -> [a EXCEPT !.radios = value, !.status = 64, !.stage = "done"]

FirmwareTakes ==
  /\ agc.state = "waiting" /\ select # WAIT
  /\ agc' = LET a == Taken(agc, select)
            IN  [a EXCEPT !.state = IF a.stage = "done" THEN "running" ELSE "idle"]
  /\ UNCHANGED <<hal, chip, fpga, select, caller>>

(***************************************************************************)
(* lgw_start, in the order of its code                                     *)
(***************************************************************************)
Blank == [connected |-> FALSE, radio |-> [i \in 0..1 |-> 0], public |-> FALSE,
          modem |-> [i \in Chains |-> {}], freq |-> [i \in Chains |-> 0]]
FpgaReset(f) == [f EXCEPT !.offset = [i \in 1..LbtChannels |-> 0],
                          !.slow = [i \in 1..LbtChannels |-> FALSE], !.running = FALSE]

lgw_start ==
  /\ phase = "out" /\ starts < MaxStarts
  /\ program \in {"configured", "utility"}
  /\ phase' = "connect" /\ starts' = starts + 1
  /\ UNCHANGED <<conf, started, step, returned, board, program, exit_sig, calls>>

Returns(result) ==
  /\ phase' = "out" /\ step' = 1 /\ returned' = result
  /\ program' = IF program # "configured" THEN program
                ELSE IF result = "success" THEN "serving" ELSE "ended"
  /\ UNCHANGED <<exit_sig, calls, starts>>

(* Every error returns at once and leaves everything as it is, also        *)
(* lgw_is_started of the start before.                                     *)
Fails ==
  /\ phase \in {"connect", "radios", "lbt", "calibrate", "firmware"}
  /\ Returns("error")
  /\ UNCHANGED <<conf, started, board>>

(* Mutant: lgw_connect does not reset the FPGA. *)
lgw_connectKeepsFpga ==
  /\ phase = "connect"
  /\ chip' = [Blank EXCEPT !.connected = TRUE]
  /\ fpga' = fpga
  /\ agc' = Silent /\ select' = 0
  /\ phase' = "radios"
  /\ UNCHANGED <<conf, started, step, returned, caller>>

(* lgw_connect opens the link, again if it was open, and resets an FPGA    *)
(* that it detects; lgw_start then resets the SX1301 and its radios.       *)
lgw_connect ==
  /\ phase = "connect"
  /\ chip' = [Blank EXCEPT !.connected = TRUE]
  /\ fpga' = IF fpga.present THEN FpgaReset(fpga) ELSE fpga
  /\ agc' = Silent /\ select' = 0
  /\ phase' = "radios"
  /\ UNCHANGED <<conf, started, step, returned, caller>>

lgw_setup_sx125x ==
  /\ phase = "radios"
  /\ chip' = [chip EXCEPT !.radio = [i \in 0..1 |-> IF conf.rf[i].enable THEN conf.rf[i].freq ELSE 0]]
  /\ phase' = IF conf.lbt.enable THEN "lbt" ELSE "calibrate"
  /\ UNCHANGED <<conf, started, step, returned, fpga, agc, select, caller>>

(* The channels that are not active get the first frequency and the fast   *)
(* scan.  A register is written for the slow scan only: the fast one is    *)
(* what the reset left.  A channel out of range ends the setup.            *)
Filled(lbt) ==
  [i \in 1..LbtChannels |-> IF i <= lbt.active THEN lbt.channels[i]
                            ELSE [freq |-> StartFreq, scan |-> 128]]
GoodChannel(c) == c.freq >= StartFreq /\ c.scan \in {128, 5000}
lbt_setup ==
  LET channels == Filled(conf.lbt)
      written == {i \in 1..LbtChannels : \A j \in 1..i : GoodChannel(channels[j])}
      good == written = 1..LbtChannels
  IN  /\ phase = "lbt" /\ fpga.present
      /\ conf' = [conf EXCEPT !.lbt.channels = channels]
      /\ fpga' = [fpga EXCEPT
           !.offset = [i \in 1..LbtChannels |-> IF i \in written THEN channels[i].freq - StartFreq ELSE @[i]],
           !.slow = [i \in 1..LbtChannels |-> @[i] \/ (i \in written /\ channels[i].scan = 5000)],
           !.running = good]
      /\ IF good THEN phase' = "calibrate" /\ UNCHANGED <<step, returned, caller>>
         ELSE Returns("error")
      /\ UNCHANGED <<started, chip, agc, select>>

Calibrates ==
  /\ phase = "calibrate"
  /\ phase' = "modems"
  /\ UNCHANGED <<conf, started, step, returned, board, caller>>

(* Registers of the modems with constants of their own; which sync word    *)
(* they look for and send depends on the kind of network.                  *)
lgw_constant_adjust == [chip EXCEPT !.public = conf.lorawan_public]

(* The modems of the chains that are enabled.  Without a frequency of      *)
(* radio 0 the start fails, with the constants adjusted.                   *)
ConfiguresModems ==
  /\ phase = "modems"
  /\ chip' = [lgw_constant_adjust EXCEPT
       !.modem = IF conf.rf[0].freq = 0 THEN @
                 ELSE [i \in Chains |-> IF conf.if[i].enable THEN conf.if[i].sf ELSE {}],
       !.freq = IF conf.rf[0].freq = 0 THEN @ ELSE [i \in Chains |-> conf.if[i].freq]]
  /\ IF conf.rf[0].freq = 0 THEN Returns("error")
     ELSE phase' = "firmware" /\ UNCHANGED <<step, returned, caller>>
  /\ UNCHANGED <<conf, started, fpga, agc, select>>

(* The AGC is held in reset while its program memory is written: nothing   *)
(* it was given before remains.  What load_firmware returns is not tested. *)
load_firmware == Silent

(* Out of reset, the firmware shows 0x10 when it is ready.                 *)
LoadsFirmware ==
  /\ phase = "firmware"
  /\ agc' = [load_firmware EXCEPT !.state = "idle", !.status = 16]
  /\ select' = 0
  /\ phase' = "command" /\ step' = 1
  /\ UNCHANGED <<conf, started, returned, chip, fpga, caller>>

(* The values given to the AGC, and the status that acknowledges each: the *)
(* gain table, the end of a table that is not full, the MSB of the         *)
(* frequency, the channel option, the radio of each chain as a bit: with   *)
(* chain 4 alone on the second radio they are 16, the command itself, which*)
(* the firmware never takes for a value.                                   *)
RadioBit(c, i, bit) == IF i \in Multi /\ c.if[i].rf_chain = 1 THEN bit ELSE 0
RadioMask(c) ==
  RadioBit(c, 0, 1) + RadioBit(c, 1, 2) + RadioBit(c, 2, 4) + RadioBit(c, 3, 8)
  + RadioBit(c, 4, 16) + RadioBit(c, 5, 32) + RadioBit(c, 6, 64) + RadioBit(c, 7, 128)
radio_select == RadioMask(conf)
Transactions ==
  [i \in 1..conf.size |-> [value |-> conf.lut[i], ack |-> Ack + i - 1]]
  \o (IF conf.size < LutMax THEN <<[value |-> ABORT, ack |-> Ack]>> ELSE <<>>)
  \o <<[value |-> 3, ack |-> Ack + 3], [value |-> 0, ack |-> Ack], [value |-> radio_select, ack |-> 64]>>

StartsTransaction ==
  /\ phase = "command"
  /\ select' = WAIT /\ phase' = "value"
  /\ UNCHANGED <<conf, started, step, returned, chip, fpga, agc, caller>>

GivesValue ==
  /\ phase = "value"
  /\ select' = Transactions[step].value /\ phase' = "check"
  /\ UNCHANGED <<conf, started, step, returned, chip, fpga, agc, caller>>

(* Mutant: the status is read and not compared. *)
ChecksStatusNever ==
  /\ phase = "check"
  /\ IF step < Len(Transactions)
     THEN phase' = "command" /\ step' = step + 1 /\ UNCHANGED <<started, returned, caller>>
     ELSE started' = TRUE /\ Returns("success")
  /\ UNCHANGED <<conf, board>>

ChecksStatus ==
  /\ phase = "check"
  /\ IF agc.status # Transactions[step].ack THEN Returns("error") /\ UNCHANGED started
     ELSE IF step < Len(Transactions)
     THEN phase' = "command" /\ step' = step + 1 /\ UNCHANGED <<started, returned, caller>>
     ELSE started' = TRUE /\ Returns("success")
  /\ UNCHANGED <<conf, board>>

(***************************************************************************)
(* lgw_stop and the programs                                               *)
(***************************************************************************)
Stopped ==
  /\ started' = FALSE
  /\ chip' = IF chip.connected THEN Blank ELSE chip
  /\ agc' = IF chip.connected THEN Silent ELSE agc
  /\ select' = IF chip.connected THEN 0 ELSE select
  /\ UNCHANGED <<conf, phase, step, returned, fpga>>

UtilityStops ==
  /\ phase = "out" /\ program = "utility" /\ starts > 0
  /\ Stopped
  /\ UNCHANGED caller

UtilitySets ==
  /\ phase = "out" /\ program = "utility" /\ calls < MaxCalls
  /\ \/ \E chain \in Chains, x \in RxifConfs : conf' = lgw_rxif_setconf(conf, chain, x)
     \/ \E lbt \in LbtConfs : conf' = lbt_setconf(conf, lbt)
     \/ \E lut \in TxgainConfs :
          (started => GainWhileStarted) /\ conf' = lgw_txgain_setconf(conf, lut)
  /\ calls' = calls + 1
  /\ UNCHANGED <<started, phase, step, returned, board, program, exit_sig, starts>>

(* A utility sets its radios from its options; here it takes a file too.   *)
Configures ==
  /\ phase = "out" /\ (program = "begin" \/ (program = "utility" /\ starts = 0 /\ calls = 0))
  /\ \E json \in Jsons : conf' = parse_SX1301_configuration(conf, json)
  /\ program' = IF program = "begin" THEN "configured" ELSE program
  /\ UNCHANGED <<started, phase, step, returned, board, exit_sig, calls, starts>>

sig_handler ==
  /\ program \in {"configured", "serving", "leaving"} /\ ~exit_sig
  /\ exit_sig' = TRUE
  /\ UNCHANGED <<hal, board, program, calls, starts>>

(* The menu prints the stations, asks for an option and looks at the flag. *)
menu ==
  /\ program = "serving" /\ exit_sig
  /\ program' = "leaving"
  /\ UNCHANGED <<hal, board, exit_sig, calls, starts>>

(* The mutex is destroyed and the concentrator stopped.                    *)
MainLeaves ==
  /\ program = "leaving"
  /\ Stopped
  /\ program' = "ended"
  /\ UNCHANGED <<exit_sig, calls, starts>>

Init ==
  /\ conf = [lorawan_public |-> FALSE,
             rf |-> [i \in 0..1 |-> [enable |-> FALSE, freq |-> 0, type |-> "none"]],
             if |-> [i \in Chains |-> [enable |-> FALSE, rf_chain |-> 0, freq |-> 0, bw |-> 0, sf |-> {}]],
             size |-> 2,
             lut |-> [i \in 1..LutMax |-> CASE i = 1 -> 186 [] i = 2 -> 254 [] OTHER -> 0],
             lbt |-> [enable |-> FALSE, active |-> 0,
                      channels |-> [i \in 1..LbtChannels |-> [freq |-> 0, scan |-> 0]]]]
  /\ started = FALSE /\ phase = "out" /\ step = 1 /\ returned = "none"
  /\ chip = Blank
  /\ \E present \in Fpgas : fpga = FpgaReset([present |-> present, offset |-> <<>>, slow |-> <<>>, running |-> FALSE])
  /\ agc = Silent /\ select = 0
  /\ program \in {"begin", "utility"} /\ exit_sig = FALSE /\ calls = 0 /\ starts = 0

Start ==
  \/ lgw_start \/ Fails \/ lgw_connect \/ lgw_setup_sx125x \/ lbt_setup \/ Calibrates
  \/ ConfiguresModems \/ LoadsFirmware \/ StartsTransaction \/ GivesValue \/ ChecksStatus
Firmware == FirmwareWaits \/ FirmwareTakes
Caller == UtilityStops \/ UtilitySets \/ Configures \/ sig_handler \/ menu \/ MainLeaves
Next == Start \/ Firmware \/ Caller
Spec == Init /\ [][Next]_vars

(***************************************************************************)
(* Properties                                                              *)
(***************************************************************************)
(* Types, and what the setters let through: a chain that is enabled has a  *)
(* spreading factor, a gain table has an entry and no value that the AGC   *)
(* would take for one of its commands.                                     *)
TypeOK ==
  /\ conf.size \in 1..LutMax
  /\ conf.lut \in [1..LutMax -> (0..255) \ {WAIT, ABORT}]
  /\ \A i \in Chains : conf.if[i].enable => conf.if[i].sf # {}
  /\ phase \in {"out", "connect", "radios", "lbt", "calibrate", "modems", "firmware",
                "command", "value", "check"}
  /\ step \in Nat /\ select \in 0..255
  /\ returned \in {"none", "success", "error"} /\ started \in BOOLEAN

Running == started /\ phase = "out" /\ returned = "success"

(* When lgw_start has succeeded, the AGC runs with the gain table of the   *)
(* HAL, complete and in order, with its three other values, and the modems *)
(* are those of the configuration: however slowly the firmware polls, the  *)
(* acknowledgements the host reads never let a value that was missed, or   *)
(* taken for another one, go unnoticed, also after a start that failed and *)
(* when a value is the command to wait.                                    *)
RunsAsConfigured ==
  Running =>
    /\ agc.state = "running"
    /\ agc.lut = SubSeq(conf.lut, 1, conf.size) /\ agc.msb = 3 /\ agc.radios = radio_select
    /\ chip.public = conf.lorawan_public
    /\ \A i \in Chains : chip.modem[i] # {} <=> conf.if[i].enable
    /\ \A i \in 0..1 : conf.rf[i].enable => chip.radio[i] = conf.rf[i].freq

(* When lgw_start has succeeded with listen before talk, the FPGA scans    *)
(* each active channel at its frequency and for its time, and the others   *)
(* fast, whatever an earlier start of the same board configured: the       *)
(* scan time is only ever written to make it slow.                         *)
LbtAsConfigured ==
  Running /\ conf.lbt.enable =>
    /\ fpga.running
    /\ \A i \in 1..LbtChannels :
         LET c == Filled(conf.lbt)[i]
         IN  fpga.offset[i] = c.freq - StartFreq /\ (fpga.slow[i] <=> c.scan = 5000)
=============================================================================
