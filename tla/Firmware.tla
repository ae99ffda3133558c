------------------------------ MODULE Firmware -----------------------------
(***************************************************************************)
(* The firmware around its run modes (main.c, cmd.c, cmd_table.c,              *)
(* cmdkey_table.c): keys and command lines from the console, the parameters    *)
(* they change and save, the choice of the run mode, the configuration of the  *)
(* Ethernet controller when a mode is entered and when the Amiga announces     *)
(* its MAC address, soft resets and power failures.                          *)
(* A key, or a line in command mode, is one character of the ring here.       *)
(***************************************************************************)
EXTENDS Uart, Params

CONSTANTS Modes,     \* run modes used: "bridge", "bridge_test", "pio_test", "pb_test"
          MaxFails   \* bound: power failures

VARIABLES pc,        \* "init", "enter", "run", "handle", "shell", "save", "reset"
          run_mode,
          mode,      \* the loop entered
          result,    \* cmd_loop: what it will return, "done" or "restart"
          back,      \* where param_save was called, "shell" or "magic"
          ctl,       \* the controller: whether it is on, its MAC and its duplex mode
          flow,      \* flow_control in bridge_loop
          changed,   \* history: since the loop was entered, "params" were loaded or reset,
                     \* the "mac" was set, the Amiga's MAC was "learned"
          fails      \* power failures so far

progVars == <<pc, run_mode, mode, result, back, ctl, flow, changed, fails>>
vars == <<uartVars, paramVars, progVars>>

ASSUME FirmwareAssumption ==
  /\ "bridge" \in Modes /\ Modes \subseteq {"bridge", "bridge_test", "pio_test", "pb_test"}
  /\ MaxFails \in Nat

Macs == {<<1, 1>>, <<2, 2>>}

TypeOK ==
  /\ UartTypeOK /\ ParamTypeOK
  /\ pc \in {"init", "enter", "run", "handle", "shell", "save", "reset"}
  /\ run_mode \in Modes /\ mode \in Modes
  /\ result \in {"done", "restart"}
  /\ back \in {"shell", "magic"}
  /\ ctl \in [on : BOOLEAN, mac : Macs, full_duplex : 0..1]
  /\ flow \in 0..1
  /\ changed \subseteq {"params", "mac", "learned"}
  /\ fails \in 0..MaxFails

Init ==
  /\ UartPowerOn /\ ParamInit
  /\ pc = "init"
  /\ run_mode = "bridge" /\ mode = "bridge"
  /\ result = "done" /\ back = "shell"
  /\ ctl = [on |-> FALSE, mac |-> MacOf(Default), full_duplex |-> 0]
  /\ flow = 0
  /\ changed = {} /\ fails = 0

Goto(l) == pc' = l

----------------------------------------------------------------------------
(* main.c *)

\* loop: init_hw with uart_init, then param_init.
Start ==
  /\ pc = "init"
  /\ UartReset
  /\ param' = InitParam
  /\ Goto("enter")
  /\ UNCHANGED <<romVars, run_mode, mode, result, back, ctl, flow, changed, fails>>

\* The loop of the run mode begins: pio_init, except in pb_test.
Configured(p) == [on |-> TRUE, mac |-> MacOf(p), full_duplex |-> p["full_duplex"]]
Enter ==
  /\ pc = "enter"
  /\ mode' = run_mode
  /\ ctl' = IF run_mode = "pb_test" THEN ctl ELSE Configured(param)
  /\ flow' = IF run_mode = "bridge" THEN param["flow_ctl"] ELSE flow
  /\ changed' = {}
  /\ Goto("run")
  /\ UNCHANGED <<uartVars, paramVars, run_mode, result, back, fails>>

\* A loop ends: pio_exit.
Exited == IF mode = "pb_test" THEN ctl ELSE [ctl EXCEPT !.on = FALSE]

\* while(run_mode == ...).  The mutant's loop goes on.
StaysInLoop == FALSE /\ UNCHANGED vars
LeaveLoop ==
  /\ pc = "run" /\ run_mode # mode
  /\ ctl' = Exited
  /\ Goto("enter")
  /\ UNCHANGED <<uartVars, paramVars, run_mode, mode, result, back, flow, changed, fails>>

\* "resetting...": 100 ms, longer than the EEPROM needs for a byte.  The mutant does not wait.
ResetAtOnce ==
  /\ pc = "reset"
  /\ Goto("init")
  /\ UNCHANGED <<uartVars, paramVars, run_mode, mode, result, back, ctl, flow, changed, fails>>
Reset ==
  /\ pc = "reset"
  /\ busy' = {}
  /\ Goto("init")
  /\ UNCHANGED <<uartVars, param, rom, todo, saved, torn, twice,
                 run_mode, mode, result, back, ctl, flow, changed, fails>>

----------------------------------------------------------------------------
(* cmd_worker and the key commands *)

\* Nothing typed: the loop goes on with its packets.
NoKey ==
  /\ pc = "run" /\ run_mode = mode
  /\ ~DataAvailable
  /\ Goto("handle")
  /\ UNCHANGED <<uartVars, paramVars, run_mode, mode, result, back, ctl, flow, changed, fails>>

\* 1 to 4: the mode changes, the loop ends when it tests it again.  Other keys: no change
\* but in statistics and test packets.
Key ==
  /\ pc = "run" /\ run_mode = mode
  /\ Read
  /\ run_mode' \in Modes
  /\ Goto("handle")
  /\ UNCHANGED <<paramVars, mode, result, back, ctl, flow, changed, fails>>

\* Return: cmd_loop begins.
KeyReturn ==
  /\ pc = "run" /\ run_mode = mode
  /\ Read
  /\ result' = "done"
  /\ Goto("shell")
  /\ UNCHANGED <<paramVars, run_mode, mode, back, ctl, flow, changed, fails>>

----------------------------------------------------------------------------
(* cmd_loop and the commands *)

Line == pc = "shell" /\ Read

\* A command that changes the parameters and not the result.  The mutant takes the status of
\* the last command for the result.
CommandTakesResult(p, what) ==
  /\ Line
  /\ param' = p
  /\ changed' = changed \cup what
  /\ result' = "done"
  /\ UNCHANGED <<romVars, pc, run_mode, mode, back, ctl, flow, fails>>
Command(p, what) ==
  /\ Line
  /\ param' = p
  /\ changed' = changed \cup what
  /\ UNCHANGED <<romVars, pc, run_mode, mode, result, back, ctl, flow, fails>>

\* v, p, sd, sr, help, the test parameters, a wrong line, ps while the EEPROM is busy
OtherLine == Command(param, {})

CmdParamLoad == Command(Load, {"params"})
CmdParamReset == Command(Default, {"params"})
CmdMacAddr == \E mac \in Macs : Command(WithMac(param, mac), {"mac"})

\* fd and fc: CMD_OK_RESTART
CmdToggle ==
  /\ Line
  /\ \E o \in Options, v \in 0..1 : param' = [param EXCEPT ![o] = v]
  /\ result' = "restart"
  /\ UNCHANGED <<romVars, pc, run_mode, mode, back, ctl, flow, changed, fails>>

CmdParamSave ==
  /\ Line
  /\ SaveBegins(param)
  /\ back' = "shell"
  /\ Goto("save")
  /\ UNCHANGED <<run_mode, mode, result, ctl, flow, changed, fails>>

\* CMD_QUIT.  A restart leaves the loop and main enters it again.
CmdQuit ==
  /\ Line
  /\ IF result = "restart" THEN ctl' = Exited /\ Goto("enter")
                           ELSE UNCHANGED ctl /\ Goto("handle")
  /\ UNCHANGED <<paramVars, run_mode, mode, result, back, flow, changed, fails>>

CmdReset ==
  /\ Line
  /\ ctl' = Exited
  /\ Goto("reset")
  /\ UNCHANGED <<paramVars, run_mode, mode, result, back, flow, changed, fails>>

----------------------------------------------------------------------------
(* pb_util_handle in the bridge's loop *)

HandleOther ==
  /\ pc = "handle"
  /\ Goto("run")
  /\ UNCHANGED <<uartVars, paramVars, run_mode, mode, result, back, ctl, flow, changed, fails>>

\* magic_online: an address that is not the parameters' is taken over and saved ...
MagicOnline ==
  /\ pc = "handle" /\ mode = "bridge"
  /\ \E mac \in Macs :
       /\ mac # MacOf(param)
       /\ changed' = changed \cup {"learned"}
       /\ IF busy = {}
            THEN SaveBegins(WithMac(param, mac))
            ELSE param' = WithMac(param, mac) /\ UNCHANGED romVars
  /\ back' = "magic"
  /\ Goto("save")
  /\ UNCHANGED <<uartVars, run_mode, mode, result, ctl, flow, fails>>

\* ... and when param_save has returned the controller is initialised with it, for broadcasts
\* only.
Saved ==
  /\ pc = "save" /\ todo = {}
  /\ IF back = "magic"
       THEN ctl' = [on |-> TRUE, mac |-> MacOf(param), full_duplex |-> 0] /\ Goto("run")
       ELSE UNCHANGED ctl /\ Goto("shell")
  /\ UNCHANGED <<uartVars, paramVars, run_mode, mode, result, back, flow, changed, fails>>

----------------------------------------------------------------------------
\* The power fails; the program starts from main with its initial values.
PowerFails ==
  /\ fails < MaxFails
  /\ fails' = fails + 1
  /\ RomTorn
  /\ Goto("init")
  /\ run_mode' = "bridge"
  /\ ctl' = [ctl EXCEPT !.on = FALSE]
  /\ UNCHANGED <<uartVars, mode, result, back, flow, changed>>

Byte == SaveByte /\ pc = "save" /\ UNCHANGED <<uartVars, progVars>>

Shell == OtherLine \/ CmdParamLoad \/ CmdParamReset \/ CmdMacAddr \/ CmdToggle
         \/ CmdParamSave \/ CmdQuit \/ CmdReset
Program == Start \/ Enter \/ LeaveLoop \/ Reset \/ NoKey \/ Key \/ KeyReturn \/ Shell
           \/ HandleOther \/ MagicOnline \/ Byte \/ Saved

Next ==
  \/ Program
  \/ ByteDone /\ UNCHANGED <<uartVars, progVars>>
  \/ Isr /\ UNCHANGED <<paramVars, progVars>>
  \/ PowerFails

Spec == Init /\ [][Next]_vars

\* The program goes on, and so does the EEPROM.
FairSpec == Spec /\ WF_vars(Program) /\ WF_vars(ByteDone /\ UNCHANGED <<uartVars, progVars>>)

----------------------------------------------------------------------------
(* Properties *)

\* No key is lost but by the ring's overflow, through resets, modes and the shell.
ShellInv == TypeOK /\ KeysKept

\* The parameters after a start are the ones saved last, or the defaults if a save was cut
\* off: never a mixture, and never the defaults after a soft reset or an undisturbed save.
\* Only when the save of the same parameters was cut off twice may they come up: the one
\* half of the checksum is from the first, the other from the second.
BootParams ==
  [][Start => /\ param' \in {saved, Default} \cup twice
              /\ torn = {} => param' = saved]_vars

\* When the loop handles packets, the controller has the MAC and the duplex mode of the
\* parameters and the bridge their flow control, however the options were set before: an
\* option changed in command mode restarts the loop, whatever commands follow it.  Set
\* aside are the ways that do not: pl, pr and m, and half duplex after a MAC was learned.
OptionsApplied ==
  pc \in {"run", "handle"} =>
    /\ "params" \notin changed /\ mode = "bridge" => flow = param["flow_ctl"]
    /\ mode # "pb_test" /\ "params" \notin changed =>
         /\ ctl.on
         /\ "mac" \notin changed => ctl.mac = MacOf(param)
         /\ "learned" \notin changed => ctl.full_duplex = param["full_duplex"]

\* A chosen mode is entered.
ModeEntered == run_mode # mode ~> run_mode = mode

\* "If fd is set to one then full duplex mode is enabled", after ps and r (firmware.md:236).
\* Fails when the Amiga announces another address (README).
DuplexAsSet ==
  pc \in {"run", "handle"} /\ mode = "bridge" /\ changed \subseteq {"learned"}
    => ctl.full_duplex = param["full_duplex"]
=============================================================================
