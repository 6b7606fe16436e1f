----------------------------- MODULE Validation -----------------------------
(***************************************************************************)
(* The command surface of main.go: beforeCommand parses the global         *)
(* --interval, then the command's handler (kill, netemDelay, pause,        *)
(* remove, stop) checks its flags and hands the command to                 *)
(* runChaosCommand, which creates the ticker (or, in a test run, the       *)
(* timer).  Every input is chosen once, in Init, from a small set of the   *)
(* values the command line can carry.                                      *)
(*                                                                         *)
(* A duration flag is empty, malformed, or parses to a value; only the     *)
(* sign of the value and its order with the other durations matter, so     *)
(* values are small integers.                                              *)
(***************************************************************************)
EXTENDS Integers, Sequences, SequencesExt

CONSTANTS
  DurValues,   \* values a well-formed duration string may parse to
  IfChars,     \* characters an --interface value is made of
  IfMaxLen,    \* bound on the length of an --interface value
  Ints,        \* values of the integer flags amount, variation, correlation
  TestRun      \* gTestRun

ASSUME ValidationAssumption ==
  /\ DurValues \subseteq Int /\ Ints \subseteq Int
  /\ IfMaxLen \in Nat /\ TestRun \in BOOLEAN

Letters == {"e", "t", "h"} \cap IfChars
Digits == {"0", "1"} \cap IfChars

(* A duration flag, as time.ParseDuration sees it.                         *)
DurInputs == {[kind |-> "empty", val |-> 0], [kind |-> "malformed", val |-> 0]}
             \cup {[kind |-> "ok", val |-> v] : v \in DurValues}
(* --target: absent, an address net.ParseIP accepts, or one it refuses.    *)
Targets == {"none", "ip", "garbage"}
Kinds == {"kill", "netem", "pause", "rm", "stop"}

(* reInterface.FindString(s) for [a-zA-Z]+[0-9]{0,2}: the leftmost match,  *)
(* as many letters as follow its first letter, then up to two digits; ""   *)
(* when s has no letter.                                                   *)
FindInterface(s) ==
  LET starts == {i \in 1..Len(s) : s[i] \in Letters} IN
  IF starts = {} THEN <<>>
  ELSE LET i == CHOOSE i \in starts : \A j \in starts : i <= j
           lets == {k \in i..Len(s) : \A m \in i..k : s[m] \in Letters}
           e == CHOOSE k \in lets : \A m \in lets : m <= k
           digs == {d \in 0..2 : e + d <= Len(s) /\ \A m \in (e + 1)..(e + d) : s[m] \in Digits}
           n == CHOOSE d \in digs : \A m \in digs : m <= d
       IN SubSeq(s, i, e + n)

(* net.ParseIP: nil unless the string is an address.                       *)
ParseIP(t) == IF t = "ip" THEN "ip" ELSE "nil"

VARIABLES
  kind, interval, duration, signalOk, iface, target, amount, variation,
  correlation,   \* the inputs
  phase,         \* "before", "handler", "schedule", "running", "rejected", "panic"
  filtered       \* the netem command got a non-nil IP

inputs == <<kind, interval, duration, signalOk, iface, target, amount,
            variation, correlation>>
valvars == <<inputs, phase, filtered>>

ValidationInit ==
  /\ kind \in Kinds
  /\ interval \in DurInputs
  /\ duration \in IF kind \in {"netem", "pause"} THEN DurInputs ELSE {[kind |-> "empty", val |-> 0]}
  /\ signalOk \in IF kind = "kill" THEN BOOLEAN ELSE {TRUE}
  /\ iface \in IF kind = "netem" THEN BoundedSeq(IfChars, IfMaxLen) ELSE {<<>>}
  /\ target \in IF kind = "netem" THEN Targets ELSE {"none"}
  /\ amount \in IF kind = "netem" THEN Ints ELSE {0}
  /\ variation \in IF kind = "netem" THEN Ints ELSE {0}
  /\ correlation \in IF kind = "netem" THEN Ints ELSE {0}
  /\ phase = "before"
  /\ filtered = FALSE

Reject == phase' = "rejected" /\ UNCHANGED <<inputs, filtered>>

(* beforeCommand: --interval must be given and parse; any parsed value,    *)
(* zero or negative included, becomes gInterval.                           *)
BeforeCommand ==
  /\ phase = "before"
  /\ IF interval.kind = "ok"
       THEN phase' = "handler" /\ UNCHANGED <<inputs, filtered>>
       ELSE Reject

(* kill: the signal must be in LinuxSignals.                               *)
KillHandler ==
  /\ phase = "handler" /\ kind = "kill"
  /\ IF signalOk THEN phase' = "schedule" /\ UNCHANGED <<inputs, filtered>>
                 ELSE Reject

(* Mutant of NetemHandler: the variation bound off by one.                *)
NetemHandlerStrictVariation ==
  /\ phase = "handler" /\ kind = "netem"
  /\ IF /\ duration.kind = "ok"
        /\ iface = FindInterface(iface)
        /\ amount > 0
        /\ 0 <= variation /\ variation < amount
        /\ 0 <= correlation /\ correlation <= 100
       THEN /\ phase' = "schedule"
            /\ filtered' = (ParseIP(target) # "nil")
            /\ UNCHANGED inputs
       ELSE Reject

(* netemDelay: duration given and parsing, the interface equal to its      *)
(* regexp match, amount > 0, 0 <= variation <= amount, 0 <= correlation    *)
(* <= 100; the target IP is whatever net.ParseIP makes of --target.        *)
NetemHandler ==
  /\ phase = "handler" /\ kind = "netem"
  /\ IF /\ duration.kind = "ok"
        /\ iface = FindInterface(iface)
        /\ amount > 0
        /\ 0 <= variation /\ variation <= amount
        /\ 0 <= correlation /\ correlation <= 100
       THEN /\ phase' = "schedule"
            /\ filtered' = (ParseIP(target) # "nil")
            /\ UNCHANGED inputs
       ELSE Reject

(* pause: the duration must be given and parse.                            *)
PauseHandler ==
  /\ phase = "handler" /\ kind = "pause"
  /\ IF duration.kind = "ok" THEN phase' = "schedule" /\ UNCHANGED <<inputs, filtered>>
                             ELSE Reject

(* remove and stop take their flags as they are.                           *)
RemoveOrStopHandler ==
  /\ phase = "handler" /\ kind \in {"rm", "stop"}
  /\ phase' = "schedule"
  /\ UNCHANGED <<inputs, filtered>>

(* runChaosCommand: time.NewTimer accepts any duration; time.NewTicker      *)
(* panics on one that is not positive.                                     *)
StartTimer ==
  /\ phase = "schedule"
  /\ phase' = IF ~TestRun /\ interval.val <= 0 THEN "panic" ELSE "running"
  /\ UNCHANGED <<inputs, filtered>>

ValidationNext ==
  BeforeCommand \/ KillHandler \/ NetemHandler \/ PauseHandler
  \/ RemoveOrStopHandler \/ StartTimer

ValidationSpec == ValidationInit /\ [][ValidationNext]_valvars
-----------------------------------------------------------------------------
(* Interface names of the form [a-zA-Z]+[0-9]{0,2}, by definition.         *)
WellFormedIface(s) ==
  \E n \in 1..Len(s) :
    /\ \A i \in 1..n : s[i] \in Letters
    /\ Len(s) - n <= 2
    /\ \A i \in (n + 1)..Len(s) : s[i] \in Digits

(* The parameters spec 4.5, 4.3 and 6 call valid.                          *)
SpecValid ==
  /\ interval.kind = "ok" /\ interval.val > 0
  /\ kind = "kill" => signalOk
  /\ kind \in {"netem", "pause"} =>
       duration.kind = "ok" /\ duration.val <= interval.val
  /\ kind = "netem" =>
       /\ WellFormedIface(iface)
       /\ target # "garbage"
       /\ amount > 0 /\ 0 <= variation /\ variation <= amount
       /\ 0 <= correlation /\ correlation <= 100

(* No valid command is refused: whatever the handlers reject is invalid    *)
(* by the spec's rules (the checks of beforeCommand and of each handler    *)
(* are no stricter than the spec).                                         *)
ValidNeverRejected == phase = "rejected" => ~SpecValid

(* Validation is sound (spec 7.1, 4.5, P7): every command that gets past  *)
(* beforeCommand and its handler to the scheduler, whether it then runs or *)
(* panics, is one the spec calls valid.                                   *)
ValidatedIsValid == phase \in {"running", "panic"} => SpecValid
=============================================================================
