-------------------------- MODULE ValidationProofs --------------------------
(***************************************************************************)
(* Proofs about Validation: that beforeCommand and the handlers of        *)
(* main.go refuse no command the spec calls valid, for every set of       *)
(* durations, interface characters and integer flags.                     *)
(***************************************************************************)
EXTENDS Validation, TLAPS

(* The interval and the characters of a well-formed interface are told    *)
(* apart by the regexp: no character is both a letter and a digit.        *)
LEMMA LettersNotDigits == \A x \in Letters : x \notin Digits
BY DEF Letters, Digits

(* The parts of FindInterface's LET, named so that a proof can cite them  *)
(* one at a time: the first letter, the run of letters from it, its end,  *)
(* the digit counts that may follow, and the longest of them.             *)
IfStarts(s) == {i \in 1..Len(s) : s[i] \in Letters}
IfFirst(s) == CHOOSE i \in IfStarts(s) : \A j \in IfStarts(s) : i <= j
IfLets(s) == {k \in IfFirst(s)..Len(s) : \A m \in IfFirst(s)..k : s[m] \in Letters}
IfEnd(s) == CHOOSE k \in IfLets(s) : \A m \in IfLets(s) : m <= k
IfDigs(s) == {d \in 0..2 : IfEnd(s) + d <= Len(s) /\ \A m \in (IfEnd(s) + 1)..(IfEnd(s) + d) : s[m] \in Digits}
IfNDigits(s) == CHOOSE d \in IfDigs(s) : \A m \in IfDigs(s) : m <= d

(* netemDelay's interface check: a name of the form [a-zA-Z]+[0-9]{0,2}   *)
(* is its own leftmost match, so reInterface.FindString(s) == s holds.    *)
LEMMA WellFormedFound ==
  ASSUME NEW s \in Seq(IfChars), WellFormedIface(s)
  PROVE  FindInterface(s) = s
<1>1. PICK p \in 1..Len(s) :
        /\ \A i \in 1..p : s[i] \in Letters
        /\ Len(s) - p <= 2
        /\ \A i \in (p + 1)..Len(s) : s[i] \in Digits
  BY DEF WellFormedIface
<1>2. 1 \in IfStarts(s)
  BY <1>1 DEF IfStarts
<1>3. IfFirst(s) = 1
  <2>1. \E i \in IfStarts(s) : \A j \in IfStarts(s) : i <= j
    BY <1>2 DEF IfStarts
  <2>2. IfFirst(s) \in IfStarts(s) /\ \A j \in IfStarts(s) : IfFirst(s) <= j
    BY <2>1 DEF IfFirst
  <2>. QED  BY <1>2, <2>2 DEF IfStarts
<1>4. IfLets(s) = 1..p
  <2>1. ASSUME NEW k \in 1..Len(s), k > p
        PROVE  ~\A m \in 1..k : s[m] \in Letters
    <3>1. s[p + 1] \in Digits  BY <1>1, <2>1
    <3>. QED  BY <3>1, <2>1, LettersNotDigits
  <2>. QED  BY <1>1, <1>3, <2>1 DEF IfLets
<1>5. IfEnd(s) = p
  <2>1. p \in IfLets(s) /\ \A m \in IfLets(s) : m <= p  BY <1>4
  <2>2. IfEnd(s) \in IfLets(s) /\ \A m \in IfLets(s) : m <= IfEnd(s)  BY <2>1 DEF IfEnd
  <2>3. IfEnd(s) \in Int /\ IfEnd(s) <= p /\ p <= IfEnd(s)  BY <2>1, <2>2, <1>4
  <2>. QED  BY <2>3
<1>6. IfDigs(s) = 0..(Len(s) - p)
  <2>1. ASSUME NEW d \in 0..(Len(s) - p)
        PROVE  d \in IfDigs(s)
    <3>1. d \in 0..2 /\ p + d <= Len(s)  BY <1>1, <2>1
    <3>2. \A m \in (p + 1)..(p + d) : s[m] \in Digits  BY <1>1, <2>1
    <3>. QED  BY <3>1, <3>2, <1>5 DEF IfDigs
  <2>2. ASSUME NEW d \in IfDigs(s) PROVE d \in 0..(Len(s) - p)
    BY <1>5 DEF IfDigs
  <2>. QED  BY <2>1, <2>2
<1>7. IfNDigits(s) = Len(s) - p
  <2>1. Len(s) - p \in IfDigs(s) /\ \A m \in IfDigs(s) : m <= Len(s) - p  BY <1>1, <1>6
  <2>2. IfNDigits(s) \in IfDigs(s) /\ \A m \in IfDigs(s) : m <= IfNDigits(s)  BY <2>1 DEF IfNDigits
  <2>3. IfNDigits(s) \in 0..(Len(s) - p) /\ Len(s) - p <= IfNDigits(s)  BY <2>1, <2>2, <1>6
  <2>. QED  BY <2>3
<1>8. SubSeq(s, 1, Len(s)) = s
  OBVIOUS
<1>9. FindInterface(s) = SubSeq(s, IfFirst(s), IfEnd(s) + IfNDigits(s))
  BY <1>2, Zenon DEF FindInterface, IfStarts, IfFirst, IfLets, IfEnd, IfDigs, IfNDigits
<1>. QED  BY <1>3, <1>5, <1>7, <1>8, <1>9

-----------------------------------------------------------------------------
(* ValidNeverRejected is not inductive alone: netemDelay's interface       *)
(* check can be related to the spec's rule only for an iface that is a     *)
(* sequence of characters, which the inputs stay after Init.               *)
ValIInv == iface \in Seq(IfChars) /\ ValidNeverRejected

(* The handlers never change a flag, so the spec's verdict on them is the *)
(* same before and after every step.                                      *)
LEMMA SpecValidFrame ==
  ASSUME UNCHANGED inputs PROVE SpecValid' = SpecValid
BY DEF SpecValid, WellFormedIface, inputs

(* Each check of netemDelay that the spec also makes.                     *)
LEMMA NetemChecksOfValid ==
  ASSUME iface \in Seq(IfChars), kind = "netem", SpecValid
  PROVE  /\ duration.kind = "ok"
         /\ iface = FindInterface(iface)
         /\ amount > 0
         /\ 0 <= variation /\ variation <= amount
         /\ 0 <= correlation /\ correlation <= 100
<1>1. WellFormedIface(iface)  BY DEF SpecValid
<1>. QED  BY <1>1, WellFormedFound DEF SpecValid

LEMMA ValInit == ValidationInit => ValIInv
<1> SUFFICES ASSUME ValidationInit PROVE ValIInv  OBVIOUS
<1>1. iface \in Seq(IfChars)
  <2>1. CASE kind = "netem"
    <3>1. PICK m \in 0..IfMaxLen : iface \in [1..m -> IfChars]
      BY <2>1 DEF ValidationInit, BoundedSeq, SeqOf
    <3>. QED  BY <3>1, ValidationAssumption
  <2>2. CASE kind # "netem"
    BY <2>2 DEF ValidationInit
  <2>. QED  BY <2>1, <2>2
<1>. QED  BY <1>1 DEF ValidationInit, ValIInv, ValidNeverRejected

LEMMA ValStep == ValIInv /\ [ValidationNext]_valvars => ValIInv'
<1> SUFFICES ASSUME ValIInv, [ValidationNext]_valvars PROVE ValIInv'
  OBVIOUS
<1>0. UNCHANGED inputs
  BY DEF ValidationNext, BeforeCommand, KillHandler, NetemHandler,
         PauseHandler, RemoveOrStopHandler, StartTimer, Reject, valvars
<1>1. iface' \in Seq(IfChars)  BY <1>0 DEF ValIInv, inputs
<1>2. SpecValid' = SpecValid  BY <1>0, SpecValidFrame
<1>3. CASE BeforeCommand
  BY <1>1, <1>2, <1>3 DEF BeforeCommand, Reject, SpecValid, ValIInv, ValidNeverRejected
<1>4. CASE KillHandler
  BY <1>1, <1>2, <1>4 DEF KillHandler, Reject, SpecValid, ValIInv, ValidNeverRejected
<1>5. CASE NetemHandler
  <2>1. phase' = "rejected" => ~SpecValid
    BY <1>5, NetemChecksOfValid DEF NetemHandler, Reject, ValIInv
  <2>. QED  BY <1>1, <1>2, <2>1 DEF ValIInv, ValidNeverRejected
<1>6. CASE PauseHandler
  BY <1>1, <1>2, <1>6 DEF PauseHandler, Reject, SpecValid, ValIInv, ValidNeverRejected
<1>7. CASE RemoveOrStopHandler \/ StartTimer
  BY <1>1, <1>7 DEF RemoveOrStopHandler, StartTimer, ValIInv, ValidNeverRejected
<1>8. CASE UNCHANGED valvars
  BY <1>1, <1>2, <1>8 DEF valvars, ValIInv, ValidNeverRejected
<1>. QED  BY <1>3, <1>4, <1>5, <1>6, <1>7, <1>8 DEF ValidationNext

(* beforeCommand and the handlers refuse only what the spec calls invalid *)
(* (spec 4.3, 4.5, 6): in every run, for all durations, interfaces and    *)
(* integer flags, a rejected command is one SpecValid excludes.           *)
THEOREM NoValidRejected == ValidationSpec => []ValidNeverRejected
<1>1. ValidationInit => ValIInv  BY ValInit
<1>2. ValIInv /\ [ValidationNext]_valvars => ValIInv'  BY ValStep
<1>3. ValIInv => ValidNeverRejected  BY DEF ValIInv
<1>. QED  BY <1>1, <1>2, <1>3, PTL DEF ValidationSpec
=============================================================================
