------------------------------ MODULE Selector ------------------------------
(***************************************************************************)
(* The target selector of a chaos command: getNamesOrPattern (main.go)     *)
(* turns the command's arguments into a list of names or an re2 pattern,   *)
(* and the target resolver of the action package (not in the sources,     *)
(* modelled from spec 4.2) turns those into the containers of a tick.      *)
(*                                                                         *)
(* Arguments and container names are strings, that is sequences of         *)
(* characters over a small alphabet, because strings.Trim is about         *)
(* characters.  The alphabet has no regexp metacharacter, so a pattern     *)
(* matches a name exactly when it occurs in it (MatchString is unanchored).*)
(***************************************************************************)
EXTENDS Naturals, Sequences, SequencesExt

CONSTANTS
  Alphabet,   \* the characters arguments are made of
  MaxLen,     \* bound on the length of a single argument
  CtrNames    \* names of the running containers (sequences of characters)

(* The constant Re2Prefix of main.go.                                      *)
Re2Prefix == <<"r", "e", "2", ":">>

(* Argument lists the command line can give: none, one string, or two      *)
(* container names.                                                        *)
Words == BoundedSeq(Alphabet, MaxLen)
ArgLists == {<<>>} \cup {<<w>> : w \in Words} \cup {<<n, m>> : n, m \in CtrNames}

(* strings.Trim(s, cutset): drop the leading, then the trailing characters *)
(* that are in cutset.                                                     *)
RECURSIVE TrimLeft(_, _), TrimRight(_, _)
TrimLeft(s, cut) == IF s # <<>> /\ Head(s) \in cut THEN TrimLeft(Tail(s), cut) ELSE s
TrimRight(s, cut) == IF s # <<>> /\ Last(s) \in cut THEN TrimRight(Front(s), cut) ELSE s
Trim(s, cut) == TrimRight(TrimLeft(s, cut), cut)

(* regexp.MatchString of a literal pattern: it occurs somewhere in name.   *)
Matches(p, name) ==
  \E i \in 1..(Len(name) - Len(p) + 1) : SubSeq(name, i, i + Len(p) - 1) = p

VARIABLES
  args,     \* c.Args()
  names,    \* the names getNamesOrPattern returns
  pattern,  \* the pattern it returns
  targets,  \* the containers the resolver returns
  step      \* "parse", "resolve" or "done"

svars == <<args, names, pattern, targets, step>>

SelectorTypeOK ==
  /\ args \in ArgLists
  /\ names \in Seq(Seq(Alphabet))
  /\ pattern \in Seq(Alphabet)
  /\ targets \subseteq CtrNames
  /\ step \in {"parse", "resolve", "done"}

SelectorInit ==
  /\ args \in ArgLists
  /\ names = <<>> /\ pattern = <<>> /\ targets = {}
  /\ step = "parse"

(* getNamesOrPattern: two or more arguments are names; a single one is a    *)
(* pattern if it has the re2: prefix, with strings.Trim as the strip, and   *)
(* is otherwise dropped; no argument gives neither.                         *)
GetNamesOrPattern ==
  /\ step = "parse"
  /\ names' = IF Len(args) > 1 THEN args ELSE <<>>
  /\ pattern' = IF Len(args) = 1 /\ IsPrefix(Re2Prefix, args[1])
                  THEN Trim(args[1], ToSet(Re2Prefix)) ELSE <<>>
  /\ step' = "resolve"
  /\ UNCHANGED <<args, targets>>

(* The resolver (spec 4.2): names first, then the pattern, else all.        *)
Resolve ==
  /\ step = "resolve"
  /\ targets' = CASE names # <<>>   -> {c \in CtrNames : c \in ToSet(names)}
                  [] pattern # <<>> -> {c \in CtrNames : Matches(pattern, c)}
                  [] OTHER          -> CtrNames
  /\ step' = "done"
  /\ UNCHANGED <<args, names, pattern>>

SelectorNext == GetNamesOrPattern \/ Resolve

SelectorSpec == SelectorInit /\ [][SelectorNext]_svars
-----------------------------------------------------------------------------
(* The containers spec 6 and 4.2 select for an argument list: two or more  *)
(* arguments are names; one argument is a regex with the re2: prefix       *)
(* stripped, or else a single name; no argument selects all.              *)
SpecTargets ==
  CASE Len(args) > 1 -> {c \in CtrNames : c \in ToSet(args)}
    [] Len(args) = 1 /\ IsPrefix(Re2Prefix, args[1]) ->
         {c \in CtrNames : Matches(SubSeq(args[1], Len(Re2Prefix) + 1, Len(args[1])), c)}
    [] Len(args) = 1 -> {c \in CtrNames : c = args[1]}
    [] OTHER -> CtrNames

(* Spec 6: the containers a chaos command acts on are the ones its         *)
(* arguments name or match, as getNamesOrPattern and the resolver compute  *)
(* them from c.Args().                                                     *)
TargetsAsSpecified == step = "done" => targets = SpecTargets
=============================================================================
