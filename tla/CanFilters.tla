----------------------------- MODULE CanFilters -----------------------------
(***************************************************************************)
(* Acceptance filters of the CAN drivers. CanBusHico sets up to four masks  *)
(* or ranges of node identifiers, all anew at each change; CanBusPeak has   *)
(* one code and one mask for all identifiers. Boards open a driver and add  *)
(* the identifier of each node.                                             *)
(*                                                                         *)
(* External is the interface: which frames it lets pass, and that each of   *)
(* its calls may fail.                                                      *)
(***************************************************************************)
EXTENDS Integers, FiniteSets, FiniteSetsExt

CONSTANTS Ids,       \* node identifiers, some of 1..0x7F
          Bits,      \* the bits of an identifier
          Drivers,   \* kinds of filters: "disabled", "noRange", "maskAndRange" of Hico, "peak"
          MaxFilters \* MAX_FILTERS

\* Checked with FiltersTypeOK.
FiltersFit ==
  /\ Ids \subseteq 1..127 /\ Bits \subseteq 0..6 /\ MaxFilters \in Nat
  /\ Drivers \subseteq {"disabled", "noRange", "maskAndRange", "peak"}

VARIABLES
  driver,  \* filterConfig, and which driver it is
  opened,  \* "closed", "open", "failed"
  endless, \* a loop has begun that never ends
  stage,   \* stage of the filter manager, or activeFilters
  active,  \* currentlyActive
  valid,   \* valid
  hw,      \* what the interface compares with; everything passes when this is empty
  rate,    \* bitrateState
  ok       \* ghost: what the last call that changes filters returned

filters == <<stage, active, valid, hw, ok>>
filtersVars == <<driver, opened, endless, filters, rate>>

Managed == driver \in {"noRange", "maskAndRange"}

-----------------------------------------------------------------------------
(* CanBusHico::FilterManager *)

\* Runs of consecutive identifiers by their ends or, without ranges, single ones.
Sequences(ids) ==
  {s \in [lower : ids, upper : ids] :
     IF driver = "noRange" THEN s.lower = s.upper
     ELSE /\ s.lower <= s.upper /\ s.lower..s.upper \subseteq ids
          /\ s.lower - 1 \notin ids /\ s.upper + 1 \notin ids}
Isolated(s) == s.lower = s.upper
Span(s) == s.lower..s.upper

\* setRangedFilter. Mutation: the upper end is left out.
RangeWithoutEnd(s) == s.lower..(s.upper - 1)
setRangedFilter(s) == Span(s)

\* bulkUpdate after clearFilters, when the interface accepts only some of the filters.
\* The loop that sets masked filters compares the index of the outer one: it never ends
\* for the first sequence, running on behind its end, and sets none for those after it.
\* Too many filters, so that everything passes, are a success if the caller is content.
bulkUpdate(ids, taken, content) ==
  LET all == Sequences(ids)
      ranged == {s \in all : ~Isolated(s)}
      first == CHOOSE s \in all : s.lower = Min(ids)
  IN  IF Cardinality(all) > MaxFilters
      THEN /\ valid' = FALSE /\ hw' = {} /\ active' = {} /\ ok' = content
           /\ UNCHANGED endless
      ELSE /\ valid' = TRUE
           /\ hw' = {setRangedFilter(s) : s \in ranged \cap taken}
           /\ active' = UNION {Span(s) : s \in ranged \cap taken}
           /\ ok' = (ranged \subseteq taken)
           /\ endless' = (ids # {} /\ Isolated(first))

\* insertId, eraseId, parseIds: what is staged stays so when the interface refuses.
Restage(ids, content) ==
  /\ stage' = ids
  /\ \/ \E taken \in SUBSET Sequences(ids) : bulkUpdate(ids, taken, content)
     \/ ok' = FALSE /\ UNCHANGED <<active, valid, hw, endless>>

-----------------------------------------------------------------------------
(* CanBusPeak *)

BitsOf(id) == {b \in Bits : (id \div 2 ^ b) % 2 = 1}
Xor(a, b) == (a \ b) \cup (b \ a)
Function == {7}  \* the first bit of a COB-ID above those of the node

\* computeAcceptanceCodeAndMask: what consecutive identifiers differ in, bits that are
\* masked already left out of the one before.
Widened(mask, ids, id) ==
  IF id \notin ids \/ id = Min(ids) THEN mask
  ELSE mask \cup Xor(BitsOf(Max({i \in ids : i < id})) \ mask, BitsOf(id))
Masked(ids) ==
  LET mask[id \in 0..Max(ids)] == IF id = 0 THEN Function ELSE Widened(mask[id - 1], ids, id)
  IN  mask[Max(ids)]
Code(ids) == {b \in Bits : \A i \in ids : b \in BitsOf(i)}
CodeAndMask(ids) ==
  IF ids = {} THEN [code |-> {}, mask |-> Function] ELSE [code |-> Code(ids), mask |-> Masked(ids)]

setOption(ids) ==
  \/ stage' = ids /\ hw' = {CodeAndMask(ids)} /\ ok' = TRUE
  \/ ok' = FALSE /\ UNCHANGED <<stage, hw>>

-----------------------------------------------------------------------------
(* The calls *)

FiltersInit ==
  /\ driver \in Drivers /\ opened = "closed" /\ endless = FALSE
  /\ stage = {} /\ active = {} /\ valid = TRUE /\ hw = {} /\ ok = TRUE /\ rate = "unset"

Serving == opened = "open" /\ ~endless

\* Interface, bitrate and flags; identifiers of the configuration are the last but one
\* thing that can fail.
Open(ids) ==
  /\ opened = "closed" /\ rate = "unset"
  /\ rate' = "default"
  /\ \/ /\ ids # {} /\ Managed /\ Restage(ids, TRUE)
     \/ /\ ids # {} /\ driver = "peak" /\ setOption(ids) /\ UNCHANGED <<active, valid, endless>>
     \/ /\ ids = {} \/ driver = "disabled"
        /\ ok' = TRUE /\ UNCHANGED <<stage, active, valid, hw, endless>>
  /\ opened' \in IF ok' THEN {"open", "failed"} ELSE {"failed"}
  /\ UNCHANGED driver

FailToOpen ==
  /\ opened = "closed" /\ rate = "unset"
  /\ opened' = "failed" /\ rate' \in {"unset", "default"}
  /\ UNCHANGED <<driver, endless, filters>>

canIdAdd(id) ==
  /\ Serving /\ driver # "disabled"
  /\ IF Managed THEN id \notin active /\ Restage(stage \cup {id}, TRUE)
     ELSE id \notin stage /\ setOption(stage \cup {id}) /\ UNCHANGED <<active, valid, endless>>
  /\ UNCHANGED <<driver, opened, rate>>

\* Hico looks for what is active, Peak for what was asked; Hico tells that too many remain.
canIdDelete(id) ==
  /\ Serving /\ driver # "disabled"
  /\ IF Managed THEN id \in active /\ Restage(stage \ {id}, FALSE)
     ELSE id \in stage /\ setOption(stage \ {id}) /\ UNCHANGED <<active, valid, endless>>
  /\ UNCHANGED <<driver, opened, rate>>

\* canIdDelete(0): too many filters stay too many until the next change.
clearFilters ==
  /\ Serving /\ driver # "disabled"
  /\ \/ stage' = {} /\ active' = {} /\ hw' = {} /\ ok' = TRUE
     \/ ok' = FALSE /\ UNCHANGED <<stage, active, hw>>
  /\ UNCHANGED <<driver, opened, endless, valid, rate>>

\* Hico accepts one bitrate, Peak any.
canSetBaudRate(r) ==
  /\ Serving /\ rate' \in (IF driver = "peak" THEN {rate, r} ELSE {rate})
  /\ UNCHANGED <<driver, opened, endless, filters>>

\* close, after a failed open too.
Close ==
  /\ opened \in {"open", "failed"} /\ ~endless
  /\ opened' = "closed"
  /\ \/ stage' = {} /\ active' = {} /\ hw' = {}
     \/ UNCHANGED <<stage, active, hw>>
  /\ UNCHANGED <<driver, endless, valid, ok, rate>>

\* What has begun without end goes on, and what is closed stays so.
Rest == (endless \/ (opened = "closed" /\ rate # "unset")) /\ UNCHANGED filtersVars

FiltersNext ==
  \/ \E ids \in SUBSET Ids : Open(ids)
  \/ FailToOpen \/ Close \/ clearFilters \/ Rest
  \/ \E id \in Ids : canIdAdd(id) \/ canIdDelete(id)
  \/ \E r \in {"default", "other"} : canSetBaudRate(r)

FiltersSpec == FiltersInit /\ [][FiltersNext]_filtersVars

-----------------------------------------------------------------------------
(* Properties *)

FiltersTypeOK ==
  /\ FiltersFit /\ driver \in Drivers
  /\ opened \in {"closed", "open", "failed"} /\ endless \in BOOLEAN
  /\ stage \subseteq Ids /\ active \subseteq Ids /\ valid \in BOOLEAN /\ ok \in BOOLEAN
  /\ rate \in {"unset", "default", "other"}

\* A frame of a node, of function 0 or another: what remains without the mask is the code.
PassesMask(f, id) == \A function \in SUBSET Function : (BitsOf(id) \cup function) \ f.mask = f.code
Passes(id) == hw = {} \/ IF driver = "peak" THEN \E f \in hw : PassesMask(f, id)
                         ELSE \E f \in hw : id \in f

\* A call that returned true has made the interface listen to every node it was told of.
SuccessMeansHeard == opened = "open" /\ ok /\ ~endless => \A id \in stage : Passes(id)

\* So it is as long as there is no identifier alone among those of Hico; and what it
\* believes to be active always passes.
NeighboursAreHeard ==
  opened = "open" => /\ driver = "peak" \/ (\A s \in Sequences(stage) : ~Isolated(s)) => SuccessMeansHeard
                     /\ Managed => \A id \in active : Passes(id)
=============================================================================
