--------------------------- MODULE CanopenProofs ---------------------------
(***************************************************************************)
(* Proofs about PdoProtocol and SdoClient.                                 *)
(*                                                                         *)
(* PdoProtocol, for any configurations and any number of objects: however  *)
(* often configure is begun and wherever it fails, a PDO that is valid has *)
(* a whole mapping, and one that was configured has all of its             *)
(* configuration. The downloads are numbered by their place in the         *)
(* sequence; which of them are done says how far the drive has come, and   *)
(* that the PDO is off meanwhile.                                          *)
(***************************************************************************)
EXTENDS PdoProtocol, SdoClient, SequenceTheorems, TLAPS

CobIds == {"cobId"} \X [valid : BOOLEAN, rtr : BOOLEAN]
ParameterValues == (Parameters \X {"new"}) \cup {<<"illegal", 0>>}
MappingValues == ({"count"} \X Nat) \cup ({"slot"} \X (Nat \X STRING))
DownloadValues == CobIds \cup ParameterValues \cup MappingValues

\* How many parameters are given a value, how many objects are mapped, how many
\* downloads the mapping takes, and all of them.
Given == Len(ParameterDownloads(conf))
Number == Len(conf.mappings)
MappingLength == IF conf.mappings = <<>> THEN 0 ELSE Number + 2
Total == 1 + Given + MappingLength + (IF conf.valid = "no" THEN 0 ELSE 1)

\* What configure makes of bit 30, and a configuration that its type of PDO has no room for.
WantedRtr == IF conf.rtr = "unset" THEN before.rtr ELSE conf.rtr = "yes"
Inapplicable == conf.type = "RPDO" /\ (conf.rtr # "unset" \/ "syncStartValue" \in conf.set)

\* What the k-th download is.
IsDownload(d, k) ==
  /\ k = 1 => d = <<"cobId", [valid |-> FALSE, rtr |-> WantedRtr]>>
  /\ \A i \in 1..Given : k = 1 + i => d = ParameterDownloads(conf)[i]
  /\ conf.mappings # <<>> =>
       /\ k = Given + 2 => d = <<"count", 0>>
       /\ \A i \in 1..Number : k = Given + 2 + i => d = <<"slot", <<i, conf.mappings[i]>>>>
       /\ k = Given + Number + 3 => d = <<"count", Number>>
  /\ k > 1 + Given + MappingLength => d = <<"cobId", [valid |-> TRUE, rtr |-> WantedRtr]>>

\* The place of the download whose turn it is.
Turn == Total - Len(todo) + 1

Slots == [1..MaxSlots -> STRING \cup {"old"}]
Typed ==
  /\ conf \in Configurations /\ phase \in {"idle", "upload", "download"} /\ todo \in Seq(DownloadValues)
  /\ outcome \in {"none", "yes", "no"} /\ before.slots \in Slots /\ before.count \in 0..MaxSlots
  /\ before.rtr \in BOOLEAN

\* The parameters of the drive.
Device ==
  /\ device = [valid |-> device.valid, rtr |-> device.rtr, params |-> device.params,
               count |-> device.count, slots |-> device.slots]
  /\ device.valid \in BOOLEAN /\ device.rtr \in BOOLEAN /\ device.slots \in Slots /\ device.count \in 0..MaxSlots
  /\ device.params \in [Parameters -> {"old", "new"}]

\* What remains of the sequence.
Remaining ==
  /\ phase = "download" => /\ todo # <<>> /\ Len(todo) <= Total /\ (conf.rtr = "unset" \/ conf.type = "TPDO")
                        /\ \A i \in 1..Len(todo) : IsDownload(todo[i], Turn + i - 1)
  /\ phase # "download" => todo = <<>>

\* What was done to a drive d when it is the turn of the k-th.
Done(d, k) ==
  k > 1 =>
    /\ d.valid = (k > Total /\ conf.valid # "no")
    /\ d.rtr = WantedRtr
    /\ \A i \in 1..Given : k > 1 + i => d.params[ParameterDownloads(conf)[i][1]] = "new"
    /\ Inapplicable => k <= 1 + Given
    /\ conf.mappings # <<>> =>
         /\ \A i \in 1..Number : k > Given + 2 + i => d.slots[i] = conf.mappings[i]
         /\ k > Given + Number + 3 => d.count = Number

IsMapped(mapping) == device.count = Len(mapping) /\ \A i \in 1..Len(mapping) : device.slots[i] = mapping[i]
Untouched == device.count = before.count /\ device.slots = before.slots

\* A mapping that is not configured stays; a valid PDO has the old one or the new.
Whole ==
  /\ conf.mappings = <<>> => Untouched
  /\ device.valid => Untouched \/ IsMapped(conf.mappings)

\* What no attempt changes, whether it fails or not.
Kept ==
  /\ conf.rtr = "unset" => device.rtr = before.rtr
  /\ \A p \in Parameters \ conf.set : device.params[p] = "old"
  /\ Inapplicable => (device.valid => before.valid)

\* How far the drive is, and that all was done when configure says so.
Progress ==
  /\ phase = "download" => Done(device, Turn)
  /\ outcome = "yes" => phase = "idle" /\ Done(device, Total + 1)

IInv == Typed /\ Device /\ Remaining /\ Whole /\ Kept /\ Progress

-----------------------------------------------------------------------------
\* The invariant holds of a PDO that was never configured.
LEMMA InitIInv == ASSUME ConstantsFit PROVE PdoInit => IInv
<1> SUFFICES ASSUME PdoInit PROVE IInv
  OBVIOUS
<1>1. /\ conf \in Configurations /\ before = device /\ phase = "idle" /\ todo = <<>> /\ outcome = "none"
      /\ MaxSlots \in Nat \ {0, 1} /\ device \in Devices
  BY DEF ConstantsFit, PdoInit
<1>2. Device /\ device.slots \in Slots /\ device.count \in 0..MaxSlots
  <2>1. PICK v \in BOOLEAN, r \in BOOLEAN, a \in [Parameters -> {"old"}] :
          device = [valid |-> v, rtr |-> r, params |-> a, count |-> 2, slots |-> [i \in 1..MaxSlots |-> "old"]]
    BY <1>1 DEF Devices
  <2>2. [i \in 1..MaxSlots |-> "old"] \in Slots
    BY DEF Slots
  <2>3. a \in [Parameters -> {"old", "new"}]
    OBVIOUS
  <2>4. 2 \in 0..MaxSlots
    BY <1>1
  <2> QED BY <2>1, <2>2, <2>3, <2>4 DEF Device
<1>3. todo \in Seq(DownloadValues)
  BY <1>1
<1>4. Typed /\ Remaining /\ Whole /\ Progress
  BY <1>1, <1>2, <1>3 DEF Typed, Remaining, Whole, Untouched, Progress, Device
<1>5. Kept
  <2>1. \A p \in Parameters : device.params[p] = "old"
    BY <1>1 DEF Devices
  <2> QED BY <1>1, <2>1 DEF Kept
<1> QED BY <1>1, <1>2, <1>4, <1>5 DEF IInv

\* What is where in a concatenation.
LEMMA Concatenated ==
  ASSUME NEW S, NEW s \in Seq(S), NEW t \in Seq(S)
  PROVE  /\ s \o t \in Seq(S) /\ Len(s \o t) = Len(s) + Len(t)
         /\ \A i \in 1..Len(s) : (s \o t)[i] = s[i]
         /\ \A i \in 1..Len(t) : (s \o t)[Len(s) + i] = t[i]
<1>1. /\ s \o t \in Seq(S) /\ Len(s \o t) = Len(s) + Len(t) /\ Len(s) \in Nat /\ Len(t) \in Nat
      /\ \A i \in 1..(Len(s) + Len(t)) : (s \o t)[i] = IF i <= Len(s) THEN s[i] ELSE t[i - Len(s)]
  BY ConcatProperties, LenProperties
<1>2. ASSUME NEW i \in 1..Len(t) PROVE (s \o t)[Len(s) + i] = t[i]
  <2>1. Len(s) + i \in 1..(Len(s) + Len(t)) /\ ~(Len(s) + i <= Len(s)) /\ Len(s) + i - Len(s) = i
    BY <1>1
  <2> QED BY <1>1, <2>1
<1>3. ASSUME NEW i \in 1..Len(s) PROVE (s \o t)[i] = s[i]
  <2>1. i \in 1..(Len(s) + Len(t)) /\ i <= Len(s)
    BY <1>1
  <2> QED BY <1>1, <2>1
<1> QED BY <1>1, <1>2, <1>3

\* The download of one parameter, and the downloads of some of them.
Item(c, p) == IF p = "syncStartValue" /\ c.type = "RPDO" THEN <<"illegal", 0>> ELSE <<p, "new">>
Covers(s, Q, c) ==
  /\ \A q \in Q \cap c.set : \E i \in 1..Len(s) : s[i] = Item(c, q)
  /\ \A i \in 1..Len(s) : \E q \in Q \cap c.set : s[i] = Item(c, q)

\* One parameter is one download, or none.
LEMMA OneParameter ==
  ASSUME NEW c, NEW p \in Parameters
  PROVE  /\ ParameterDownload(c, p) \in Seq(ParameterValues) /\ Covers(ParameterDownload(c, p), {p}, c)
         /\ p \in c.set => Len(ParameterDownload(c, p)) = 1 /\ ParameterDownload(c, p)[1] = Item(c, p)
<1>1. Item(c, p) \in ParameterValues
  BY DEF Item, ParameterValues
<1>2. CASE p \in c.set
  <2>1. ParameterDownload(c, p) = <<Item(c, p)>>
    BY <1>2 DEF ParameterDownload, Item
  <2>2. PICK x \in ParameterValues : x = Item(c, p)
    BY <1>1
  <2>3. <<x>> \in Seq(ParameterValues) /\ Len(<<x>>) = 1 /\ <<x>>[1] = x
    OBVIOUS
  <2>4. ParameterDownload(c, p) = <<x>>
    BY <2>1, <2>2
  <2> QED BY <1>2, <2>2, <2>3, <2>4 DEF Covers
<1>3. CASE p \notin c.set
  <2>1. ParameterDownload(c, p) = <<>>
    BY <1>3 DEF ParameterDownload
  <2>2. <<>> \in Seq(ParameterValues) /\ 1..Len(<<>>) = {}
    OBVIOUS
  <2> QED BY <1>3, <2>1, <2>2 DEF Covers
<1> QED BY <1>2, <1>3

\* One parameter more.
LEMMA OneMore ==
  ASSUME NEW c, NEW p \in Parameters, NEW Q, NEW s \in Seq(ParameterValues), Covers(s, Q, c)
  PROVE  /\ s \o ParameterDownload(c, p) \in Seq(ParameterValues)
         /\ Covers(s \o ParameterDownload(c, p), Q \cup {p}, c)
<1> DEFINE u == ParameterDownload(c, p)
           all == s \o u
<1>1. u \in Seq(ParameterValues) /\ Covers(u, {p}, c)
  BY OneParameter
<1> HIDE DEF u
<1>2. /\ all \in Seq(ParameterValues) /\ Len(all) = Len(s) + Len(u) /\ Len(s) \in Nat /\ Len(u) \in Nat
      /\ \A i \in 1..Len(s) : all[i] = s[i]
      /\ \A i \in 1..Len(u) : all[Len(s) + i] = u[i]
  BY <1>1, Concatenated, LenProperties
<1> HIDE DEF all
<1>3. ASSUME NEW q \in (Q \cup {p}) \cap c.set PROVE \E i \in 1..Len(all) : all[i] = Item(c, q)
  <2>1. CASE q = p
    <3>1. PICK i \in 1..Len(u) : u[i] = Item(c, q)
      BY <1>1, <2>1, <1>3 DEF Covers
    <3>2. Len(s) + i \in 1..Len(all)
      BY <1>2
    <3> QED BY <1>2, <3>1, <3>2
  <2>2. CASE q # p
    <3>1. PICK i \in 1..Len(s) : s[i] = Item(c, q)
      BY <2>2, <1>3 DEF Covers
    <3>2. i \in 1..Len(all)
      BY <1>2
    <3> QED BY <1>2, <3>1, <3>2
  <2> QED BY <2>1, <2>2
<1>4. ASSUME NEW i \in 1..Len(all) PROVE \E q \in (Q \cup {p}) \cap c.set : all[i] = Item(c, q)
  <2>1. CASE i \in 1..Len(s)
    BY <1>2, <2>1 DEF Covers
  <2>2. CASE i \notin 1..Len(s)
    <3>1. i - Len(s) \in 1..Len(u) /\ Len(s) + (i - Len(s)) = i
      BY <1>2, <2>2
    <3>2. all[i] = u[i - Len(s)]
      BY <1>2, <3>1
    <3>3. \E q \in {p} \cap c.set : u[i - Len(s)] = Item(c, q)
      BY <1>1, <3>1 DEF Covers
    <3> QED BY <3>2, <3>3
  <2> QED BY <2>1, <2>2
<1> QED BY <1>2, <1>3, <1>4 DEF Covers, all, u

\* The downloads are those of the parameters that are set; the SYNC start value is the last.
LEMMA ParametersCovered ==
  ASSUME NEW c, c.set \subseteq Parameters
  PROVE  /\ ParameterDownloads(c) \in Seq(ParameterValues) /\ Covers(ParameterDownloads(c), Parameters, c)
         /\ "syncStartValue" \in c.set =>
              /\ Len(ParameterDownloads(c)) \in Nat \ {0}
              /\ ParameterDownloads(c)[Len(ParameterDownloads(c))] = Item(c, "syncStartValue")
<1>1. {"transmissionType", "inhibitTime", "eventTimer", "syncStartValue"} \subseteq Parameters
  BY DEF Parameters
<1> DEFINE first == ParameterDownload(c, "transmissionType")
           one == first \o ParameterDownload(c, "inhibitTime")
           two == one \o ParameterDownload(c, "eventTimer")
           last == ParameterDownload(c, "syncStartValue")
<1>2. first \in Seq(ParameterValues) /\ Covers(first, {"transmissionType"}, c)
  BY <1>1, OneParameter
<1> HIDE DEF first
<1>3. one \in Seq(ParameterValues) /\ Covers(one, {"transmissionType"} \cup {"inhibitTime"}, c)
  BY <1>1, <1>2, OneMore
<1> HIDE DEF one
<1>4. two \in Seq(ParameterValues) /\ Covers(two, ({"transmissionType"} \cup {"inhibitTime"}) \cup {"eventTimer"}, c)
  BY <1>1, <1>3, OneMore
<1> HIDE DEF two
<1> DEFINE all == two \o last
           Q == (({"transmissionType"} \cup {"inhibitTime"}) \cup {"eventTimer"}) \cup {"syncStartValue"}
<1>5. all \in Seq(ParameterValues) /\ Covers(all, Q, c)
  BY <1>1, <1>4, OneMore
<1>6. Q = Parameters
  BY DEF Parameters
<1>7. ASSUME "syncStartValue" \in c.set PROVE Len(all) \in Nat \ {0} /\ all[Len(all)] = Item(c, "syncStartValue")
  <2>1. last \in Seq(ParameterValues) /\ Len(last) = 1 /\ last[1] = Item(c, "syncStartValue")
    BY <1>1, <1>7, OneParameter
  <2> HIDE DEF last
  <2>2. two \in Seq(ParameterValues) /\ Len(two) \in Nat
    BY <1>4, LenProperties
  <2>3. /\ Len(all) = Len(two) + Len(last)
        /\ \A i \in 1..Len(last) : all[Len(two) + i] = last[i]
    <3>1. two \in Seq(ParameterValues) /\ last \in Seq(ParameterValues)
      BY <2>1, <2>2
    <3> HIDE DEF Q
    <3> QED BY <3>1, Concatenated
  <2> HIDE DEF all
  <2> QED BY <2>1, <2>2, <2>3
<1>8. ParameterDownloads(c) = all
  BY DEF ParameterDownloads, first, one, two
<1> QED BY <1>5, <1>6, <1>7, <1>8

\* A download of a parameter that is set, or one that will not be made.
IsGiven(d) == d \in ParameterValues /\ (d[1] # "illegal" => d[1] \in conf.set)

\* What the i-th of them is, and that each parameter that is set is one of them.
LEMMA ParameterValue ==
  ASSUME ConstantsFit, Typed, conf.rtr = "unset" \/ conf.type = "TPDO"
  PROVE  /\ \A i \in 1..Given : IsGiven(ParameterDownloads(conf)[i])
         /\ ~Inapplicable => \A p \in conf.set : \E i \in 1..Given : ParameterDownloads(conf)[i] = <<p, "new">>
         /\ Inapplicable => Given \in Nat \ {0} /\ ParameterDownloads(conf)[Given][1] = "illegal"
<1>1. conf.set \subseteq Parameters
  BY DEF ConstantsFit, Typed, IsConfiguration
<1> DEFINE s == ParameterDownloads(conf)
<1>2. /\ s \in Seq(ParameterValues) /\ Covers(s, Parameters, conf)
      /\ "syncStartValue" \in conf.set => Len(s) \in Nat \ {0} /\ s[Len(s)] = Item(conf, "syncStartValue")
  BY <1>1, ParametersCovered
<1> HIDE DEF s
<1>3. Given = Len(s) /\ \A i \in 1..Given : s[i] \in ParameterValues
  <2>1. Given = Len(s)
    BY DEF Given, s
  <2> QED BY <1>2, <2>1, ElementOfSeq
<1>4. ASSUME NEW i \in 1..Given, s[i][1] # "illegal" PROVE s[i][1] \in conf.set
  <2>1. PICK q \in Parameters \cap conf.set : s[i] = Item(conf, q)
    BY <1>2, <1>3 DEF Covers
  <2> QED BY <1>4, <2>1 DEF Item
<1>5. ASSUME ~Inapplicable, NEW p \in conf.set PROVE \E i \in 1..Given : s[i] = <<p, "new">>
  <2>1. Item(conf, p) = <<p, "new">>
    BY <1>5 DEF Item, Inapplicable
  <2> QED BY <1>1, <1>2, <1>3, <2>1 DEF Covers
<1>6. ASSUME Inapplicable PROVE Given \in Nat \ {0} /\ s[Given][1] = "illegal"
  <2>1. "syncStartValue" \in conf.set /\ conf.type = "RPDO"
    BY <1>6 DEF Inapplicable
  <2>2. Item(conf, "syncStartValue") = <<"illegal", 0>>
    BY <2>1 DEF Item
  <2> QED BY <1>2, <1>3, <2>1, <2>2
<1>7. \A i \in 1..Given : IsGiven(s[i])
  BY <1>3, <1>4 DEF IsGiven
<1> QED BY <1>3, <1>5, <1>6, <1>7 DEF s

\* So is the mapping.
LEMMA MappingFits ==
  ASSUME NEW c, c.mappings \in Seq(STRING), c.mappings # <<>>
  PROVE  LET m == MappingDownloads(c)
             n == Len(c.mappings)
         IN  /\ m \in Seq(MappingValues) /\ Len(m) = n + 2 /\ n \in Nat
             /\ m[1] = <<"count", 0>> /\ m[n + 2] = <<"count", n>>
             /\ \A i \in 1..n : m[i + 1] = <<"slot", <<i, c.mappings[i]>>>>
<1> DEFINE n == Len(c.mappings)
           first == <<<<"count", 0>>>>
           filled == [i \in 1..n |-> <<"slot", <<i, c.mappings[i]>>>>]
           last == <<<<"count", n>>>>
<1>1. n \in Nat /\ \A i \in 1..n : c.mappings[i] \in STRING
  BY LenProperties
<1>2. first \in Seq(MappingValues) /\ Len(first) = 1 /\ first[1] = <<"count", 0>>
  BY DEF MappingValues
<1>3. last \in Seq(MappingValues) /\ Len(last) = 1 /\ last[1] = <<"count", n>>
  BY <1>1 DEF MappingValues
<1>4. filled \in Seq(MappingValues) /\ Len(filled) = n /\ \A i \in 1..n : filled[i] = <<"slot", <<i, c.mappings[i]>>>>
  BY <1>1 DEF MappingValues
<1>5. MappingDownloads(c) = (first \o filled) \o last
  BY DEF MappingDownloads
<1> HIDE DEF n, first, filled, last
<1> DEFINE front == first \o filled
<1>6. /\ front \in Seq(MappingValues) /\ Len(front) = n + 1 /\ front[1] = first[1]
      /\ \A i \in 1..n : front[i + 1] = filled[i]
  <2>1. first \in Seq(MappingValues) /\ filled \in Seq(MappingValues)
    BY <1>2, <1>4
  <2>2. /\ front \in Seq(MappingValues) /\ Len(front) = Len(first) + Len(filled)
        /\ \A i \in 1..Len(first) : front[i] = first[i]
        /\ \A i \in 1..Len(filled) : front[Len(first) + i] = filled[i]
    BY <2>1, Concatenated
  <2> HIDE DEF front
  <2> QED BY <1>1, <1>2, <1>4, <2>2
<1> HIDE DEF front
<1> DEFINE all == front \o last
<1>7. /\ all \in Seq(MappingValues) /\ Len(all) = n + 2 /\ all[n + 2] = last[1]
      /\ \A i \in 1..(n + 1) : all[i] = front[i]
  <2>1. front \in Seq(MappingValues) /\ last \in Seq(MappingValues)
    BY <1>3, <1>6
  <2>2. /\ all \in Seq(MappingValues) /\ Len(all) = Len(front) + Len(last)
        /\ \A i \in 1..Len(front) : all[i] = front[i]
        /\ \A i \in 1..Len(last) : all[Len(front) + i] = last[i]
    BY <2>1, Concatenated
  <2> HIDE DEF all
  <2>3. n + 1 + 1 = n + 2
    BY <1>1
  <2> QED BY <1>1, <1>3, <1>6, <2>2, <2>3
<1> HIDE DEF all
<1>8. /\ all[1] = <<"count", 0>> /\ all[n + 2] = <<"count", n>>
      /\ \A i \in 1..n : all[i + 1] = <<"slot", <<i, c.mappings[i]>>>>
  <2>1. 1 \in 1..(n + 1) /\ \A i \in 1..n : i + 1 \in 1..(n + 1)
    BY <1>1
  <2>2. all[1] = first[1] /\ all[n + 2] = last[1]
    BY <1>6, <1>7, <2>1
  <2>3. \A i \in 1..n : all[i + 1] = filled[i]
    BY <1>6, <1>7, <2>1
  <2> QED BY <1>2, <1>3, <1>4, <2>2, <2>3
<1> QED BY <1>1, <1>5, <1>7, <1>8 DEF n, front, all

\* All of it, in order.
LEMMA DownloadsFit ==
  ASSUME ConstantsFit, Typed, Device, Kept
  PROVE  LET all == Downloads(conf, device)
         IN  /\ all \in Seq(DownloadValues) /\ Len(all) = Total /\ Total \in Nat \ {0}
             /\ \A k \in 1..Total : IsDownload(all[k], k)
<1> DEFINE off == <<CobId(FALSE, conf, device)>>
           params == ParameterDownloads(conf)
           mapping == MappingDownloads(conf)
           on == IF conf.valid = "no" THEN <<>> ELSE <<CobId(TRUE, conf, device)>>
<1>1. conf.set \subseteq Parameters /\ conf.mappings \in Seq(STRING)
  BY DEF ConstantsFit, Typed, IsConfiguration
<1>2. \A v \in BOOLEAN : /\ CobId(v, conf, device) \in CobIds
                         /\ CobId(v, conf, device) = <<"cobId", [valid |-> v, rtr |-> WantedRtr]>>
  <2>1. RtrBit(conf, device) = WantedRtr /\ WantedRtr \in BOOLEAN
    BY DEF RtrBit, WantedRtr, Kept, Typed
  <2> QED BY <2>1 DEF CobId, CobIds
<1>3. off \in Seq(DownloadValues) /\ Len(off) = 1 /\ off[1] = <<"cobId", [valid |-> FALSE, rtr |-> WantedRtr]>>
  <2> DEFINE o == CobId(FALSE, conf, device)
  <2>1. o \in DownloadValues /\ o = <<"cobId", [valid |-> FALSE, rtr |-> WantedRtr]>>
    BY <1>2 DEF DownloadValues
  <2> HIDE DEF o
  <2>2. <<o>> \in Seq(DownloadValues) /\ Len(<<o>>) = 1 /\ <<o>>[1] = o
    <3>1. PICK x \in DownloadValues : x = o
      BY <2>1
    <3>2. <<x>> \in Seq(DownloadValues) /\ Len(<<x>>) = 1 /\ <<x>>[1] = x
      OBVIOUS
    <3> QED BY <3>1, <3>2
  <2> QED BY <2>1, <2>2 DEF o
<1>4. /\ on \in Seq(DownloadValues) /\ Len(on) = (IF conf.valid = "no" THEN 0 ELSE 1)
      /\ \A i \in 1..Len(on) : on[i] = <<"cobId", [valid |-> TRUE, rtr |-> WantedRtr]>>
  <2> DEFINE o == CobId(TRUE, conf, device)
  <2>1. o \in DownloadValues /\ o = <<"cobId", [valid |-> TRUE, rtr |-> WantedRtr]>>
    BY <1>2 DEF DownloadValues
  <2> HIDE DEF o
  <2>2. <<o>> \in Seq(DownloadValues) /\ Len(<<o>>) = 1 /\ \A i \in 1..Len(<<o>>) : <<o>>[i] = o
    <3>1. PICK x \in DownloadValues : x = o
      BY <2>1
    <3>2. <<x>> \in Seq(DownloadValues) /\ Len(<<x>>) = 1 /\ \A i \in 1..Len(<<x>>) : <<x>>[i] = x
      OBVIOUS
    <3> QED BY <3>1, <3>2
  <2>3. <<>> \in Seq(DownloadValues) /\ Len(<<>>) = 0
    OBVIOUS
  <2> QED
    <3>1. CASE conf.valid = "no"
      BY <2>3, <3>1
    <3>2. CASE conf.valid # "no"
      BY <2>1, <2>2, <3>2 DEF o
    <3> QED BY <3>1, <3>2
<1>5. params \in Seq(DownloadValues) /\ Len(params) = Given /\ Given \in Nat
  <2>1. params \in Seq(ParameterValues)
    BY <1>1, ParametersCovered
  <2>2. Seq(ParameterValues) \subseteq Seq(DownloadValues)
    BY DEF DownloadValues
  <2> QED BY <2>1, <2>2, LenProperties DEF Given
<1>6. /\ mapping \in Seq(DownloadValues) /\ Len(mapping) = MappingLength /\ MappingLength \in Nat
      /\ conf.mappings # <<>> =>
           /\ MappingLength = Number + 2 /\ Number \in Nat
           /\ mapping[1] = <<"count", 0>> /\ mapping[Number + 2] = <<"count", Number>>
           /\ \A i \in 1..Number : mapping[i + 1] = <<"slot", <<i, conf.mappings[i]>>>>
  <2>1. CASE conf.mappings = <<>>
    BY <2>1 DEF MappingDownloads, MappingLength
  <2>2. CASE conf.mappings # <<>>
    <3>1. Seq(MappingValues) \subseteq Seq(DownloadValues)
      BY DEF DownloadValues
    <3> QED BY <1>1, <2>2, <3>1, MappingFits DEF MappingLength, Number
  <2> QED BY <2>1, <2>2
<1>7. Downloads(conf, device) = ((off \o params) \o mapping) \o on
  BY DEF Downloads
<1> HIDE DEF off, params, mapping, on
<1> DEFINE begin == off \o params
<1>8. /\ begin \in Seq(DownloadValues) /\ Len(begin) = 1 + Given /\ begin[1] = off[1]
      /\ \A i \in 1..Given : begin[1 + i] = params[i]
  <2>1. off \in Seq(DownloadValues) /\ params \in Seq(DownloadValues)
    BY <1>3, <1>5
  <2>2. /\ begin \in Seq(DownloadValues) /\ Len(begin) = Len(off) + Len(params)
        /\ \A i \in 1..Len(off) : begin[i] = off[i]
        /\ \A i \in 1..Len(params) : begin[Len(off) + i] = params[i]
    BY <2>1, Concatenated
  <2> HIDE DEF begin
  <2>3. Len(off) = 1 /\ Len(params) = Given /\ Given \in Nat
    BY <1>3, <1>5
  <2> QED BY <2>2, <2>3
<1> HIDE DEF begin
<1> DEFINE most == begin \o mapping
<1>9. /\ most \in Seq(DownloadValues) /\ Len(most) = 1 + Given + MappingLength
      /\ \A i \in 1..(1 + Given) : most[i] = begin[i]
      /\ \A i \in 1..MappingLength : most[1 + Given + i] = mapping[i]
  <2>1. begin \in Seq(DownloadValues) /\ mapping \in Seq(DownloadValues)
    BY <1>6, <1>8
  <2>2. /\ most \in Seq(DownloadValues) /\ Len(most) = Len(begin) + Len(mapping)
        /\ \A i \in 1..Len(begin) : most[i] = begin[i]
        /\ \A i \in 1..Len(mapping) : most[Len(begin) + i] = mapping[i]
    BY <2>1, Concatenated
  <2> HIDE DEF most
  <2> QED BY <1>6, <1>8, <2>2
<1> HIDE DEF most
<1> DEFINE all == most \o on
<1>10. /\ all \in Seq(DownloadValues) /\ Len(all) = Total /\ Total \in Nat \ {0}
       /\ Total = 1 + Given + MappingLength + Len(on)
       /\ \A i \in 1..(1 + Given + MappingLength) : all[i] = most[i]
       /\ \A i \in 1..Len(on) : all[1 + Given + MappingLength + i] = on[i]
  <2>1. most \in Seq(DownloadValues) /\ on \in Seq(DownloadValues)
    BY <1>4, <1>9
  <2>2. /\ all \in Seq(DownloadValues) /\ Len(all) = Len(most) + Len(on)
        /\ \A i \in 1..Len(most) : all[i] = most[i]
        /\ \A i \in 1..Len(on) : all[Len(most) + i] = on[i]
    BY <2>1, Concatenated
  <2>3. Total = 1 + Given + MappingLength + Len(on) /\ Total \in Nat \ {0}
    BY <1>4, <1>5, <1>6 DEF Total
  <2> HIDE DEF all
  <2> QED BY <1>9, <2>2, <2>3
<1> HIDE DEF all
<1>11. ASSUME NEW k \in 1..Total PROVE IsDownload(all[k], k)
  <2>0. Given \in Nat /\ MappingLength \in Nat /\ Len(on) \in Nat
        /\ (conf.mappings # <<>> => MappingLength = Number + 2 /\ Number \in Nat)
    BY <1>4, <1>5, <1>6
  <2>1. CASE k = 1
    <3>1. all[1] = <<"cobId", [valid |-> FALSE, rtr |-> WantedRtr]>>
      BY <2>0, <1>3, <1>8, <1>9, <1>10
    <3> QED BY <2>0, <2>1, <3>1 DEF IsDownload
  <2>2. CASE k \in 2..(1 + Given)
    <3>1. PICK i \in 1..Given : k = 1 + i
      <4>1. k - 1 \in 1..Given /\ k = 1 + (k - 1)
        BY <2>0, <2>2
      <4> QED BY <4>1
    <3>2. all[k] = params[i]
      BY <2>0, <2>2, <3>1, <1>8, <1>9, <1>10
    <3>3. \A j \in 1..Given : k = 1 + j => j = i
      BY <3>1
    <3> QED BY <2>0, <2>2, <3>2, <3>3 DEF IsDownload, params
  <2>3. CASE k \in (2 + Given)..(1 + Given + MappingLength)
    <3>1. PICK i \in 1..MappingLength : k = 1 + Given + i
      <4>1. k - 1 - Given \in 1..MappingLength /\ k = 1 + Given + (k - 1 - Given)
        BY <2>0, <2>3
      <4> QED BY <4>1
    <3>2. all[k] = mapping[i] /\ conf.mappings # <<>> /\ MappingLength = Number + 2 /\ Number \in Nat
      BY <2>0, <2>3, <3>1, <1>9, <1>10 DEF MappingLength
    <3>3. k = Given + 2 => all[k] = <<"count", 0>>
      BY <2>0, <3>1, <3>2, <1>6
    <3>4. k = Given + Number + 3 => all[k] = <<"count", Number>>
      BY <2>0, <3>1, <3>2, <1>6
    <3>5. ASSUME NEW j \in 1..Number, k = Given + 2 + j PROVE all[k] = <<"slot", <<j, conf.mappings[j]>>>>
      <4>1. i = j + 1
        BY <2>0, <3>1, <3>5
      <4> QED BY <3>2, <4>1, <1>6
    <3> QED BY <2>0, <2>3, <3>2, <3>3, <3>4, <3>5 DEF IsDownload
  <2>4. CASE k > 1 + Given + MappingLength
    <3>1. PICK i \in 1..Len(on) : k = 1 + Given + MappingLength + i
      <4>1. k - (1 + Given + MappingLength) \in 1..Len(on) /\ k = 1 + Given + MappingLength + (k - (1 + Given + MappingLength))
        BY <2>0, <2>4, <1>10
      <4> QED BY <4>1
    <3>2. all[k] = <<"cobId", [valid |-> TRUE, rtr |-> WantedRtr]>>
      BY <3>1, <1>4, <1>10
    <3> QED BY <2>0, <2>4, <3>2 DEF IsDownload
  <2> QED BY <2>0, <2>1, <2>2, <2>3, <2>4
<1> QED BY <1>7, <1>10, <1>11 DEF all, most, begin

-----------------------------------------------------------------------------
\* How long the sequence is does not depend on the drive.
LEMMA Lengths ==
  ASSUME ConstantsFit, Typed, Device
  PROVE  /\ Given \in Nat /\ MappingLength \in Nat /\ Number \in 0..MaxSlots /\ MaxSlots \in Nat /\ Total \in Nat \ {0}
         /\ conf.mappings \in Seq(STRING)
<1>1. conf.mappings \in Seq(STRING) /\ Len(conf.mappings) <= MaxSlots /\ conf.set \subseteq Parameters /\ MaxSlots \in Nat
  BY DEF ConstantsFit, Typed, IsConfiguration
<1>2. Given \in Nat
  BY <1>1, ParametersCovered, LenProperties DEF Given
<1>3. Number \in 0..MaxSlots /\ MappingLength \in Nat
  BY <1>1, LenProperties DEF Number, MappingLength
<1> QED BY <1>1, <1>2, <1>3 DEF Total

\* A step that keeps the configuration keeps what it asks for.
LEMMA SameConfiguration ==
  ASSUME UNCHANGED <<conf, before>>
  PROVE  /\ Total' = Total /\ Given' = Given /\ Number' = Number
         /\ \A d, k : (IsDownload(d, k)' <=> IsDownload(d, k)) /\ (Done(d, k)' <=> Done(d, k))
<1>1. Total' = Total /\ Given' = Given /\ Number' = Number /\ MappingLength' = MappingLength /\ WantedRtr' = WantedRtr
      /\ (Inapplicable' <=> Inapplicable)
  BY DEF Total, Given, Number, MappingLength, WantedRtr, Inapplicable
<1>2. ASSUME NEW d, NEW k PROVE IsDownload(d, k)' <=> IsDownload(d, k)
  BY <1>1 DEF IsDownload
<1>3. ASSUME NEW d, NEW k PROVE Done(d, k)' <=> Done(d, k)
  BY <1>1 DEF Done
<1> QED BY <1>1, <1>2, <1>3

\* The k-th download switches off, writes a parameter, the number of objects or
\* one of them, or switches on.
LEMMA Places ==
  ASSUME ConstantsFit, Typed, Device, conf.rtr = "unset" \/ conf.type = "TPDO",
         NEW k \in 1..Total, NEW d, IsDownload(d, k), d[1] # "illegal"
  PROVE  \/ k = 1 /\ d = <<"cobId", [valid |-> FALSE, rtr |-> WantedRtr]>>
         \/ \E i \in 1..Given : /\ k = 1 + i /\ d = ParameterDownloads(conf)[i] /\ (Inapplicable => i < Given)
                                /\ d[1] \in conf.set /\ d[1] \in Parameters /\ d[2] = "new"
         \/ conf.mappings # <<>> /\ k = Given + 2 /\ d = <<"count", 0>>
         \/ \E i \in 1..Number : conf.mappings # <<>> /\ k = Given + 2 + i /\ d = <<"slot", <<i, conf.mappings[i]>>>>
         \/ conf.mappings # <<>> /\ k = Given + Number + 3 /\ d = <<"count", Number>>
         \/ /\ k = Total /\ k > 1 + Given + MappingLength /\ conf.valid # "no"
            /\ d = <<"cobId", [valid |-> TRUE, rtr |-> WantedRtr]>>
<1>0. Given \in Nat /\ MappingLength \in Nat /\ Number \in Nat /\ Total \in Nat /\ k \in Nat \ {0} /\ k <= Total
      /\ (conf.mappings # <<>> => MappingLength = Number + 2) /\ (conf.mappings = <<>> => MappingLength = 0)
  BY Lengths DEF MappingLength
<1>1. CASE k = 1
  BY <1>1 DEF IsDownload
<1>2. CASE k \in 2..(1 + Given)
  <2>1. PICK i \in 1..Given : k = 1 + i
    <3>1. k - 1 \in 1..Given /\ k = 1 + (k - 1)
      BY <1>0, <1>2
    <3> QED BY <3>1
  <2>2. d = ParameterDownloads(conf)[i]
    BY <2>1 DEF IsDownload
  <2>3. d \in ParameterValues /\ d[1] \in conf.set /\ (Inapplicable => Given \in Nat /\ i # Given)
    <3>1. d \in ParameterValues /\ d[1] \in conf.set
      <4>1. IsGiven(d)
        BY <2>2, ParameterValue
      <4> QED BY <4>1 DEF IsGiven
    <3>2. Inapplicable => Given \in Nat \ {0} /\ ParameterDownloads(conf)[Given][1] = "illegal"
      BY ParameterValue
    <3>3. Inapplicable => i # Given
      BY <2>2, <3>2
    <3> QED BY <3>1, <3>2, <3>3
  <2>4. d[1] \in Parameters /\ d[2] = "new"
    BY <2>3 DEF ParameterValues
  <2>5. Inapplicable => i < Given
    BY <1>0, <2>3
  <2> QED BY <2>1, <2>2, <2>3, <2>4, <2>5
<1>3. CASE k \in (Given + 2)..(1 + Given + MappingLength)
  <2>1. conf.mappings # <<>> /\ MappingLength = Number + 2
    BY <1>0, <1>3
  <2>2. CASE k = Given + 2
    BY <2>1, <2>2 DEF IsDownload
  <2>3. CASE k = Given + Number + 3
    BY <2>1, <2>3 DEF IsDownload
  <2>4. CASE k # Given + 2 /\ k # Given + Number + 3
    <3>1. PICK i \in 1..Number : k = Given + 2 + i
      <4>1. k - Given - 2 \in 1..Number /\ k = Given + 2 + (k - Given - 2)
        BY <1>0, <1>3, <2>1, <2>4
      <4> QED BY <4>1
    <3>2. d = <<"slot", <<i, conf.mappings[i]>>>>
      BY <2>1, <3>1 DEF IsDownload
    <3> QED BY <2>1, <3>1, <3>2
  <2> QED BY <2>2, <2>3, <2>4
<1>4. CASE k > 1 + Given + MappingLength
  <2>1. k = Total /\ conf.valid # "no"
    BY <1>0, <1>4 DEF Total
  <2> QED BY <1>4, <2>1 DEF IsDownload
<1> QED BY <1>0, <1>1, <1>2, <1>3, <1>4

\* The drive obeys the k-th download.
LEMMA ObeyKeeps ==
  ASSUME ConstantsFit, Typed, Device, Whole, Kept, conf.rtr = "unset" \/ conf.type = "TPDO",
         NEW k \in 1..Total, NEW d, IsDownload(d, k), Done(device, k),
         d[1] # "illegal", device' = Obey(d), UNCHANGED <<conf, before>>
  PROVE  Device' /\ Whole' /\ Kept' /\ Done(device', k + 1)
<1>0. /\ k \in Nat \ {0} /\ Given \in Nat /\ MappingLength \in Nat /\ Number \in 0..MaxSlots /\ MaxSlots \in Nat
      /\ Total \in Nat \ {0} /\ k <= Total /\ conf.mappings \in Seq(STRING)
      /\ (conf.mappings # <<>> => MappingLength = Number + 2) /\ (conf.mappings = <<>> => MappingLength = 0)
      /\ 1 + Given + MappingLength <= Total /\ WantedRtr \in BOOLEAN
  <2>1. WantedRtr \in BOOLEAN
    BY DEF Typed, WantedRtr
  <2> QED BY <2>1, Lengths DEF MappingLength, Total
<1> USE <1>0
<1>1. conf' = conf /\ before' = before /\ (Inapplicable' <=> Inapplicable)
  BY DEF Inapplicable
<1>2. CASE k = 1 /\ d = <<"cobId", [valid |-> FALSE, rtr |-> WantedRtr]>>
  <2>1. device' = [device EXCEPT !.valid = FALSE, !.rtr = WantedRtr]
    BY <1>2 DEF Obey, Parameters
  <2>2. /\ Device' /\ device'.valid = FALSE /\ device'.rtr = WantedRtr /\ device'.params = device.params
        /\ device'.slots = device.slots /\ device'.count = device.count
    BY <2>1 DEF Device
  <2>3. Whole'
    BY <1>1, <2>2 DEF Whole, Untouched, IsMapped
  <2>4. Kept'
    BY <1>1, <2>2 DEF Kept, WantedRtr
  <2>5. Done(device', k + 1)
    <3>1. (k + 1 > Total /\ conf.valid # "no") = FALSE
      BY <1>2 DEF Total
    <3>2. k + 1 = 2 /\ (\A i \in 1..Given : ~(k + 1 > 1 + i)) /\ (Inapplicable => k + 1 <= 1 + Given)
      <4>1. Inapplicable => Given # 0
        BY ParameterValue
      <4> QED BY <1>2, <4>1
    <3>3. (\A i \in 1..Number : ~(k + 1 > Given + 2 + i)) /\ ~(k + 1 > Given + Number + 3)
      BY <1>2
    <3> QED BY <2>2, <3>1, <3>2, <3>3 DEF Done
  <2> QED BY <2>2, <2>3, <2>4, <2>5
<1>3. ASSUME NEW i \in 1..Given, k = 1 + i, d = ParameterDownloads(conf)[i], Inapplicable => i < Given,
             d[1] \in conf.set, d[1] \in Parameters, d[2] = "new"
      PROVE  Device' /\ Whole' /\ Kept' /\ Done(device', k + 1)
  <2>1. device' = [device EXCEPT !.params[d[1]] = "new"]
    BY <1>3 DEF Obey, Parameters
  <2>2. /\ Device' /\ device'.valid = device.valid /\ device'.rtr = device.rtr
        /\ device'.slots = device.slots /\ device'.count = device.count
        /\ device'.params = [device.params EXCEPT ![d[1]] = "new"]
    <3>1. [device.params EXCEPT ![d[1]] = "new"] \in [Parameters -> {"old", "new"}]
      BY <1>3 DEF Device
    <3>2. device' = [device EXCEPT !.params = [device.params EXCEPT ![d[1]] = "new"]]
      BY <2>1
    <3> QED BY <3>1, <3>2 DEF Device
  <2>3. Whole'
    BY <1>1, <2>2 DEF Whole, Untouched, IsMapped
  <2>4. Kept'
    <3>1. \A p \in Parameters \ conf.set : device'.params[p] = "old"
      BY <1>3, <2>2 DEF Kept, Device
    <3> QED BY <1>1, <2>2, <3>1 DEF Kept
  <2>5. Done(device', k + 1)
    <3>1. /\ device.valid = FALSE /\ device.rtr = WantedRtr
          /\ \A j \in 1..Given : k > 1 + j => device.params[ParameterDownloads(conf)[j][1]] = "new"
      <4>1. (k > Total /\ conf.valid # "no") = FALSE /\ k > 1
        BY <1>3
      <4>2. device.valid = (k > Total /\ conf.valid # "no")
        BY <4>1 DEF Done
      <4>3. device.rtr = WantedRtr
        BY <4>1 DEF Done
      <4>4. \A j \in 1..Given : k > 1 + j => device.params[ParameterDownloads(conf)[j][1]] = "new"
        BY <4>1 DEF Done
      <4> QED BY <4>1, <4>2, <4>3, <4>4
    <3>2. ASSUME NEW j \in 1..Given, k + 1 > 1 + j PROVE device'.params[ParameterDownloads(conf)[j][1]] = "new"
      <4>1. CASE j = i
        BY <1>3, <2>2, <4>1 DEF Device
      <4>2. CASE j # i
        <5>1. k > 1 + j
          BY <1>3, <3>2, <4>2
        <5>2. device.params[ParameterDownloads(conf)[j][1]] = "new" /\ device.params \in [Parameters -> {"old", "new"}]
          BY <3>1, <5>1 DEF Device
        <5>3. \A q : device.params[q] = "new" => device'.params[q] = "new"
          BY <2>2, <5>2, <1>3
        <5> QED BY <5>2, <5>3
      <4> QED BY <4>1, <4>2
    <3>3. Inapplicable => k + 1 <= 1 + Given
      BY <1>3
    <3>4. (k + 1 > Total /\ conf.valid # "no") = FALSE
      BY <1>3 DEF Total
    <3>5. (\A j \in 1..Number : ~(k + 1 > Given + 2 + j)) /\ ~(k + 1 > Given + Number + 3)
      BY <1>3
    <3> QED BY <2>2, <3>1, <3>2, <3>3, <3>4, <3>5 DEF Done
  <2> QED BY <2>2, <2>3, <2>4, <2>5
<1> DEFINE Before == /\ device.valid = FALSE /\ device.rtr = WantedRtr /\ ~Inapplicable
                     /\ \A i \in 1..Given : device.params[ParameterDownloads(conf)[i][1]] = "new"
<1>4. k > 1 + Given => Before
  <2> SUFFICES ASSUME k > 1 + Given PROVE Before
    OBVIOUS
  <2>1. (k > Total /\ conf.valid # "no") = FALSE /\ (\A i \in 1..Given : k > 1 + i) /\ k > 1 /\ ~(k <= 1 + Given)
    OBVIOUS
  <2>2. device.valid = (k > Total /\ conf.valid # "no")
    BY <2>1 DEF Done
  <2>3. device.rtr = WantedRtr /\ ~Inapplicable
    BY <2>1 DEF Done
  <2>4. \A i \in 1..Given : device.params[ParameterDownloads(conf)[i][1]] = "new"
    BY <2>1 DEF Done
  <2> QED BY <2>1, <2>2, <2>3, <2>4
<1>5. ASSUME NEW n \in 0..MaxSlots, conf.mappings # <<>>, k \in {Given + 2, Given + Number + 3}, d = <<"count", n>>,
             k = Given + Number + 3 => n = Number
      PROVE  Device' /\ Whole' /\ Kept' /\ Done(device', k + 1)
  <2>1. Before
    BY <1>4, <1>5
  <2>2. device' = [device EXCEPT !.count = n]
    BY <1>5 DEF Obey, Parameters
  <2>3. /\ Device' /\ device'.valid = device.valid /\ device'.rtr = device.rtr /\ device'.params = device.params
        /\ device'.slots = device.slots /\ device'.count = n
    BY <2>2 DEF Device
  <2>4. Whole'
    BY <1>1, <1>5, <2>1, <2>3 DEF Whole
  <2>5. Kept'
    BY <1>1, <2>1, <2>3 DEF Kept
  <2>6. Done(device', k + 1)
    <3>1. ASSUME NEW i \in 1..Number, k + 1 > Given + 2 + i PROVE device'.slots[i] = conf.mappings[i]
      <4>1. k > Given + 2 + i /\ k > 1
        BY <1>5, <3>1, SMTT(30)
      <4> QED BY <1>5, <2>3, <4>1 DEF Done
    <3>2. k + 1 > Given + Number + 3 => device'.count = Number
      BY <1>5, <2>3
    <3>3. (k + 1 > Total /\ conf.valid # "no") = FALSE
      BY <1>5, SMTT(30) DEF Total
    <3> QED BY <2>1, <2>3, <3>1, <3>2, <3>3 DEF Done
  <2> QED BY <2>3, <2>4, <2>5, <2>6
<1>6. ASSUME NEW i \in 1..Number, conf.mappings # <<>>, k = Given + 2 + i, d = <<"slot", <<i, conf.mappings[i]>>>>
      PROVE  Device' /\ Whole' /\ Kept' /\ Done(device', k + 1)
  <2>1. Before
    BY <1>4, <1>6
  <2>2. conf.mappings[i] \in STRING /\ i \in 1..MaxSlots
    BY LenProperties DEF Number
  <2>3. device' = [device EXCEPT !.slots = [device.slots EXCEPT ![i] = conf.mappings[i]]]
    BY <1>6 DEF Obey, Parameters
  <2>4. /\ Device' /\ device'.valid = device.valid /\ device'.rtr = device.rtr /\ device'.params = device.params
        /\ device'.slots = [device.slots EXCEPT ![i] = conf.mappings[i]] /\ device'.count = device.count
    <3>1. [device.slots EXCEPT ![i] = conf.mappings[i]] \in Slots
      BY <2>2 DEF Device, Slots
    <3> QED BY <2>3, <3>1 DEF Device
  <2>5. Whole'
    BY <1>1, <1>6, <2>1, <2>4 DEF Whole
  <2>6. Kept'
    BY <1>1, <2>1, <2>4 DEF Kept
  <2>7. Done(device', k + 1)
    <3>1. ASSUME NEW j \in 1..Number, k + 1 > Given + 2 + j PROVE device'.slots[j] = conf.mappings[j]
      <4>1. j \in 1..MaxSlots /\ device.slots \in Slots
        BY DEF Device
      <4>2. CASE j = i
        BY <2>4, <4>1, <4>2 DEF Slots
      <4>3. CASE j # i
        <5>1. k > Given + 2 + j /\ k > 1
          BY <1>6, <3>1, <4>3
        <5>2. device.slots[j] = conf.mappings[j]
          BY <1>6, <5>1 DEF Done
        <5> QED BY <2>4, <4>1, <4>3, <5>2 DEF Slots
      <4> QED BY <4>2, <4>3
    <3>2. ~(k + 1 > Given + Number + 3)
      BY <1>6
    <3>3. (k + 1 > Total /\ conf.valid # "no") = FALSE
      BY <1>6 DEF Total
    <3> QED BY <2>1, <2>4, <3>1, <3>2, <3>3 DEF Done
  <2> QED BY <2>4, <2>5, <2>6, <2>7
<1>7. CASE /\ k = Total /\ k > 1 + Given + MappingLength /\ conf.valid # "no"
           /\ d = <<"cobId", [valid |-> TRUE, rtr |-> WantedRtr]>>
  <2>1. Before
    BY <1>4, <1>7
  <2>2. device' = [device EXCEPT !.valid = TRUE, !.rtr = WantedRtr]
    BY <1>7 DEF Obey, Parameters
  <2>3. /\ Device' /\ device'.valid = TRUE /\ device'.rtr = WantedRtr /\ device'.params = device.params
        /\ device'.slots = device.slots /\ device'.count = device.count
    BY <2>2 DEF Device
  <2>4. conf.mappings # <<>> =>
          device.count = Number /\ \A i \in 1..Number : device.slots[i] = conf.mappings[i]
    <3> SUFFICES ASSUME conf.mappings # <<>>
                 PROVE  device.count = Number /\ \A i \in 1..Number : device.slots[i] = conf.mappings[i]
      OBVIOUS
    <3>1. k > 1 /\ k > Given + Number + 3 /\ \A i \in 1..Number : k > Given + 2 + i
      BY <1>7
    <3> QED BY <3>1 DEF Done
  <2>5. Whole'
    BY <1>1, <2>3, <2>4 DEF Whole, Untouched, IsMapped, Number
  <2>6. Kept'
    BY <1>1, <2>1, <2>3 DEF Kept
  <2>7. Done(device', k + 1)
    <3>1. (k + 1 > Total /\ conf.valid # "no") = TRUE
      BY <1>7
    <3> QED BY <2>1, <2>3, <2>4, <3>1 DEF Done
  <2> QED BY <2>3, <2>5, <2>6, <2>7
<1> HIDE DEF Before
<1>8. 0 \in 0..MaxSlots /\ Number \in 0..MaxSlots /\ Given + 2 # Given + Number + 3
  OBVIOUS
<1> QED BY <1>2, <1>3, <1>5, <1>6, <1>7, <1>8, Places

\* The download whose turn it is.
LEMMA HeadFits ==
  ASSUME ConstantsFit, IInv, phase = "download"
  PROVE  /\ Head(todo) \in DownloadValues /\ Turn \in 1..Total /\ IsDownload(Head(todo), Turn)
         /\ Len(todo) \in Nat \ {0} /\ (Len(todo) > 1 => Turn < Total)
<1>1. /\ todo \in Seq(DownloadValues) /\ todo # <<>> /\ Len(todo) <= Total
      /\ \A i \in 1..Len(todo) : IsDownload(todo[i], Turn + i - 1)
  BY DEF IInv, Typed, Remaining
<1>2. Len(todo) \in Nat \ {0} /\ Head(todo) = todo[1] /\ Head(todo) \in DownloadValues
  BY <1>1, LenProperties, EmptySeq, HeadTailProperties
<1>3. Total \in Nat \ {0}
  BY Lengths DEF IInv
<1>4. Turn \in 1..Total /\ Turn + 1 - 1 = Turn /\ (Len(todo) > 1 => Turn < Total)
  BY <1>1, <1>2, <1>3 DEF Turn
<1>5. IsDownload(todo[1], Turn + 1 - 1)
  BY <1>1, <1>2
<1> QED BY <1>2, <1>4, <1>5

\* A configure begins, fails, or has done all of it.
LEMMA QuietKeeps ==
  ASSUME ConstantsFit, IInv, UNCHANGED <<conf, before>>, Device', Whole', Kept',
         phase' \in {"idle", "upload"}, todo' = <<>>, outcome' \in {"none", "yes", "no"},
         outcome' = "yes" => phase' = "idle" /\ Done(device', Total + 1)
  PROVE  IInv'
<1>1. todo' \in Seq(DownloadValues)
  OBVIOUS
<1>2. Typed' /\ Remaining'
  BY <1>1 DEF IInv, Typed, Remaining
<1>3. Progress'
  <2>1. Total' = Total /\ \A d, k : Done(d, k)' <=> Done(d, k)
    BY SameConfiguration
  <2>2. outcome' = "yes" => Done(device, Total + 1)'
    BY <2>1
  <2> QED BY <2>2 DEF Progress
<1> QED BY <1>2, <1>3 DEF IInv

\* A step that leaves the drive alone.
LEMMA SameDevice ==
  ASSUME IInv, UNCHANGED <<conf, before, device>>
  PROVE  Device' /\ Whole' /\ Kept'
<1>1. Inapplicable' <=> Inapplicable
  BY DEF Inapplicable
<1> QED BY <1>1 DEF IInv, Device, Whole, Untouched, IsMapped, Kept

\* The sequence is laid out.
LEMMA ReadCobIdKeeps ==
  ASSUME ConstantsFit, IInv, ReadCobId
  PROVE  IInv'
<1> DEFINE all == Downloads(conf, device)
<1>1. /\ all \in Seq(DownloadValues) /\ Len(all) = Total /\ Total \in Nat \ {0}
      /\ \A k \in 1..Total : IsDownload(all[k], k)
  BY DownloadsFit DEF IInv
<1>2. /\ phase' = "download" /\ todo' = all /\ UNCHANGED <<conf, device, before, outcome>>
      /\ (conf.rtr = "unset" \/ conf.type = "TPDO") /\ outcome # "yes"
  BY DEF ReadCobId, IInv, Progress
<1> HIDE DEF all
<1>3. Total' = Total /\ \A d, k : (IsDownload(d, k)' <=> IsDownload(d, k)) /\ (Done(d, k)' <=> Done(d, k))
  BY <1>2, SameConfiguration
<1>4. Turn' = 1
  BY <1>1, <1>2, <1>3 DEF Turn
<1>5. Typed'
  BY <1>1, <1>2 DEF IInv, Typed
<1>6. todo' # <<>>
  BY <1>1, <1>2
<1>7. Remaining'
  BY <1>1, <1>2, <1>3, <1>4, <1>6 DEF Remaining
<1>8. Progress'
  BY <1>2, <1>4 DEF Progress, Done
<1> QED BY <1>2, <1>5, <1>7, <1>8, SameDevice DEF IInv

\* The download whose turn it is does no harm, and makes progress.
LEMMA NextObeyed ==
  ASSUME ConstantsFit, IInv, phase = "download", Head(todo)[1] # "illegal", device' = Obey(Head(todo)),
         UNCHANGED <<conf, before>>
  PROVE  \E k \in 1..Total : k = Turn /\ Device' /\ Whole' /\ Kept' /\ Done(device', k + 1)
<1>1. /\ Head(todo) \in DownloadValues /\ Turn \in 1..Total /\ IsDownload(Head(todo), Turn) /\ Done(device, Turn)
      /\ (conf.rtr = "unset" \/ conf.type = "TPDO")
  BY HeadFits DEF IInv, Progress, Remaining
<1>2. PICK k \in 1..Total : k = Turn
  BY <1>1
<1>3. PICK d \in DownloadValues : d = Head(todo)
  BY <1>1
<1>4. IsDownload(d, k) /\ Done(device, k) /\ d[1] # "illegal" /\ device' = Obey(d)
  BY <1>1, <1>2, <1>3
<1>5. Device' /\ Whole' /\ Kept' /\ Done(device', k + 1)
  BY <1>1, <1>4, ObeyKeeps DEF IInv
<1> QED BY <1>2, <1>5

\* The next download is done, and another one remains.
LEMMA GoesOn ==
  ASSUME ConstantsFit, IInv, DownloadNext, Len(todo) > 1
  PROVE  IInv'
<1>1. /\ phase = "download" /\ Head(todo)[1] # "illegal" /\ device' = Obey(Head(todo))
      /\ todo' = Tail(todo) /\ UNCHANGED <<conf, phase, before, outcome>>
  <2>1. Len(todo) \in Nat
    BY LenProperties DEF IInv, Typed
  <2>2. /\ phase = "download" /\ Head(todo)[1] # "illegal" /\ device' = Obey(Head(todo))
        /\ \/ todo' = Tail(todo) /\ UNCHANGED <<conf, phase, before, outcome>>
           \/ Len(todo) = 1
    BY DEF DownloadNext
  <2>3. PICK n \in Nat : n = Len(todo)
    BY <2>1
  <2>4. n > 1 /\ (n = 1 <=> Len(todo) = 1)
    BY <2>3
  <2> QED BY <2>2, <2>4
<1>2. /\ todo \in Seq(DownloadValues) /\ todo # <<>> /\ Len(todo) \in Nat \ {0} /\ Turn < Total /\ Len(todo) <= Total
      /\ Total \in Nat \ {0} /\ \A i \in 1..Len(todo) : IsDownload(todo[i], Turn + i - 1)
      /\ (conf.rtr = "unset" \/ conf.type = "TPDO") /\ outcome # "yes"
  BY <1>1, HeadFits, Lengths DEF IInv, Typed, Remaining, Progress
<1>3. /\ Tail(todo) \in Seq(DownloadValues) /\ Len(Tail(todo)) = Len(todo) - 1
      /\ \A i \in 1..Len(Tail(todo)) : Tail(todo)[i] = todo[i + 1]
  BY <1>2, HeadTailProperties
<1>4. PICK k \in 1..Total : k = Turn /\ Device' /\ Whole' /\ Kept' /\ Done(device', k + 1)
  BY <1>1, NextObeyed
<1>5. Total' = Total /\ \A d, j : (IsDownload(d, j)' <=> IsDownload(d, j)) /\ (Done(d, j)' <=> Done(d, j))
  BY <1>1, SameConfiguration
<1>6. Turn' = k + 1 /\ k = Turn
  BY <1>1, <1>2, <1>3, <1>4, <1>5 DEF Turn
<1>7. Typed'
  BY <1>1, <1>3 DEF IInv, Typed
<1>8. Remaining'
  <2>1. todo' # <<>> /\ Len(todo') <= Total'
    <3>1. Len(<<>>) = 0 /\ Len(Tail(todo)) # 0
      <4>1. PICK n \in Nat : n = Len(todo) /\ n > 1
        BY <1>2
      <4> QED BY <1>3, <4>1
    <3>2. Len(todo') = Len(todo) - 1 /\ todo' # <<>>
      <4>1. todo' = Tail(todo) /\ Len(Tail(todo)) = Len(todo) - 1
        BY <1>1, <1>3
      <4>2. Tail(todo) # <<>>
        BY <3>1, Zenon
      <4> QED BY <4>1, <4>2
    <3> QED BY <1>2, <1>5, <3>2
  <2>2. ASSUME NEW i \in 1..Len(todo') PROVE IsDownload(todo[i], Turn + i - 1)'
    <3>1. i + 1 \in 1..Len(todo) /\ todo'[i] = todo[i + 1]
      BY <1>1, <1>2, <1>3
    <3>2. IsDownload(todo[i + 1], Turn + (i + 1) - 1)
      BY <1>2, <3>1
    <3>3. Turn + (i + 1) - 1 = k + 1 + i - 1
      BY <1>4
    <3> QED BY <1>5, <1>6, <3>1, <3>2, <3>3
  <2> QED BY <1>1, <1>2, <2>1, <2>2 DEF Remaining
<1>9. Progress'
  <2>1. Done(device, Turn)'
    BY <1>4, <1>5, <1>6
  <2> QED BY <1>1, <1>2, <2>1 DEF Progress
<1> QED BY <1>4, <1>7, <1>8, <1>9 DEF IInv

\* The last download is done.
LEMMA AllDone ==
  ASSUME ConstantsFit, IInv, DownloadNext, ~(Len(todo) > 1)
  PROVE  IInv'
<1>1. Len(todo) \in Nat \ {0} /\ Total \in Nat \ {0}
  BY HeadFits, Lengths DEF DownloadNext, IInv
<1>2. /\ phase = "download" /\ Head(todo)[1] # "illegal" /\ device' = Obey(Head(todo))
      /\ Len(todo) = 1 /\ Finish("yes")
  BY DEF DownloadNext
<1>3. phase' = "idle" /\ todo' = <<>> /\ outcome' = "yes" /\ UNCHANGED <<conf, before>>
  BY <1>2 DEF Finish
<1>4. PICK k \in 1..Total : k = Turn /\ Device' /\ Whole' /\ Kept' /\ Done(device', k + 1)
  BY <1>2, <1>3, NextObeyed
<1>5. k = Total
  BY <1>1, <1>2, <1>4 DEF Turn
<1> QED BY <1>3, <1>4, <1>5, QuietKeeps

\* Every step keeps the invariant.
LEMMA NextKeeps ==
  ASSUME ConstantsFit, IInv, [PdoNext]_pdoVars
  PROVE  IInv'
<1>1. CASE Configure
  <2>1. /\ phase' = "upload" /\ todo' = todo /\ outcome' = "none" /\ phase = "idle" /\ UNCHANGED <<conf, before, device>>
    BY <1>1 DEF Configure
  <2>2. todo' = <<>>
    BY <2>1 DEF IInv, Remaining
  <2> QED BY <2>1, <2>2, SameDevice, QuietKeeps
<1>2. CASE ReadCobId
  BY <1>2, ReadCobIdKeeps
<1>3. CASE DownloadNext
  BY <1>3, GoesOn, AllDone
<1>4. CASE Fail
  <2>1. CASE device' = device /\ Finish("no")
    <3>1. phase' = "idle" /\ todo' = <<>> /\ outcome' = "no" /\ UNCHANGED <<conf, before, device>>
      BY <2>1 DEF Finish
    <3> QED BY <3>1, SameDevice, QuietKeeps
  <2>2. CASE phase = "download" /\ Head(todo)[1] # "illegal" /\ device' = Obey(Head(todo)) /\ Finish("no")
    <3>1. phase' = "idle" /\ todo' = <<>> /\ outcome' = "no" /\ UNCHANGED <<conf, before>>
      BY <2>2 DEF Finish
    <3>2. Device' /\ Whole' /\ Kept'
      BY <2>2, <3>1, NextObeyed
    <3> QED BY <3>1, <3>2, QuietKeeps
  <2> QED BY <1>4, <2>1, <2>2 DEF Fail
<1>5. CASE UNCHANGED pdoVars
  <2>1. UNCHANGED <<conf, phase, todo, device, before, outcome>>
    BY <1>5 DEF pdoVars
  <2>2. Total' = Total /\ Turn' = Turn /\ \A d, k : (IsDownload(d, k)' <=> IsDownload(d, k)) /\ (Done(d, k)' <=> Done(d, k))
    BY <2>1, SameConfiguration DEF Turn
  <2>3. Typed' /\ Remaining' /\ Progress'
    BY <2>1, <2>2 DEF IInv, Typed, Remaining, Progress
  <2> QED BY <2>1, <2>3, SameDevice DEF IInv
<1> QED BY <1>1, <1>2, <1>3, <1>4, <1>5 DEF PdoNext

\* So it holds always.
LEMMA Inductive == ASSUME ConstantsFit PROVE PdoSpec => []IInv
<1>1. PdoInit => IInv
  BY InitIInv
<1>2. IInv /\ [PdoNext]_pdoVars => IInv'
  BY NextKeeps
<1> QED BY <1>1, <1>2, PTL DEF PdoSpec

-----------------------------------------------------------------------------
\* The type invariant of configure and of the drive.
THEOREM ConfigureTyped == ASSUME ConstantsFit PROVE PdoSpec => []PdoTypeOK
<1>1. IInv => PdoTypeOK
  BY DEF IInv, Typed, Device, Remaining, PdoTypeOK
<1> QED BY <1>1, Inductive, PTL

\* The objects that are mapped when the mapping is the configured one.
LEMMA MappedIsMapping ==
  ASSUME ConstantsFit, IInv, IsMapped(conf.mappings)
  PROVE  Mapped(device) = conf.mappings
<1>1. /\ conf.mappings \in Seq(STRING) /\ device.count = Number /\ Number \in 0..MaxSlots /\ MaxSlots \in Nat
      /\ Len(conf.mappings) = Number /\ \A i \in 1..Number : device.slots[i] = conf.mappings[i]
  <2>1. conf.mappings \in Seq(STRING) /\ Number \in 0..MaxSlots /\ MaxSlots \in Nat
    BY Lengths DEF IInv
  <2> QED BY <2>1 DEF IsMapped, Number
<1>2. \A i \in 1..Number : device.slots[i] \in STRING
  BY <1>1
<1>3. /\ Mapped(device) \in Seq(STRING) /\ Len(Mapped(device)) = Number
      /\ \A i \in 1..Number : Mapped(device)[i] = conf.mappings[i]
  BY <1>1, <1>2, SubSeqProperties DEF Mapped
<1> QED BY <1>1, <1>3, SeqEqual

\* Whatever transfers fail and however often configure is begun again, the mapping of a
\* PDO that is valid is the one it had at first or the one that is configured.
THEOREM NeverHalfMapped == ASSUME ConstantsFit PROVE PdoSpec => []ValidMeansWhole
<1>1. ASSUME ConstantsFit, IInv PROVE ValidMeansWhole
  <2> SUFFICES ASSUME device.valid PROVE Mapped(device) \in {Mapped(before), conf.mappings}
    BY DEF ValidMeansWhole
  <2>1. CASE Untouched
    BY <2>1 DEF Untouched, Mapped
  <2>2. CASE IsMapped(conf.mappings)
    BY <1>1, <2>2, MappedIsMapping
  <2> QED BY <1>1, <2>1, <2>2 DEF IInv, Whole
<1> QED BY <1>1, Inductive, PTL

\* What a configure leaves that has done all its downloads.
LEMMA AllIsDone ==
  ASSUME ConstantsFit, IInv, Done(device, Total + 1)
  PROVE  /\ ~Inapplicable /\ device.valid = (conf.valid # "no") /\ device.rtr = WantedRtr
         /\ \A i \in 1..Given : device.params[ParameterDownloads(conf)[i][1]] = "new"
         /\ conf.mappings # <<>> => IsMapped(conf.mappings)
<1>1. /\ Given \in Nat /\ MappingLength \in Nat /\ Number \in 0..MaxSlots /\ MaxSlots \in Nat /\ Total \in Nat \ {0}
      /\ (conf.mappings # <<>> => MappingLength = Number + 2)
      /\ 1 + Given + MappingLength <= Total
  <2>1. Given \in Nat /\ MappingLength \in Nat /\ Number \in 0..MaxSlots /\ MaxSlots \in Nat /\ Total \in Nat \ {0}
    BY Lengths DEF IInv
  <2> QED BY <2>1 DEF MappingLength, Total
<1>2. (Total + 1 > Total /\ conf.valid # "no") = (conf.valid # "no")
  BY <1>1
<1>3. Total + 1 > 1 /\ ~(Total + 1 <= 1 + Given) /\ \A i \in 1..Given : Total + 1 > 1 + i
  BY <1>1
<1>4. ~Inapplicable /\ device.valid = (conf.valid # "no") /\ device.rtr = WantedRtr
      /\ \A i \in 1..Given : device.params[ParameterDownloads(conf)[i][1]] = "new"
  BY <1>2, <1>3 DEF Done
<1>5. ASSUME conf.mappings # <<>> PROVE IsMapped(conf.mappings)
  <2>1. Total + 1 > Given + Number + 3 /\ \A i \in 1..Number : Total + 1 > Given + 2 + i
    BY <1>1, <1>5
  <2> QED BY <1>3, <1>5, <2>1 DEF Done, IsMapped, Number
<1> QED BY <1>4, <1>5

\* A configure that returns true has applied all of the configuration and nothing else,
\* whatever earlier attempts have left behind; one that cannot apply is never reported
\* as applied and switches nothing on.
THEOREM AllIsConfigured == ASSUME ConstantsFit PROVE PdoSpec => []SuccessMeansConfigured
<1>1. ASSUME ConstantsFit, IInv PROVE SuccessMeansConfigured
  <2> USE <1>1
  <2>1. ASSUME outcome = "yes"
        PROVE  /\ ~Inapplicable /\ device.valid = (conf.valid # "no") /\ device.rtr = WantedRtr
               /\ \A i \in 1..Given : device.params[ParameterDownloads(conf)[i][1]] = "new"
               /\ conf.mappings # <<>> => IsMapped(conf.mappings)
    BY <2>1, AllIsDone DEF IInv, Progress
  <2>2. ASSUME Inapplicable PROVE outcome # "yes" /\ (device.valid => before.valid)
    BY <2>1, <2>2 DEF IInv, Kept
  <2>3. ASSUME outcome = "yes", NEW p \in Parameters PROVE device.params[p] = (IF p \in conf.set THEN "new" ELSE "old")
    <3>1. CASE p \in conf.set
      <4>1. conf.rtr = "unset" \/ conf.type = "TPDO"
        BY <2>1, <2>3 DEF Inapplicable, IInv, Typed, ConstantsFit, IsConfiguration
      <4>2. PICK i \in 1..Given : ParameterDownloads(conf)[i] = <<p, "new">>
        BY <2>1, <2>3, <3>1, <4>1, ParameterValue DEF IInv
      <4>3. device.params[ParameterDownloads(conf)[i][1]] = "new" /\ ParameterDownloads(conf)[i][1] = p
        BY <2>1, <2>3, <4>2
      <4> QED BY <3>1, <4>3
    <3>2. CASE p \notin conf.set
      BY <3>2 DEF IInv, Kept
    <3> QED BY <3>1, <3>2
  <2>4. ASSUME outcome = "yes"
        PROVE  Mapped(device) = (IF conf.mappings = <<>> THEN Mapped(before) ELSE conf.mappings)
    <3>1. CASE conf.mappings = <<>>
      BY <3>1 DEF IInv, Whole, Untouched, Mapped
    <3>2. CASE conf.mappings # <<>>
      BY <2>1, <2>4, <3>2, MappedIsMapping
    <3> QED BY <3>1, <3>2
  <2>5. outcome = "yes" => device.rtr = (IF conf.rtr = "unset" THEN before.rtr ELSE conf.rtr = "yes")
    BY <2>1 DEF WantedRtr
  <2>6. outcome = "yes" => device.valid = (conf.valid # "no")
    BY <2>1
  <2> QED BY <2>2, <2>3, <2>4, <2>5, <2>6 DEF SuccessMeansConfigured, Inapplicable
<1> QED BY <1>1, Inductive, PTL

-----------------------------------------------------------------------------
(***************************************************************************)
(* The transfers, for any objects, values, numbers of segments and of       *)
(* frames, and any loss.  What a reply tells is true because it is made     *)
(* from the dictionary; that it is about the transfer which accepts it      *)
(* follows from the one frame that is under way: the request in turn, while *)
(* the session of the server has the parts the client has, or the reply to  *)
(* it, while the session has what the client will have.                     *)
(***************************************************************************)
\* What an operation is about.
Sensible(o) ==
  /\ o.kind \in {"upload", "download"} => o.obj \in Objects
  /\ o.kind = "download" => /\ o.val \in Contents /\ Len(o.parts) < Segments
                            /\ \A i \in 1..Len(o.parts) : o.parts[i] = o.val[i]
  /\ o.phase = "init" => o.parts = <<>>
  /\ o.phase = "segment" => o.kind \in {"upload", "download"} /\ o.obj \in Segmented

\* What a request may write, and what a reply may tell.
Writes(f) ==
  /\ f.kind = "writeSeg" => f.data \in Values
  /\ f.kind = "writeInit" => f.obj \in Objects /\ (f.obj \in Expedited => f.data \in Values)
Tells(f) == f.kind = "readInit" => /\ f.obj \in Objects /\ (f.last <=> f.obj \in Expedited)
                                   /\ f.obj \in Expedited => f.data \in Values

SdoTyped ==
  /\ SdoTypeOK
  /\ \A c \in Clients : Sensible(op[c]) /\ Tells(answer[c])
  /\ \A i \in 1..Len(toServer) : Writes(toServer[i])
  /\ \A i \in 1..Len(toClient) : Tells(toClient[i])
  /\ session.mode = "writing" => \A i \in 1..Len(session.parts) : session.parts[i] \in Values

\* One thread uses the client, and its transfers do not time out while a frame is under way.
OneThread == Timely /\ \A c, d \in Clients : c = d

\* The server is where the client is.
SessionOf(o, parts) == [mode |-> IF o.kind = "upload" THEN "reading" ELSE "writing", obj |-> o.obj, parts |-> parts]
Ready(c) == op[c].phase = "segment" => Len(op[c].parts) < Segments /\ session = SessionOf(op[c], op[c].parts)

\* The reply f is true, and the server is where the client will be.
TrueReply(c, f) ==
  LET o == op[c]
      n == Len(o.parts)
  IN  /\ o.kind = "upload" /\ o.phase = "init" /\ f.kind = "readInit" =>
           /\ f.last <=> o.obj \in Expedited
           /\ IF o.obj \in Expedited THEN f.data = dict[o.obj][1] ELSE session = SessionOf(o, <<>>)
      /\ o.kind = "upload" /\ o.phase = "segment" /\ f.kind = "readSeg" =>
           /\ f.last <=> n + 1 = Segments
           /\ n < Segments /\ f.data = dict[o.obj][n + 1]
           /\ n + 1 # Segments => session = SessionOf(o, Append(o.parts, f.data))
      /\ o.kind = "download" /\ o.phase = "init" /\ f.kind = "writeInit" =>
           IF o.obj \in Expedited THEN dict[o.obj][1] = o.val[1] ELSE session = SessionOf(o, <<>>)
      /\ o.kind = "download" /\ o.phase = "segment" /\ f.kind = "writeSeg" =>
           /\ n < Segments
           /\ IF n + 1 = Segments THEN \A i \in 1..Segments : dict[o.obj][i] = o.val[i]
              ELSE session = SessionOf(o, Append(o.parts, o.val[n + 1]))

\* What an upload has received is what is there.
Uploaded(c) ==
  op[c].kind = "upload" /\ op[c].phase = "segment" =>
    \A i \in 1..Len(op[c].parts) : op[c].parts[i] = dict[op[c].obj][i]

\* The one frame under way, if there is one.
InTurn(c) ==
  /\ Uploaded(c)
  /\ Len(toServer) + Len(toClient) <= 1
  /\ call[c] \notin {"waiting", "open"} => toServer = <<>> /\ toClient = <<>>
  /\ place[c] = "send" => Ready(c)
  /\ toServer # <<>> => Ready(c) /\ toServer[1] = Request(c)
  /\ toClient # <<>> => TrueReply(c, toClient[1])
  /\ call[c] = "woken" \/ (place[c] = "check" /\ answered[c]) => TrueReply(c, answer[c])

SdoInv == SdoTyped /\ (OneThread => \A c \in Clients : InTurn(c))


-----------------------------------------------------------------------------
(* Types. *)

\* A request is a frame, and writes a value of the object.
LEMMA RequestTyped ==
  ASSUME SdoTyped, NEW c \in Clients
  PROVE  Request(c) \in SdoFrames /\ Writes(Request(c))
<1> DEFINE o == op[c]
<1>1. o \in Transfers /\ Sensible(o) /\ Segments \in Nat \ {0}
  BY DEF SdoTyped, SdoTypeOK, SdoFits
<1>2. Toggle(c) \in 0..1 /\ Len(o.parts) \in Nat
  <2>1. op[c].parts \in Seq(Data)
    BY <1>1 DEF Transfers
  <2>2. Len(op[c].parts) \in Nat
    BY <2>1, LenProperties
  <2>3. \A k \in Nat : k % 2 \in 0..1
    OBVIOUS
  <2>4. QED
    BY <2>2, <2>3 DEF Toggle
<1>3. o.kind = "download" => o.val[1] \in Values /\ o.val[Len(o.parts) + 1] \in Values
  <2>1. o.kind = "download" => o.val \in [1..Segments -> Values] /\ Len(o.parts) + 1 \in 1..Segments
    BY <1>1, <1>2 DEF Sensible, Contents
  <2>2. 1 \in 1..Segments
    BY <1>1
  <2>3. QED
    BY <2>1, <2>2
<1>4. o.obj \in Names /\ (o.kind = "download" => o.obj \in Objects)
  BY <1>1 DEF Transfers, Sensible
<1>5. NoObject \in Names /\ 0 \in Data /\ Values \subseteq Data
  BY DEF Names, Data
<1>6. CASE o.phase = "init" /\ o.kind = "download"
  <2>1. PICK v \in Data : v = IF o.obj \in Expedited THEN o.val[1] ELSE 0
    BY <1>3, <1>5, <1>6
  <2>2. Request(c) = Frame("writeInit", o.obj, 0, v, o.obj \in Expedited, c)
    BY <1>6, <2>1 DEF Request
  <2>3. o.obj \in Expedited => v \in Values
    BY <1>3, <1>6, <2>1
  <2>4. QED
    BY <1>4, <1>6, <2>2, <2>3 DEF Frame, SdoFrames, Writes
<1>7. CASE o.phase = "init" /\ o.kind # "download"
  BY <1>4, <1>5, <1>7 DEF Request, Frame, SdoFrames, Writes
<1>8. CASE o.phase # "init" /\ o.kind # "download"
  BY <1>2, <1>5, <1>8 DEF Request, Frame, SdoFrames, Writes
<1>9. CASE o.phase # "init" /\ o.kind = "download"
  <2>1. PICK v \in Values : v = o.val[Len(o.parts) + 1]
    BY <1>3, <1>9
  <2>2. Request(c) = Frame("writeSeg", NoObject, Toggle(c), v, Len(o.parts) + 1 = Segments, c)
    BY <1>9, <2>1 DEF Request
  <2>3. QED
    BY <1>2, <1>5, <2>1, <2>2 DEF Frame, SdoFrames, Writes
<1>10. QED
  BY <1>6, <1>7, <1>8, <1>9

\* Frames that belong to nobody any more are still what they were.
LEMMA AgedTyped ==
  ASSUME NEW s \in Seq(SdoFrames), NEW c \in Clients
  PROVE  /\ Aged(s, c) \in Seq(SdoFrames) /\ Len(Aged(s, c)) = Len(s)
         /\ \A i \in 1..Len(s) : /\ Writes(s[i]) => Writes(Aged(s, c)[i])
                                 /\ Tells(s[i]) => Tells(Aged(s, c)[i])
<1>1. ASSUME NEW i \in 1..Len(s)
      PROVE  /\ Aged(s, c)[i] \in SdoFrames
             /\ Writes(s[i]) => Writes(Aged(s, c)[i])
             /\ Tells(s[i]) => Tells(Aged(s, c)[i])
  <2>1. s[i] \in SdoFrames
    BY <1>1
  <2>2. Aged(s, c)[i] = IF s[i].by = c THEN [s[i] EXCEPT !.by = "old"] ELSE s[i]
    BY <1>1 DEF Aged
  <2>3. CASE s[i].by = c
    BY <2>1, <2>2, <2>3 DEF SdoFrames, Writes, Tells
  <2>4. CASE s[i].by # c
    BY <2>1, <2>2, <2>4
  <2>5. QED
    BY <2>3, <2>4
<1>2. Aged(s, c) = [i \in 1..Len(s) |-> Aged(s, c)[i]]
  BY DEF Aged
<1>3. Len(s) \in Nat
  OBVIOUS
<1>4. Aged(s, c) \in [1..Len(s) -> SdoFrames]
  BY <1>1, <1>2
<1>5. Aged(s, c) \in Seq(SdoFrames) /\ Len(Aged(s, c)) = Len(s)
  BY <1>3, <1>4, SeqDef, LenProperties
<1>6. QED
  BY <1>1, <1>5

\* The rest of a queue of frames.
LEMMA TailTyped ==
  ASSUME NEW s \in Seq(SdoFrames), s # <<>>
  PROVE  /\ Head(s) = s[1] /\ s[1] \in SdoFrames /\ 1 \in 1..Len(s)
         /\ Tail(s) \in Seq(SdoFrames) /\ Len(Tail(s)) = Len(s) - 1
         /\ \A i \in 1..Len(Tail(s)) : Tail(s)[i] = s[i + 1] /\ i + 1 \in 1..Len(s)
<1>1. Len(s) \in Nat \ {0}
  BY EmptySeq
<1>2. QED
  BY <1>1, HeadTailProperties

\* A thread goes on as an operation that makes sense.
LEMMA ContinueTyped ==
  ASSUME SdoTyped, NEW c \in Clients, NEW o \in Transfers, Sensible(o), place[c] = "check", Continue(c, o)
  PROVE  SdoTyped'
<1> USE DEF SdoTyped, SdoTypeOK, Continue, server
<1>1. op' \in [Clients -> Transfers] /\ \A d \in Clients : Sensible(op'[d])
  OBVIOUS
<1>2. place' \in [Clients -> {"idle", "send", "await", "check"}]
  OBVIOUS
<1>3. answer' \in [Clients -> SdoFrames \cup {NoFrame}] /\ \A d \in Clients : Tells(answer'[d])
  BY DEF Tells, NoFrame, Frame
<1>4. /\ toServer' \in Seq(SdoFrames) /\ Len(toServer') <= MaxFrames
      /\ \A i \in 1..Len(toServer') : Writes(toServer'[i])
  BY AgedTyped
<1>5. /\ toClient' \in Seq(SdoFrames) /\ Len(toClient') <= MaxFrames
      /\ \A i \in 1..Len(toClient') : Tells(toClient'[i])
  BY AgedTyped
<1>6. \A d \in Clients : place'[d] = "await" <=> call'[d] # "out"
  OBVIOUS
<1>7. QED
  BY <1>1, <1>2, <1>3, <1>4, <1>5, <1>6

\* The server takes the first request and replies.
LEMMA AnswerTyped ==
  ASSUME SdoTyped, toServer # <<>>,
         NEW kind \in {"readInit", "readSeg", "writeInit", "writeSeg", "abort"}, NEW obj \in Names,
         NEW toggle \in 0..1, NEW data \in Data, NEW last \in BOOLEAN,
         kind = "readInit" => /\ obj \in Objects /\ (last <=> obj \in Expedited)
                              /\ obj \in Expedited => data \in Values,
         Answer(kind, obj, toggle, data, last)
  PROVE  /\ toServer' \in Seq(SdoFrames) /\ Len(toServer') <= MaxFrames
         /\ \A i \in 1..Len(toServer') : Writes(toServer'[i])
         /\ toClient' \in Seq(SdoFrames) /\ Len(toClient') <= MaxFrames
         /\ \A i \in 1..Len(toClient') : Tells(toClient'[i])
         /\ UNCHANGED <<place, op, observer>>
<1> DEFINE f == Frame(kind, obj, toggle, data, last, Head(toServer).by)
<1>1. toServer \in Seq(SdoFrames) /\ toClient \in Seq(SdoFrames)
  BY DEF SdoTyped, SdoTypeOK
<1>2. f \in SdoFrames /\ Tells(f)
  BY <1>1, TailTyped DEF Frame, SdoFrames, Tells
<1>3. /\ toServer' \in Seq(SdoFrames) /\ Len(toServer') <= MaxFrames
      /\ \A i \in 1..Len(toServer') : Writes(toServer'[i])
  <2>1. toServer' = Tail(toServer)
    BY DEF Answer
  <2>2. /\ Len(toServer) <= MaxFrames /\ MaxFrames \in Nat
        /\ \A i \in 1..Len(toServer) : Writes(toServer[i])
    BY DEF SdoTyped, SdoTypeOK, SdoFits
  <2>3. QED
    BY <1>1, <2>1, <2>2, TailTyped
<1>4. toClient' = Append(toClient, f)
  BY DEF Answer
<1> HIDE DEF f
<1>5. /\ Append(toClient, f) \in Seq(SdoFrames) /\ Len(Append(toClient, f)) = Len(toClient) + 1
      /\ \A i \in 1..Len(toClient) : Append(toClient, f)[i] = toClient[i]
      /\ Append(toClient, f)[Len(toClient) + 1] = f
  BY <1>1, <1>2, AppendProperties
<1>6. /\ toClient' \in Seq(SdoFrames) /\ Len(toClient') <= MaxFrames
      /\ \A i \in 1..Len(toClient') : Tells(toClient'[i])
  BY <1>1, <1>2, <1>4, <1>5 DEF SdoTyped, SdoTypeOK, SdoFits, Answer
<1>7. QED
  BY <1>3, <1>6 DEF Answer
\* An operation that begins, or goes on to its segments.
LEMMA BeginTyped ==
  ASSUME SdoTyped, NEW c \in Clients, NEW kind \in {"upload", "download", "ping"}, NEW obj \in Names,
         NEW val \in Contents \cup {<<>>},
         kind # "ping" => obj \in Objects, kind = "download" => val \in Contents,
         Begin(c, kind, obj, val)
  PROVE  SdoTyped'
<1> DEFINE o == [NoOp EXCEPT !.kind = kind, !.obj = obj, !.val = val]
<1> HIDE DEF o
<1>1. o.kind = kind /\ o.obj = obj /\ o.val = val /\ o.phase = "init" /\ o.parts = <<>>
  BY DEF NoOp, o
<1>2. <<>> \in Seq(Data) /\ Len(<<>>) = 0
  OBVIOUS
<1>3. o \in Transfers
  BY <1>2 DEF Transfers, NoOp, o
<1>4. Sensible(o)
  <2>1. Segments \in Nat \ {0}
    BY DEF SdoTyped, SdoTypeOK, SdoFits
  <2>2. QED
    BY <1>1, <1>2, <2>1 DEF Sensible
<1>5. op' = [op EXCEPT ![c] = o]
  BY DEF Begin, o
<1>6. op' \in [Clients -> Transfers] /\ \A d \in Clients : Sensible(op'[d])
  BY <1>3, <1>4, <1>5 DEF SdoTyped, SdoTypeOK
<1>7. QED
  BY <1>6 DEF SdoTyped, SdoTypeOK, Begin, observer, frames, server

\* The end of an operation, the beginning of its segments, and one more segment.
LEMMA NextOperations ==
  ASSUME SdoTyped, NEW c \in Clients
  PROVE  /\ NoOp \in Transfers /\ Sensible(NoOp)
         /\ op[c].kind \in {"upload", "download"} /\ op[c].obj \in Segmented /\ op[c].phase = "init" =>
              [op[c] EXCEPT !.phase = "segment"] \in Transfers /\ Sensible([op[c] EXCEPT !.phase = "segment"])
         /\ \A d \in Data :
              op[c].phase = "segment" /\ (op[c].kind = "download" =>
                                            Len(op[c].parts) + 1 # Segments /\ d = op[c].val[Len(op[c].parts) + 1]) =>
              /\ [op[c] EXCEPT !.parts = Append(@, d)] \in Transfers
              /\ Sensible([op[c] EXCEPT !.parts = Append(@, d)])
<1>1. op[c] \in Transfers /\ Sensible(op[c])
  BY DEF SdoTyped, SdoTypeOK
<1>2. NoOp \in Transfers /\ Sensible(NoOp)
  <2>1. <<>> \in Seq(Data) /\ 0 \in Data /\ NoObject \in Names
    BY DEF Data, Names
  <2>2. QED
    BY <2>1 DEF NoOp, Transfers, Sensible
<1>3. ASSUME op[c].kind \in {"upload", "download"}, op[c].obj \in Segmented, op[c].phase = "init"
      PROVE  [op[c] EXCEPT !.phase = "segment"] \in Transfers /\ Sensible([op[c] EXCEPT !.phase = "segment"])
  BY <1>1, <1>3 DEF Transfers, Sensible
<1>4. ASSUME NEW d \in Data, op[c].phase = "segment",
             op[c].kind = "download" => Len(op[c].parts) + 1 # Segments /\ d = op[c].val[Len(op[c].parts) + 1]
      PROVE  /\ [op[c] EXCEPT !.parts = Append(@, d)] \in Transfers
             /\ Sensible([op[c] EXCEPT !.parts = Append(@, d)])
  <2> DEFINE parts == Append(op[c].parts, d)
             o == [op[c] EXCEPT !.parts = parts]
  <2>1. op[c].parts \in Seq(Data)
    BY <1>1 DEF Transfers
  <2>2. /\ parts \in Seq(Data) /\ Len(parts) = Len(op[c].parts) + 1 /\ parts[Len(op[c].parts) + 1] = d
        /\ \A i \in 1..Len(op[c].parts) : parts[i] = op[c].parts[i]
    BY <2>1, AppendProperties
  <2> HIDE DEF parts
  <2>3. o \in Transfers /\ o.parts = parts /\ o.kind = op[c].kind /\ o.obj = op[c].obj /\ o.val = op[c].val /\ o.phase = op[c].phase
    BY <1>1, <2>2 DEF Transfers
  <2>4. Len(op[c].parts) \in Nat /\ Segments \in Nat
    BY <2>1 DEF SdoTyped, SdoTypeOK, SdoFits
  <2>5. op[c].kind = "download" => /\ op[c].val \in Contents /\ Len(parts) < Segments
                                   /\ \A i \in 1..Len(parts) : parts[i] = op[c].val[i]
    BY <1>1, <1>4, <2>2, <2>4 DEF Sensible
  <2> HIDE DEF o
  <2>6. Sensible(o)
    BY <1>1, <1>4, <2>3, <2>5 DEF Sensible
  <2>7. QED
    BY <2>3, <2>6 DEF o, parts
<1>5. QED
  BY <1>2, <1>3, <1>4

LEMMA SdoTypedInit == ASSUME SdoFits PROVE SdoInit => SdoTyped
<1> SUFFICES ASSUME SdoInit PROVE SdoTyped
  OBVIOUS
<1>1. NoOp \in Transfers /\ Sensible(NoOp)
  <2>1. <<>> \in Seq(Data) /\ 0 \in Data /\ NoObject \in Names
    BY DEF Data, Names
  <2>2. QED
    BY <2>1 DEF NoOp, Transfers, Sensible
<1>2. /\ place \in [Clients -> {"idle", "send", "await", "check"}]
      /\ op \in [Clients -> Transfers] /\ \A c \in Clients : Sensible(op[c])
  BY <1>1 DEF SdoInit
<1>3. /\ call \in [Clients -> {"out", "waiting", "open", "woken", "expired"}]
      /\ answer \in [Clients -> SdoFrames \cup {NoFrame}] /\ \A c \in Clients : Tells(answer[c])
      /\ answered \in [Clients -> BOOLEAN]
      /\ \A c \in Clients : place[c] = "await" <=> call[c] # "out"
  BY DEF SdoInit, Obs!Init, Tells, NoFrame, Frame
<1>4. /\ toServer \in Seq(SdoFrames) /\ Len(toServer) <= MaxFrames
      /\ \A i \in 1..Len(toServer) : Writes(toServer[i])
      /\ toClient \in Seq(SdoFrames) /\ Len(toClient) <= MaxFrames
      /\ \A i \in 1..Len(toClient) : Tells(toClient[i])
  BY DEF SdoInit, SdoFits
<1>5. dict \in [Objects -> Contents]
  BY DEF SdoInit
<1>6. session \in Sessions /\ session.mode = "idle"
  <2>1. <<>> \in Seq(Data) /\ NoObject \in Names
    BY DEF Names
  <2>2. QED
    BY <2>1 DEF SdoInit, Idle, Sessions
<1>7. QED
  BY <1>2, <1>3, <1>4, <1>5, <1>6 DEF SdoTyped, SdoTypeOK

\* What the server does with the first request.
LEMMA ServerTyped == ASSUME SdoTyped, ServerStep PROVE SdoTyped'
<1> DEFINE f == Head(toServer)
           Passed == /\ toServer' \in Seq(SdoFrames) /\ Len(toServer') <= MaxFrames
                     /\ \A i \in 1..Len(toServer') : Writes(toServer'[i])
                     /\ toClient' \in Seq(SdoFrames) /\ Len(toClient') <= MaxFrames
                     /\ \A i \in 1..Len(toClient') : Tells(toClient'[i])
                     /\ UNCHANGED <<place, op, observer>>
<1>1. toServer # <<>>
  BY DEF ServerStep, ServeReadInit, ServeReadSegment, ServeWriteInit, ServeWriteSegment, ServerAborts, Asked
<1>2. f = toServer[1] /\ f \in SdoFrames /\ Writes(f)
  BY <1>1, TailTyped DEF SdoTyped, SdoTypeOK
<1>3. f.obj \in Names /\ f.toggle \in 0..1 /\ f.data \in Data /\ f.last \in BOOLEAN
  BY <1>2 DEF SdoFrames
<1>4. Idle \in Sessions /\ Idle.mode = "idle"
  <2>1. <<>> \in Seq(Data) /\ NoObject \in Names
    BY DEF Names
  <2>2. QED
    BY <2>1 DEF Idle, Sessions
<1>5. 0 \in Data /\ Values \subseteq Data /\ Objects \subseteq Names /\ 0 \in 0..1 /\ Segments \in Nat \ {0}
  BY DEF Data, Names, SdoTyped, SdoTypeOK, SdoFits
<1>6. session.parts \in Seq(Data) /\ session.obj \in Names
  BY DEF SdoTyped, SdoTypeOK, Sessions
<1>7. ASSUME NEW mode \in {"reading", "writing"}, NEW o \in Objects
      PROVE  /\ [mode |-> mode, obj |-> o, parts |-> <<>>] \in Sessions
             /\ \A i \in 1..Len([mode |-> mode, obj |-> o, parts |-> <<>>].parts) : FALSE
  <2>1. <<>> \in Seq(Data) /\ Len(<<>>) = 0
    OBVIOUS
  <2>2. QED
    BY <1>5, <2>1 DEF Sessions
<1>8. ASSUME NEW v \in Data
      PROVE  /\ [session EXCEPT !.parts = Append(@, v)] \in Sessions
             /\ [session EXCEPT !.parts = Append(@, v)].mode = session.mode
             /\ [session EXCEPT !.parts = Append(@, v)].obj = session.obj
             /\ [session EXCEPT !.parts = Append(@, v)].parts = Append(session.parts, v)
             /\ Append(session.parts, v) \in Seq(Data)
             /\ Len(Append(session.parts, v)) = Len(session.parts) + 1
             /\ v \in Values /\ (\A i \in 1..Len(session.parts) : session.parts[i] \in Values) =>
                  \A i \in 1..Len(Append(session.parts, v)) : Append(session.parts, v)[i] \in Values
  <2> DEFINE parts == Append(session.parts, v)
  <2>1. /\ parts \in Seq(Data) /\ Len(parts) = Len(session.parts) + 1 /\ parts[Len(session.parts) + 1] = v
        /\ \A i \in 1..Len(session.parts) : parts[i] = session.parts[i]
    BY <1>6, <1>8, AppendProperties
  <2>2. Len(session.parts) \in Nat
    BY <1>6
  <2> HIDE DEF parts
  <2>3. v \in Values /\ (\A i \in 1..Len(session.parts) : session.parts[i] \in Values) =>
          \A i \in 1..Len(parts) : parts[i] \in Values
    BY <2>1, <2>2
  <2>4. LET s == [session EXCEPT !.parts = parts] IN
        s \in Sessions /\ s.mode = session.mode /\ s.obj = session.obj /\ s.parts = parts
    BY <2>1 DEF SdoTyped, SdoTypeOK, Sessions
  <2>5. QED
    BY <2>1, <2>3, <2>4 DEF parts
<1>9. CASE ServeReadInit
  <2> DEFINE o == f.obj
  <2>1. o \in Objects
    BY <1>9 DEF ServeReadInit
  <2>2. o \in Expedited => dict[o][1] \in Values
    BY <1>5, <2>1 DEF SdoTyped, SdoTypeOK, Contents
  <2>3. Answer("readInit", o, 0, IF o \in Expedited THEN dict[o][1] ELSE 0, o \in Expedited)
    BY <1>9 DEF ServeReadInit
  <2>4. (IF o \in Expedited THEN dict[o][1] ELSE 0) \in Data /\ (o \in Expedited) \in BOOLEAN
    BY <1>5, <2>2
  <2>5. Passed
    BY <1>1, <1>3, <1>5, <2>1, <2>2, <2>3, <2>4, AnswerTyped
  <2>6. /\ session' \in Sessions /\ session'.mode # "writing"
        /\ session'.mode # "idle" => session'.obj \in Segmented /\ Len(session'.parts) < Segments
    BY <1>4, <1>5, <1>7, <1>9, <2>1 DEF ServeReadInit, Objects
  <2>7. QED
    BY <1>9, <2>5, <2>6 DEF SdoTyped, SdoTypeOK, ServeReadInit, observer
<1>10. CASE ServeReadSegment
  <2> DEFINE n == Len(session.parts) + 1
             v == dict[session.obj][n]
             last == n = Segments
  <2>1. session.mode = "reading" /\ session.obj \in Segmented /\ session.obj \in Objects
    BY <1>10 DEF ServeReadSegment, InSession, SdoTyped, SdoTypeOK, Objects
  <2>2. Len(session.parts) \in Nat /\ n \in 1..Segments
    BY <1>5, <1>6, <2>1 DEF SdoTyped, SdoTypeOK
  <2>3. v \in Values /\ v \in Data
    BY <1>5, <2>1, <2>2 DEF SdoTyped, SdoTypeOK, Contents
  <2>4. Answer("readSeg", session.obj, f.toggle, v, last)
    BY <1>10 DEF ServeReadSegment
  <2>5. Passed
    BY <1>1, <1>3, <1>6, <2>3, <2>4, AnswerTyped
  <2>6. session' = IF last THEN Idle ELSE [session EXCEPT !.parts = Append(@, v)]
    BY <1>10 DEF ServeReadSegment
  <2> HIDE DEF v
  <2>7. /\ session' \in Sessions /\ session'.mode # "writing"
        /\ session'.mode # "idle" => session'.obj \in Segmented /\ Len(session'.parts) < Segments
    BY <1>4, <1>5, <1>8, <2>1, <2>2, <2>3, <2>6
  <2>8. QED
    BY <1>10, <2>5, <2>7 DEF SdoTyped, SdoTypeOK, ServeReadSegment, observer
<1>11. CASE ServeWriteInit
  <2> DEFINE o == f.obj
  <2>1. o \in Objects
    BY <1>2, <1>11 DEF ServeWriteInit, Asked, Writes
  <2>2. Answer("writeInit", o, 0, 0, TRUE)
    BY <1>11 DEF ServeWriteInit
  <2>3. Passed
    BY <1>1, <1>3, <1>5, <2>2, AnswerTyped
  <2>4. dict' \in [Objects -> Contents]
    <3>1. o \in Expedited => f.data \in Values /\ Plain(f.data) \in Contents
      BY <1>2, <1>11 DEF ServeWriteInit, Asked, Writes, Plain, Contents
    <3>2. QED
      BY <1>11, <2>1, <3>1 DEF ServeWriteInit, SdoTyped, SdoTypeOK
  <2>5. /\ session' \in Sessions /\ session'.mode # "reading"
        /\ session'.mode # "idle" => session'.obj \in Segmented /\ \A i \in 1..Len(session'.parts) : FALSE
    BY <1>4, <1>7, <1>11, <2>1 DEF ServeWriteInit, Objects
  <2>6. QED
    BY <2>3, <2>4, <2>5 DEF SdoTyped, SdoTypeOK, observer
<1>12. CASE ServeWriteSegment
  <2> DEFINE parts == Append(session.parts, f.data)
  <2>1. session.mode = "writing" /\ session.obj \in Segmented /\ session.obj \in Objects
    BY <1>12 DEF ServeWriteSegment, InSession, SdoTyped, SdoTypeOK, Objects
  <2>2. f.data \in Values /\ f.data \in Data
    BY <1>2, <1>5, <1>12 DEF ServeWriteSegment, Asked, Writes
  <2>3. parts \in Seq(Data) /\ \A i \in 1..Len(parts) : parts[i] \in Values
    BY <1>8, <2>1, <2>2 DEF SdoTyped
  <2>4. Answer("writeSeg", session.obj, f.toggle, 0, TRUE)
    BY <1>12 DEF ServeWriteSegment
  <2>5. Passed
    BY <1>1, <1>3, <1>5, <1>6, <2>4, AnswerTyped
  <2>6. /\ session' = IF f.last THEN Idle ELSE [session EXCEPT !.parts = parts]
        /\ dict' = IF f.last /\ Len(parts) = Segments THEN [dict EXCEPT ![session.obj] = parts] ELSE dict
    BY <1>12 DEF ServeWriteSegment
  <2>7. /\ session' \in Sessions /\ session'.mode # "reading"
        /\ session'.mode # "idle" => session'.obj \in Segmented /\ \A i \in 1..Len(session'.parts) : session'.parts[i] \in Values
    BY <1>4, <1>8, <2>1, <2>2, <2>3, <2>6
  <2> HIDE DEF parts
  <2>8. Len(parts) = Segments => parts \in Contents
    BY <2>3 DEF Contents
  <2>9. dict' \in [Objects -> Contents]
    BY <2>1, <2>6, <2>8 DEF SdoTyped, SdoTypeOK
  <2>10. QED
    BY <2>5, <2>7, <2>9 DEF SdoTyped, SdoTypeOK, observer
<1>13. CASE ServerAborts
  <2>1. Answer("abort", f.obj, 0, 0, TRUE)
    BY <1>13 DEF ServerAborts
  <2>2. Passed
    BY <1>1, <1>3, <1>5, <2>1, AnswerTyped
  <2>3. QED
    BY <1>4, <1>13, <2>2 DEF SdoTyped, SdoTypeOK, ServerAborts, observer
<1>14. QED
  BY <1>9, <1>10, <1>11, <1>12, <1>13 DEF ServerStep

\* Every step keeps the types.
LEMMA SdoTypedStep == ASSUME SdoTyped, SdoNext PROVE SdoTyped'
<1>1. ASSUME NEW c \in Clients, Upload(c) \/ Download(c) \/ Ping(c) PROVE SdoTyped'
  <2>1. NoObject \in Names /\ Objects \subseteq Names /\ Expedited \subseteq Objects /\ Segmented \subseteq Objects
    BY DEF Names, Objects
  <2>2. \A v \in Values : Plain(v) \in Contents
    BY DEF Plain, Contents
  <2>3. CASE Upload(c) \/ Ping(c)
    BY <2>1, <2>3, BeginTyped DEF Upload, Ping
  <2>4. CASE Download(c)
    BY <2>1, <2>2, <2>4, BeginTyped DEF Download
  <2>5. QED
    BY <1>1, <2>2, <2>3, <2>4
<1>2. ASSUME NEW c \in Clients, Send(c) PROVE SdoTyped'
  <2>1. toServer \in Seq(SdoFrames)
    BY DEF SdoTyped, SdoTypeOK
  <2>2. Request(c) \in SdoFrames /\ Writes(Request(c))
    BY RequestTyped
  <2>3. toServer' = Append(toServer, Request(c)) /\ Len(toServer) < MaxFrames
    BY <1>2 DEF Send
  <2>4. /\ toServer' \in Seq(SdoFrames) /\ Len(toServer') = Len(toServer) + 1
        /\ \A i \in 1..Len(toServer) : toServer'[i] = toServer[i]
        /\ toServer'[Len(toServer) + 1] = Request(c)
    BY <2>1, <2>2, <2>3, AppendProperties
  <2>5. Len(toServer') <= MaxFrames /\ \A i \in 1..Len(toServer') : Writes(toServer'[i])
    BY <2>1, <2>2, <2>3, <2>4 DEF SdoTyped, SdoTypeOK, SdoFits
  <2>6. /\ answer' \in [Clients -> SdoFrames \cup {NoFrame}] /\ \A d \in Clients : Tells(answer'[d])
        /\ answered' \in [Clients -> BOOLEAN]
    BY <1>2 DEF SdoTyped, SdoTypeOK, Send, Obs!Call, Tells, NoFrame, Frame
  <2>7. /\ place' \in [Clients -> {"idle", "send", "await", "check"}]
        /\ call' \in [Clients -> {"out", "waiting", "open", "woken", "expired"}]
        /\ \A d \in Clients : place'[d] = "await" <=> call'[d] # "out"
    BY <1>2 DEF SdoTyped, SdoTypeOK, Send, Obs!Call
  <2>8. QED
    BY <1>2, <2>4, <2>5, <2>6, <2>7 DEF SdoTyped, SdoTypeOK, Send, server
<1>3. ASSUME NEW c \in Clients, SendFails(c) PROVE SdoTyped'
  <2>1. op' \in [Clients -> Transfers] /\ \A d \in Clients : Sensible(op'[d])
    BY <1>3, NextOperations DEF SdoTyped, SdoTypeOK, SendFails
  <2>2. QED
    BY <1>3, <2>1 DEF SdoTyped, SdoTypeOK, SendFails, observer, frames, server
<1>4. ASSUME NEW c \in Clients, OpenWindow(c) \/ Expire(c) PROVE SdoTyped'
  <2>1. /\ call' \in [Clients -> {"out", "waiting", "open", "woken", "expired"}]
        /\ \A d \in Clients : place[d] = "await" <=> call'[d] # "out"
        /\ UNCHANGED <<answer, answered>> /\ UNCHANGED <<place, op, frames, server>>
    BY <1>4 DEF SdoTyped, SdoTypeOK, OpenWindow, Obs!OpenWindow, Expire, Obs!Expire
  <2>2. QED
    BY <2>1 DEF SdoTyped, SdoTypeOK, frames, server
<1>5. ASSUME NEW c \in Clients, Return(c) PROVE SdoTyped'
  BY <1>5 DEF SdoTyped, SdoTypeOK, Return, Obs!Return, frames, server
<1>6. ASSUME NEW c \in Clients, PingAnswered(c) \/ TransferFails(c) PROVE SdoTyped'
  BY <1>6, NextOperations, ContinueTyped DEF PingAnswered, TransferFails, Answered
<1>7. ASSUME NEW c \in Clients, UploadInitiated(c) PROVE SdoTyped'
  <2> DEFINE o == IF reply(c).last THEN NoOp ELSE [op[c] EXCEPT !.phase = "segment"]
  <2>1. /\ place[c] = "check" /\ op[c].kind = "upload" /\ op[c].phase = "init"
        /\ answer[c].kind = "readInit" /\ answer[c].obj = op[c].obj /\ Continue(c, o)
    BY <1>7 DEF UploadInitiated, Answered, UploadMatches, reply
  <2>2. ~answer[c].last => op[c].obj \in Segmented
    BY <2>1 DEF SdoTyped, Tells, Objects
  <2>3. o \in Transfers /\ Sensible(o)
    BY <2>1, <2>2, NextOperations DEF reply
  <2> HIDE DEF o
  <2>4. QED
    BY <2>1, <2>3, ContinueTyped
<1>8. ASSUME NEW c \in Clients, DownloadInitiated(c) PROVE SdoTyped'
  <2> DEFINE o == IF op[c].obj \in Expedited THEN NoOp ELSE [op[c] EXCEPT !.phase = "segment"]
  <2>1. place[c] = "check" /\ op[c].kind = "download" /\ op[c].phase = "init" /\ Continue(c, o)
    BY <1>8 DEF DownloadInitiated, Answered
  <2>2. op[c].obj \in Objects
    BY <2>1 DEF SdoTyped, Sensible
  <2>3. o \in Transfers /\ Sensible(o)
    BY <2>1, <2>2, NextOperations DEF Objects
  <2> HIDE DEF o
  <2>4. QED
    BY <2>1, <2>3, ContinueTyped
<1>9. ASSUME NEW c \in Clients, UploadSegment(c) PROVE SdoTyped'
  <2> DEFINE o == IF reply(c).last THEN NoOp ELSE [op[c] EXCEPT !.parts = Append(@, reply(c).data)]
  <2>1. /\ place[c] = "check" /\ op[c].kind = "upload" /\ op[c].phase = "segment"
        /\ answer[c].kind = "readSeg" /\ Continue(c, o)
    BY <1>9 DEF UploadSegment, Answered, SegmentMatches, reply
  <2>2. answer[c].data \in Data
    BY <2>1 DEF SdoTyped, SdoTypeOK, SdoFrames, NoFrame, Frame
  <2>3. o \in Transfers /\ Sensible(o)
    BY <2>1, <2>2, NextOperations DEF reply
  <2> HIDE DEF o
  <2>4. QED
    BY <2>1, <2>3, ContinueTyped
<1>10. ASSUME NEW c \in Clients, DownloadSegment(c) PROVE SdoTyped'
  <2> DEFINE d == op[c].val[Len(op[c].parts) + 1]
             o == IF Len(op[c].parts) + 1 = Segments THEN NoOp ELSE [op[c] EXCEPT !.parts = Append(@, d)]
  <2>1. place[c] = "check" /\ op[c].kind = "download" /\ op[c].phase = "segment" /\ Continue(c, o)
    BY <1>10 DEF DownloadSegment, Answered
  <2>2. d \in Data
    <3>1. op[c] \in Transfers /\ Sensible(op[c]) /\ Segments \in Nat
      BY DEF SdoTyped, SdoTypeOK, SdoFits
    <3>2. op[c].parts \in Seq(Data) /\ op[c].val \in [1..Segments -> Values] /\ Len(op[c].parts) < Segments
      BY <2>1, <3>1 DEF Transfers, Sensible, Contents
    <3>3. Len(op[c].parts) + 1 \in 1..Segments
      BY <3>1, <3>2
    <3>4. QED
      BY <3>2, <3>3 DEF Data
  <2> HIDE DEF d
  <2>3. o \in Transfers /\ Sensible(o)
    BY <2>1, <2>2, NextOperations DEF d
  <2> HIDE DEF o
  <2>4. QED
    BY <2>1, <2>3, ContinueTyped
<1>11. ASSUME Notify PROVE SdoTyped'
  <2>1. toClient \in Seq(SdoFrames) /\ toClient # <<>>
    BY <1>11 DEF SdoTyped, SdoTypeOK, Notify
  <2>2. Head(toClient) \in SdoFrames /\ Tells(Head(toClient))
    BY <2>1, TailTyped DEF SdoTyped
  <2>3. /\ toClient' \in Seq(SdoFrames) /\ Len(toClient') <= MaxFrames
        /\ \A i \in 1..Len(toClient') : Tells(toClient'[i])
    BY <1>11, <2>1, TailTyped DEF SdoTyped, SdoTypeOK, SdoFits, Notify
  <2>4. /\ call' \in [Clients -> {"out", "waiting", "open", "woken", "expired"}]
        /\ \A d \in Clients : place[d] = "await" <=> call'[d] # "out"
        /\ answer' \in [Clients -> SdoFrames \cup {NoFrame}] /\ \A d \in Clients : Tells(answer'[d])
        /\ UNCHANGED answered
    BY <1>11, <2>2, ZenonT(40) DEF SdoTyped, SdoTypeOK, Notify, Obs!Signal, Obs!HasWindow, observer
  <2>5. QED
    BY <1>11, <2>3, <2>4 DEF SdoTyped, SdoTypeOK, Notify, server
<1>12. ASSUME LoseRequest PROVE SdoTyped'
  <2>1. toServer \in Seq(SdoFrames) /\ toServer # <<>>
    BY <1>12 DEF SdoTyped, SdoTypeOK, LoseRequest
  <2>2. /\ toServer' \in Seq(SdoFrames) /\ Len(toServer') <= MaxFrames
        /\ \A i \in 1..Len(toServer') : Writes(toServer'[i])
    BY <1>12, <2>1, TailTyped DEF SdoTyped, SdoTypeOK, SdoFits, LoseRequest
  <2>3. QED
    BY <1>12, <2>2 DEF SdoTyped, SdoTypeOK, LoseRequest, observer, server
<1>13. QED
  BY <1>1, <1>2, <1>3, <1>4, <1>5, <1>6, <1>7, <1>8, <1>9, <1>10, <1>11, <1>12, ServerTyped
     DEF SdoNext, ClientStep

-----------------------------------------------------------------------------
(* One thread whose transfers end with their reply, or with nothing under way. *)

\* With no frame under way and no reply to look at, nothing but the segment in
\* turn is at stake.
LEMMA NothingUnderWay ==
  ASSUME NEW c \in Clients, Uploaded(c)', toServer' = <<>>, toClient' = <<>>, place'[c] = "send" => Ready(c)',
         place'[c] # "check", call'[c] # "woken"
  PROVE  InTurn(c)'
<1>1. Len(<<>>) + Len(<<>>) <= 1
  OBVIOUS
<1>2. QED
  BY <1>1 DEF InTurn

\* What was received stays so while nobody writes.
LEMMA UploadedKept ==
  ASSUME NEW c \in Clients, InTurn(c), UNCHANGED <<op, dict>>
  PROVE  Uploaded(c)'
BY DEF InTurn, Uploaded

\* The frames are gone when the call is over.
LEMMA QuietOutside ==
  ASSUME SdoTyped, NEW c \in Clients, InTurn(c), place[c] # "await"
  PROVE  call[c] = "out" /\ toServer = <<>> /\ toClient = <<>>
BY DEF SdoTyped, SdoTypeOK, InTurn

\* With one thread, the thread is in turn after each step of its own.
LEMMA CallInTurn ==
  ASSUME SdoTyped, Timely, NEW c \in Clients, InTurn(c),
         \/ Upload(c) \/ Download(c) \/ Ping(c) \/ Send(c) \/ SendFails(c) \/ OpenWindow(c) \/ Expire(c) \/ Return(c)
  PROVE  InTurn(c)'
<1>1. ASSUME Upload(c) \/ Download(c) \/ Ping(c) PROVE InTurn(c)'
  <2>1. /\ place[c] = "idle" /\ place'[c] = "send" /\ op'[c].phase = "init"
        /\ UNCHANGED <<observer, frames, server>>
    BY <1>1, ZenonT(40) DEF Upload, Download, Ping, Begin, SdoTyped, SdoTypeOK, NoOp
  <2>2. call[c] = "out" /\ toServer = <<>> /\ toClient = <<>>
    BY <2>1, QuietOutside
  <2>3. QED
    BY <2>1, <2>2, NothingUnderWay DEF Ready, Uploaded, observer, frames
<1>2. CASE Send(c)
  <2>1. place[c] = "send" /\ toServer = <<>> /\ toClient = <<>> /\ Ready(c)
    BY <1>2, QuietOutside DEF Send, InTurn
  <2>2. /\ toServer' = Append(toServer, Request(c)) /\ toClient' = <<>> /\ UNCHANGED <<op, dict, session>>
        /\ place'[c] = "await" /\ call'[c] = "waiting"
    BY <1>2, <2>1 DEF Send, Obs!Call, server, SdoTyped, SdoTypeOK
  <2>3. toServer' = <<Request(c)>> /\ Len(toServer') = 1 /\ toServer'[1] = Request(c) /\ Len(toClient') = 0
    BY <2>1, <2>2
  <2>4. Request(c)' = Request(c) /\ Ready(c)' /\ Uploaded(c)'
    BY <2>1, <2>2, UploadedKept DEF Request, Toggle, Ready, SessionOf
  <2>5. QED
    BY <2>2, <2>3, <2>4 DEF InTurn
<1>3. CASE SendFails(c)
  <2>1. place[c] = "send" /\ place'[c] = "idle" /\ op'[c].kind = "none" /\ UNCHANGED <<observer, frames>>
    BY <1>3 DEF SendFails, SdoTyped, SdoTypeOK, NoOp
  <2>2. call[c] = "out" /\ toServer = <<>> /\ toClient = <<>>
    BY <2>1, QuietOutside
  <2>3. QED
    BY <2>1, <2>2, NothingUnderWay DEF observer, frames, Uploaded
<1>4. CASE OpenWindow(c)
  <2>1. /\ call[c] = "waiting" /\ call'[c] = "open" /\ place[c] = "await"
        /\ UNCHANGED <<answer, answered, place, op, toServer, toClient, dict, session>>
    BY <1>4 DEF OpenWindow, Obs!OpenWindow, frames, server, SdoTyped, SdoTypeOK
  <2>2. QED
    BY <2>1, UploadedKept, ZenonT(40) DEF InTurn, Ready, SessionOf, Request, Toggle, TrueReply
<1>5. CASE Expire(c)
  <2>1. /\ call'[c] = "expired" /\ place'[c] = "await" /\ toServer' = <<>> /\ toClient' = <<>>
        /\ UNCHANGED <<op, dict>>
    BY <1>5 DEF Expire, Obs!Expire, frames, server, SdoTyped, SdoTypeOK
  <2>2. QED
    BY <2>1, UploadedKept, NothingUnderWay
<1>6. CASE Return(c)
  <2>1. /\ call[c] \in {"woken", "expired"} /\ call'[c] = "out" /\ place'[c] = "check"
        /\ answered'[c] = (call[c] = "woken")
        /\ UNCHANGED <<answer, op, toServer, toClient, dict, session>>
    BY <1>6 DEF Return, Obs!Return, frames, server, SdoTyped, SdoTypeOK
  <2>2. toServer = <<>> /\ toClient = <<>>
    BY <2>1 DEF InTurn
  <2>3. answered'[c] => TrueReply(c, answer[c])
    BY <2>1 DEF InTurn
  <2>4. TrueReply(c, answer[c]) => TrueReply(c, answer[c])'
    BY <2>1 DEF TrueReply, SessionOf
  <2>5. Len(toServer') + Len(toClient') <= 1 /\ Uploaded(c)'
    BY <2>1, <2>2, UploadedKept
  <2>6. QED
    BY <2>1, <2>2, <2>3, <2>4, <2>5 DEF InTurn
<1>7. QED
  BY <1>1, <1>2, <1>3, <1>4, <1>5, <1>6

\* What follows an accepted reply: the server expects the next segment.
LEMMA ReplyInTurn ==
  ASSUME SdoTyped, NEW c \in Clients, InTurn(c),
         \/ PingAnswered(c) \/ UploadInitiated(c) \/ UploadSegment(c)
         \/ DownloadInitiated(c) \/ DownloadSegment(c) \/ TransferFails(c)
  PROVE  InTurn(c)'
<1>1. place[c] = "check"
  BY DEF PingAnswered, UploadInitiated, UploadSegment, DownloadInitiated, DownloadSegment, TransferFails, Answered
<1>2. call[c] = "out" /\ toServer = <<>> /\ toClient = <<>>
  BY <1>1, QuietOutside
<1>3. Segments \in Nat \ {0} /\ op[c] \in Transfers /\ Sensible(op[c]) /\ Len(op[c].parts) \in Nat
  BY DEF SdoTyped, SdoTypeOK, SdoFits, Transfers
<1>4. ASSUME NEW o, Continue(c, o),
             o # NoOp => (o.phase = "segment" => Len(o.parts) < Segments /\ session = SessionOf(o, o.parts)),
             o # NoOp => (o.kind = "upload" => \A i \in 1..Len(o.parts) : o.parts[i] = dict[o.obj][i])
      PROVE  InTurn(c)'
  <2>1. /\ place'[c] = (IF o = NoOp THEN "idle" ELSE "send") /\ op'[c] = o /\ call'[c] = "out"
        /\ UNCHANGED <<session, dict>>
    BY <1>2, <1>4 DEF Continue, server, SdoTyped, SdoTypeOK
  <2>2. toServer' = <<>> /\ toClient' = <<>>
    <3>1. \A s : s = <<>> => Aged(s, c) = <<>>
      BY DEF Aged
    <3>2. QED
      BY <1>2, <1>4, <3>1 DEF Continue
  <2>3. place'[c] = "send" => Ready(c)'
    BY <1>4, <2>1 DEF Ready, SessionOf
  <2>4. Uploaded(c)'
    BY <1>4, <2>1 DEF Uploaded, NoOp
  <2>5. QED
    BY <2>1, <2>2, <2>3, <2>4, NothingUnderWay
<1>5. ASSUME answered[c] PROVE TrueReply(c, answer[c])
  BY <1>1, <1>5 DEF InTurn
<1>6. CASE PingAnswered(c) \/ TransferFails(c)
  BY <1>4, <1>6 DEF PingAnswered, TransferFails
<1>7. CASE UploadInitiated(c)
  <2> DEFINE o == [op[c] EXCEPT !.phase = "segment"]
  <2>1. /\ Continue(c, IF answer[c].last THEN NoOp ELSE o)
        /\ answered[c] /\ op[c].kind = "upload" /\ op[c].phase = "init" /\ answer[c].kind = "readInit"
    BY <1>7 DEF UploadInitiated, UploadMatches, Answered, reply
  <2>2. o.kind = "upload" /\ o.obj = op[c].obj /\ o.parts = <<>>
    BY <1>3, <2>1 DEF Transfers, Sensible
  <2>3. ~answer[c].last => session = SessionOf(op[c], <<>>)
    BY <1>5, <2>1 DEF TrueReply
  <2>4. SessionOf(op[c], <<>>) = SessionOf(o, o.parts)
    BY <2>1, <2>2 DEF SessionOf
  <2>5. Len(o.parts) < Segments /\ Len(o.parts) = 0
    BY <1>3, <2>2
  <2> HIDE DEF o
  <2>6. QED
    BY <1>4, <2>1, <2>3, <2>4, <2>5
<1>8. CASE DownloadInitiated(c)
  <2> DEFINE o == [op[c] EXCEPT !.phase = "segment"]
  <2>1. /\ Continue(c, IF op[c].obj \in Expedited THEN NoOp ELSE o)
        /\ answered[c] /\ op[c].kind = "download" /\ op[c].phase = "init" /\ answer[c].kind = "writeInit"
    BY <1>8 DEF DownloadInitiated, DownloadMatches, Answered, reply
  <2>2. o.kind = "download" /\ o.obj = op[c].obj /\ o.parts = <<>>
    BY <1>3, <2>1 DEF Transfers, Sensible
  <2>3. op[c].obj \notin Expedited => session = SessionOf(op[c], <<>>)
    BY <1>5, <2>1 DEF TrueReply
  <2>4. SessionOf(op[c], <<>>) = SessionOf(o, o.parts)
    BY <2>1, <2>2 DEF SessionOf
  <2>5. Len(o.parts) < Segments /\ Len(o.parts) = 0
    BY <1>3, <2>2
  <2> HIDE DEF o
  <2>6. QED
    BY <1>4, <2>1, <2>3, <2>4, <2>5
<1>9. CASE UploadSegment(c)
  <2> DEFINE o == [op[c] EXCEPT !.parts = Append(@, answer[c].data)]
  <2>1. /\ Continue(c, IF answer[c].last THEN NoOp ELSE o)
        /\ answered[c] /\ op[c].kind = "upload" /\ op[c].phase = "segment" /\ answer[c].kind = "readSeg"
    BY <1>9 DEF UploadSegment, SegmentMatches, Answered, reply
  <2>2. answer[c].data \in Data /\ op[c].parts \in Seq(Data)
    BY <1>3, <2>1 DEF SdoTyped, SdoTypeOK, SdoFrames, NoFrame, Frame, Transfers
  <2>3. o.kind = "upload" /\ o.obj = op[c].obj /\ o.parts = Append(op[c].parts, answer[c].data)
    BY <1>3, <2>1 DEF Transfers
  <2>4. /\ answer[c].data = dict[op[c].obj][Len(op[c].parts) + 1]
        /\ ~answer[c].last => /\ Len(op[c].parts) + 1 # Segments /\ Len(op[c].parts) < Segments
                              /\ session = SessionOf(op[c], Append(op[c].parts, answer[c].data))
    BY <1>5, <2>1 DEF TrueReply
  <2>5. SessionOf(op[c], Append(op[c].parts, answer[c].data)) = SessionOf(o, o.parts)
    BY <2>1, <2>3 DEF SessionOf
  <2>6. /\ Len(o.parts) = Len(op[c].parts) + 1 /\ o.parts[Len(op[c].parts) + 1] = answer[c].data
        /\ \A i \in 1..Len(op[c].parts) : o.parts[i] = op[c].parts[i]
    BY <2>2, <2>3, AppendProperties
  <2> HIDE DEF o
  <2>7. ~answer[c].last => Len(o.parts) < Segments
    BY <1>3, <2>4, <2>6
  <2>8. \A i \in 1..Len(op[c].parts) : op[c].parts[i] = dict[op[c].obj][i]
    BY <2>1 DEF InTurn, Uploaded
  <2>9. \A i \in 1..Len(o.parts) : o.parts[i] = dict[o.obj][i]
    BY <1>3, <2>3, <2>4, <2>6, <2>8
  <2>10. QED
    BY <1>4, <2>1, <2>4, <2>5, <2>7, <2>9
<1>10. CASE DownloadSegment(c)
  <2> DEFINE d == op[c].val[Len(op[c].parts) + 1]
             o == [op[c] EXCEPT !.parts = Append(@, d)]
  <2>1. /\ Continue(c, IF Len(op[c].parts) + 1 = Segments THEN NoOp ELSE o)
        /\ answered[c] /\ op[c].kind = "download" /\ op[c].phase = "segment" /\ answer[c].kind = "writeSeg"
    BY <1>10 DEF DownloadSegment, SegmentMatches, Answered, reply
  <2>2. op[c].parts \in Seq(Data)
    BY <1>3 DEF Transfers
  <2>3. Len(op[c].parts) + 1 # Segments => /\ Len(op[c].parts) < Segments
                                           /\ session = SessionOf(op[c], Append(op[c].parts, d))
    BY <1>5, <2>1 DEF TrueReply
  <2> HIDE DEF d
  <2>4. o.kind = "download" /\ o.obj = op[c].obj /\ o.parts = Append(op[c].parts, d)
    BY <1>3, <2>1 DEF Transfers
  <2>5. SessionOf(op[c], Append(op[c].parts, d)) = SessionOf(o, o.parts)
    BY <2>1, <2>4 DEF SessionOf
  <2>6. Len(o.parts) = Len(op[c].parts) + 1
    BY <2>2, <2>4
  <2> HIDE DEF o
  <2>7. Len(op[c].parts) + 1 # Segments => Len(o.parts) < Segments
    BY <1>3, <2>3, <2>6
  <2>8. QED
    BY <1>4, <2>1, <2>3, <2>4, <2>5, <2>7
<1>11. QED
  BY <1>6, <1>7, <1>8, <1>9, <1>10

\* A reply that arrives, and a request that is lost.
LEMMA DeliveryInTurn ==
  ASSUME SdoTyped, NEW c \in Clients, \A d \in Clients : c = d, InTurn(c), Notify \/ LoseRequest
  PROVE  InTurn(c)'
<1>1. toServer \in Seq(SdoFrames) /\ toClient \in Seq(SdoFrames)
  BY DEF SdoTyped, SdoTypeOK
<1>2. Len(toServer) + Len(toClient) <= 1
  BY DEF InTurn
<1>3. ASSUME Notify PROVE InTurn(c)'
  <2>1. toClient # <<>> /\ toClient' = Tail(toClient) /\ UNCHANGED <<place, op, toServer, dict, session>>
    BY <1>3 DEF Notify, server
  <2>2. toServer = <<>> /\ toClient' = <<>> /\ Head(toClient) = toClient[1] /\ toClient[1] \in SdoFrames
    BY <1>1, <1>2, <2>1, TailTyped, EmptySeq
  <2>3. call[c] \in {"waiting", "open"} /\ place[c] = "await" /\ TrueReply(c, toClient[1])
    BY <2>1 DEF InTurn, SdoTyped, SdoTypeOK
  <2>4. \/ call[c] = "open" /\ call'[c] = "woken" /\ answer'[c] = toClient[1]
        \/ call'[c] = "waiting"
    <3>1. toClient[1] # NoFrame
      BY <2>2 DEF SdoFrames, NoFrame, Frame
    <3>2. CASE Obs!Signal(c, Head(toClient))
      BY <2>2, <2>3, <3>1, <3>2 DEF Obs!Signal, Obs!HasWindow, SdoTyped, SdoTypeOK
    <3>3. CASE ~Obs!HasWindow(c) /\ UNCHANGED observer
      BY <2>3, <3>3 DEF Obs!HasWindow, observer
    <3>4. QED
      BY <1>3, <3>2, <3>3 DEF Notify
  <2>5. Len(<<>>) + Len(<<>>) <= 1
    OBVIOUS
  <2>6. ASSUME call[c] = "open", call'[c] = "woken", answer'[c] = toClient[1] PROVE TrueReply(c, answer[c])'
    <3>1. op' = op /\ dict' = dict /\ session' = session
      BY <2>1
    <3>2. QED
      BY <2>3, <2>6, <3>1 DEF TrueReply, SessionOf
  <2>7. Len(toServer') + Len(toClient') <= 1 /\ toServer' = <<>> /\ Uploaded(c)'
    BY <2>1, <2>2, <2>5, UploadedKept
  <2>8. QED
    BY <2>1, <2>2, <2>3, <2>4, <2>6, <2>7 DEF InTurn
<1>4. ASSUME LoseRequest PROVE InTurn(c)'
  <2>1. toServer # <<>> /\ toServer' = Tail(toServer) /\ UNCHANGED <<place, op, call, toClient, dict>>
    BY <1>4 DEF LoseRequest, observer, server
  <2>2. toServer' = <<>> /\ toClient' = <<>>
    BY <1>1, <1>2, <2>1, TailTyped, EmptySeq
  <2>3. call[c] \in {"waiting", "open"} /\ place[c] = "await"
    BY <2>1 DEF InTurn, SdoTyped, SdoTypeOK
  <2>4. QED
    BY <2>1, <2>2, <2>3, UploadedKept, NothingUnderWay
<1>5. QED
  BY <1>3, <1>4

\* A reply that is true of the transfer in turn takes the place of its request.
LEMMA RepliedInTurn ==
  ASSUME SdoTyped, NEW c \in Clients, InTurn(c), toServer # <<>>, NEW f, toClient' = Append(toClient, f),
         toServer' = Tail(toServer), UNCHANGED <<place, op, observer>>, TrueReply(c, f)', Uploaded(c)'
  PROVE  InTurn(c)'
<1>1. toServer \in Seq(SdoFrames) /\ toClient \in Seq(SdoFrames)
  BY DEF SdoTyped, SdoTypeOK
<1>2. Len(toServer) + Len(toClient) <= 1
  BY DEF InTurn
<1>3. call[c] \in {"waiting", "open"} /\ place[c] = "await" /\ UNCHANGED <<place, call>>
  BY DEF InTurn, SdoTyped, SdoTypeOK, observer
<1>4. toServer' = <<>> /\ toClient = <<>>
  BY <1>1, <1>2, TailTyped, EmptySeq
<1>5. toClient' = <<f>>
  BY <1>4
<1>6. /\ \A s : s = <<f>> => Len(s) = 1 /\ s[1] = f
      /\ \A s : s = <<>> => Len(s) = 0
  OBVIOUS
<1>7. toClient'[1] = f /\ Len(toServer') + Len(toClient') <= 1
  <2>1. toClient'[1] = f /\ Len(toClient') = 1 /\ Len(toServer') = 0
    BY <1>4, <1>5, <1>6
  <2>2. 0 + 1 <= 1
    OBVIOUS
  <2>3. QED
    BY <2>1, <2>2, Zenon
<1>8. TrueReply(c, toClient[1])'
  BY <1>7
<1>9. QED
  BY <1>3, <1>4, <1>7, <1>8 DEF InTurn

\* What the server does with the request of the transfer in turn.
LEMMA ServerInTurn ==
  ASSUME SdoTyped, NEW c \in Clients, InTurn(c), ServerStep
  PROVE  InTurn(c)'
<1> DEFINE o == op[c]
           n == Len(o.parts)
<1>1. toServer # <<>>
  BY DEF ServerStep, ServeReadInit, ServeReadSegment, ServeWriteInit, ServeWriteSegment, ServerAborts, Asked
<1>2. Head(toServer) = Request(c) /\ Ready(c)
  BY <1>1, TailTyped DEF SdoTyped, SdoTypeOK, InTurn
<1>3. Segments \in Nat \ {0} /\ o \in Transfers /\ Sensible(o) /\ n \in Nat
  BY DEF SdoTyped, SdoTypeOK, SdoFits, Transfers
<1>4. op' = op
  BY DEF ServerStep, ServeReadInit, ServeReadSegment, ServeWriteInit, ServeWriteSegment, ServerAborts, Answer
<1>5. ASSUME NEW kind, NEW obj, NEW toggle, NEW data, NEW last, Answer(kind, obj, toggle, data, last),
             \A g : g.kind = kind /\ g.data = data /\ g.last = last => TrueReply(c, g)',
             dict' = dict \/ o.kind = "download"
      PROVE  InTurn(c)'
  <2>1. PICK f : f = Frame(kind, obj, toggle, data, last, Head(toServer).by)
    OBVIOUS
  <2>2. f.kind = kind /\ f.data = data /\ f.last = last
    BY <2>1 DEF Frame
  <2>3. toClient' = Append(toClient, f) /\ toServer' = Tail(toServer) /\ UNCHANGED <<place, op, observer>>
    BY <1>5, <2>1 DEF Answer
  <2>4. TrueReply(c, f)'
    BY <1>5, <2>2
  <2>5. Uploaded(c)'
    BY <1>4, <1>5, UploadedKept DEF Uploaded
  <2>6. QED
    BY <1>1, <2>3, <2>4, <2>5, RepliedInTurn
<1>6. CASE ServeReadInit
  <2>1. PICK obj : obj = Head(toServer).obj
    OBVIOUS
  <2>2. PICK data : data = IF obj \in Expedited THEN dict[obj][1] ELSE 0
    OBVIOUS
  <2>3. /\ Answer("readInit", obj, 0, data, obj \in Expedited)
        /\ session' = IF obj \in Expedited THEN Idle ELSE [mode |-> "reading", obj |-> obj, parts |-> <<>>]
        /\ dict' = dict
    BY <1>6, <2>1, <2>2 DEF ServeReadInit
  <2>4. obj \in Objects /\ Request(c).kind = "readInit" /\ Request(c).obj = obj
    BY <1>2, <1>6, <2>1 DEF ServeReadInit, Asked
  <2>5. o.phase = "init" /\ o.kind # "download" /\ o.obj = obj
    BY <2>4 DEF Request, Frame
  <2>6. ASSUME NEW g, g.kind = "readInit", g.data = data, g.last = (obj \in Expedited)
        PROVE  TrueReply(c, g)'
    BY <1>4, <2>2, <2>3, <2>5, <2>6 DEF TrueReply, SessionOf
  <2>7. QED
    BY <1>5, <2>3, <2>6
<1>7. CASE ServeReadSegment
  <2>1. Request(c).kind = "readSeg"
    BY <1>2, <1>7 DEF ServeReadSegment, Asked
  <2>2. o.phase = "segment" /\ o.kind = "upload"
    BY <1>3, <2>1 DEF Request, Frame, Sensible, Transfers
  <2>3. n < Segments /\ session = [mode |-> "reading", obj |-> o.obj, parts |-> o.parts]
    BY <1>2, <2>2 DEF Ready, SessionOf
  <2>4. session.obj = o.obj /\ session.parts = o.parts
    BY <2>3
  <2>5. PICK v, toggle : v = dict[o.obj][n + 1] /\ toggle = Head(toServer).toggle
    OBVIOUS
  <2>6. PICK last \in BOOLEAN : last <=> n + 1 = Segments
    OBVIOUS
  <2>7. /\ Answer("readSeg", o.obj, toggle, v, last)
        /\ session' = IF last THEN Idle ELSE [session EXCEPT !.parts = Append(@, v)]
        /\ dict' = dict
    BY <1>7, <2>4, <2>5, <2>6 DEF ServeReadSegment
  <2>8. ~last => session' = [mode |-> "reading", obj |-> o.obj, parts |-> Append(o.parts, v)]
    BY <2>3, <2>7
  <2>9. ASSUME NEW g, g.kind = "readSeg", g.data = v, g.last = last
        PROVE  TrueReply(c, g)'
    BY <1>4, <2>2, <2>3, <2>5, <2>6, <2>7, <2>8, <2>9 DEF TrueReply, SessionOf
  <2>10. QED
    BY <1>5, <2>7, <2>9
<1>8. CASE ServeWriteInit
  <2>1. Request(c).kind = "writeInit"
    BY <1>2, <1>8 DEF ServeWriteInit, Asked
  <2>2. /\ o.phase = "init" /\ o.kind = "download" /\ Request(c).obj = o.obj
        /\ o.obj \in Expedited => Request(c).data = o.val[1]
    BY <2>1 DEF Request, Frame
  <2>3. o.obj \in Objects
    BY <1>3, <2>2 DEF Sensible
  <2>4. /\ Answer("writeInit", o.obj, 0, 0, TRUE)
        /\ session' = IF o.obj \in Expedited THEN Idle ELSE [mode |-> "writing", obj |-> o.obj, parts |-> <<>>]
        /\ dict' = IF o.obj \in Expedited THEN [dict EXCEPT ![o.obj] = Plain(o.val[1])] ELSE dict
    BY <1>2, <1>8, <2>2 DEF ServeWriteInit
  <2>5. o.obj \in Expedited => dict'[o.obj][1] = o.val[1]
    <3>1. 1 \in 1..Segments
      BY <1>3
    <3>2. Plain(o.val[1])[1] = o.val[1]
      BY <3>1 DEF Plain
    <3>3. QED
      BY <2>3, <2>4, <3>2 DEF SdoTyped, SdoTypeOK
  <2>6. ASSUME NEW g, g.kind = "writeInit", g.data = 0, g.last = TRUE
        PROVE  TrueReply(c, g)'
    BY <1>4, <2>2, <2>4, <2>5, <2>6 DEF TrueReply, SessionOf
  <2>7. QED
    BY <1>5, <2>2, <2>4, <2>6
<1>9. CASE ServeWriteSegment
  <2> DEFINE d == o.val[n + 1]
             parts == Append(o.parts, d)
  <2>1. Request(c).kind = "writeSeg"
    BY <1>2, <1>9 DEF ServeWriteSegment, Asked
  <2>2. /\ o.phase = "segment" /\ o.kind = "download"
        /\ Request(c).data = d /\ (Request(c).last <=> n + 1 = Segments)
    BY <1>3, <2>1 DEF Request, Frame, Sensible, Transfers
  <2>3. n < Segments /\ session = [mode |-> "writing", obj |-> o.obj, parts |-> o.parts] /\ o.obj \in Objects
    BY <1>2, <1>3, <2>2 DEF Ready, SessionOf, Sensible
  <2>4. session.obj = o.obj /\ session.parts = o.parts
    BY <2>3
  <2>5. PICK toggle : toggle = Head(toServer).toggle
    OBVIOUS
  <2>6. /\ Answer("writeSeg", o.obj, toggle, 0, TRUE)
        /\ session' = IF n + 1 = Segments THEN Idle ELSE [session EXCEPT !.parts = parts]
        /\ dict' = IF n + 1 = Segments /\ Len(parts) = Segments THEN [dict EXCEPT ![o.obj] = parts] ELSE dict
    BY <1>2, <1>9, <2>2, <2>4, <2>5 DEF ServeWriteSegment
  <2>7. n + 1 # Segments => session' = [mode |-> "writing", obj |-> o.obj, parts |-> parts]
    BY <2>3, <2>6
  <2>8. o.parts \in Seq(Data) /\ d \in Data /\ \A i \in 1..n : o.parts[i] = o.val[i]
    <3>1. o.val \in [1..Segments -> Values] /\ n + 1 \in 1..Segments
      BY <1>3, <2>2, <2>3 DEF Sensible, Contents
    <3>2. QED
      BY <1>3, <2>2, <3>1 DEF Transfers, Sensible, Data
  <2> HIDE DEF d
  <2>9. Len(parts) = n + 1 /\ parts[n + 1] = d /\ \A i \in 1..n : parts[i] = o.parts[i]
    BY <2>8, AppendProperties
  <2>10. n + 1 = Segments => \A i \in 1..Segments : parts[i] = o.val[i]
    BY <1>3, <2>8, <2>9 DEF d
  <2> HIDE DEF parts
  <2>11. n + 1 = Segments => \A i \in 1..Segments : dict'[o.obj][i] = o.val[i]
    BY <1>3, <2>3, <2>6, <2>9, <2>10 DEF SdoTyped, SdoTypeOK
  <2>12. ASSUME NEW g, g.kind = "writeSeg", g.data = 0, g.last = TRUE
         PROVE  TrueReply(c, g)'
    BY <1>4, <2>2, <2>3, <2>7, <2>11, <2>12 DEF TrueReply, SessionOf, parts, d
  <2>13. QED
    BY <1>5, <2>2, <2>6, <2>12
<1>10. CASE ServerAborts
  <2>1. PICK obj : obj = Head(toServer).obj
    OBVIOUS
  <2>2. Answer("abort", obj, 0, 0, TRUE)
    BY <1>10, <2>1 DEF ServerAborts
  <2>3. ASSUME NEW g, g.kind = "abort", g.data = 0, g.last = TRUE
        PROVE  TrueReply(c, g)'
    BY <2>3 DEF TrueReply
  <2>4. dict' = dict
    BY <1>10 DEF ServerAborts
  <2>5. QED
    BY <1>5, <2>2, <2>3, <2>4
<1>11. QED
  BY <1>6, <1>7, <1>8, <1>9, <1>10 DEF ServerStep

-----------------------------------------------------------------------------
(* What the transfers promise. *)

\* The inductive invariant.
LEMMA SdoInvariant == ASSUME SdoFits PROVE SdoSpec => []SdoInv
<1>1. SdoInit => SdoInv
  <2> SUFFICES ASSUME SdoInit PROVE SdoInv
    OBVIOUS
  <2>1. SdoTyped
    BY SdoTypedInit
  <2>2. ASSUME NEW c \in Clients PROVE InTurn(c)
    <3>1. place[c] = "idle" /\ call[c] = "out" /\ toServer = <<>> /\ toClient = <<>>
      BY DEF SdoInit, Obs!Init
    <3>2. Len(<<>>) + Len(<<>>) <= 1
      OBVIOUS
    <3>3. Uploaded(c)
      BY DEF Uploaded, SdoInit, NoOp
    <3>4. QED
      BY <3>1, <3>2, <3>3 DEF InTurn
  <2>3. QED
    BY <2>1, <2>2 DEF SdoInv
<1>2. SdoInv /\ [SdoNext]_sdoVars => SdoInv'
  <2> SUFFICES ASSUME SdoInv, [SdoNext]_sdoVars PROVE SdoInv'
    OBVIOUS
  <2>1. SdoTyped
    BY DEF SdoInv
  <2>2. CASE SdoNext
    <3>1. SdoTyped'
      BY <2>1, <2>2, SdoTypedStep
    <3>2. ASSUME OneThread, NEW c \in Clients PROVE InTurn(c)'
      <4>1. Timely /\ InTurn(c) /\ \A d \in Clients : c = d
        BY <3>2 DEF SdoInv, OneThread
      <4>2. CASE Upload(c) \/ Download(c) \/ Ping(c) \/ ClientStep(c)
        BY <2>1, <4>1, <4>2, CallInTurn, ReplyInTurn DEF ClientStep
      <4>3. CASE Notify \/ LoseRequest
        BY <2>1, <4>1, <4>3, DeliveryInTurn
      <4>4. CASE ServerStep
        BY <2>1, <4>1, <4>4, ServerInTurn
      <4>5. QED
        BY <2>2, <4>1, <4>2, <4>3, <4>4 DEF SdoNext
    <3>3. QED
      BY <3>1, <3>2 DEF SdoInv, OneThread
  <2>3. CASE UNCHANGED sdoVars
    <3>1. SdoTyped'
      BY <2>1, <2>3 DEF SdoTyped, SdoTypeOK, sdoVars, observer, frames, server
    <3>2. ASSUME NEW c \in Clients, InTurn(c) PROVE InTurn(c)'
      <4>1. UNCHANGED <<place, op, call, answer, answered, toServer, toClient, dict, session>>
        BY <2>3 DEF sdoVars, observer, frames, server
      <4>2. Ready(c)' = Ready(c) /\ Request(c)' = Request(c)
        BY <4>1 DEF Ready, SessionOf, Request, Toggle
      <4>3. /\ TrueReply(c, toClient[1])' = TrueReply(c, toClient[1])
            /\ TrueReply(c, answer[c])' = TrueReply(c, answer[c])
        BY <4>1 DEF TrueReply, SessionOf
      <4>4. QED
        BY <3>2, <4>1, <4>2, <4>3, UploadedKept DEF InTurn
    <3>3. QED
      BY <3>1, <3>2 DEF SdoInv, OneThread
  <2>4. QED
    BY <2>2, <2>3
<1>3. QED
  BY <1>1, <1>2, PTL DEF SdoSpec

\* Type correctness.
THEOREM SdoIsTyped == ASSUME SdoFits PROVE SdoSpec => []SdoTypeOK
<1>1. SdoInv => SdoTypeOK
  BY DEF SdoInv, SdoTyped
<1>2. QED
  BY <1>1, SdoInvariant, PTL

\* SdoClient.cpp:238-336: what one thread is told about the dictionary is so.
THEOREM SuccessTells == ASSUME SdoFits, OneThread PROVE SdoSpec => []SuccessTellsTheDictionary
<1>1. SdoInv => SuccessTellsTheDictionary
  <2> SUFFICES ASSUME SdoInv, NEW c \in Clients, Accepts(c)
               PROVE  /\ op[c].kind = "download" /\ LastTransfer(c) =>
                           \A i \in 1..Size(op[c].obj) : dict[op[c].obj][i] = op[c].val[i]
                      /\ op[c].kind = "upload" /\ (op[c].phase = "segment" \/ op[c].obj \in Expedited) =>
                           /\ \A i \in 1..Len(Received(c)) : Received(c)[i] = dict[op[c].obj][i]
                           /\ reply(c).last <=> Len(Received(c)) = Size(op[c].obj)
    BY DEF SuccessTellsTheDictionary
  <2> DEFINE o == op[c]
             n == Len(o.parts)
  <2>1. place[c] = "check" /\ answered[c]
    BY DEF Accepts, Answered
  <2>2. TrueReply(c, answer[c]) /\ Uploaded(c)
    BY <2>1 DEF SdoInv, InTurn
  <2>3. /\ o \in Transfers /\ Sensible(o) /\ SdoFits /\ Segments \in Nat \ {0}
        /\ answer[c] \in SdoFrames \cup {NoFrame} /\ n \in Nat
    BY DEF SdoInv, SdoTyped, SdoTypeOK, SdoFits, Transfers
  <2>4. ASSUME o.kind = "download", LastTransfer(c), NEW i \in 1..Size(o.obj)
        PROVE  dict[o.obj][i] = o.val[i]
    <3>1. CASE o.phase = "init"
      <4>1. answer[c].kind = "writeInit" /\ o.obj \in Expedited
        BY <2>4, <3>1 DEF Accepts, Answered, DownloadMatches, LastTransfer, reply
      <4>2. i = 1
        BY <2>4, <4>1 DEF Size
      <4>3. QED
        BY <2>2, <2>4, <3>1, <4>1, <4>2 DEF TrueReply
    <3>2. CASE o.phase = "segment"
      <4>1. answer[c].kind = "writeSeg"
        BY <2>4, <3>2 DEF Accepts, Answered, SegmentMatches, reply
      <4>2. o.obj \notin Expedited
        BY <2>3, <3>2 DEF Sensible, SdoFits
      <4>3. n + 1 = Segments /\ i \in 1..Segments
        BY <2>4, <4>2 DEF LastTransfer, Size
      <4>4. QED
        BY <2>2, <2>4, <3>2, <4>1, <4>3 DEF TrueReply
    <3>3. QED
      BY <2>3, <3>1, <3>2 DEF Transfers
  <2>5. ASSUME o.kind = "upload", o.phase = "segment" \/ o.obj \in Expedited
        PROVE  /\ \A i \in 1..Len(Received(c)) : Received(c)[i] = dict[o.obj][i]
               /\ answer[c].last <=> Len(Received(c)) = Size(o.obj)
    <3>1. answer[c].kind = IF o.phase = "init" THEN "readInit" ELSE "readSeg"
      BY <2>3, <2>5 DEF Accepts, Answered, UploadMatches, SegmentMatches, reply, Transfers
    <3>2. answer[c].data \in Data /\ o.parts \in Seq(Data)
      BY <2>3, <3>1 DEF SdoFrames, NoFrame, Frame, Transfers
    <3>3. /\ Len(Received(c)) = n + 1 /\ Received(c)[n + 1] = answer[c].data
          /\ \A i \in 1..n : Received(c)[i] = o.parts[i]
      BY <3>2, AppendProperties DEF Received, reply
    <3>4. CASE o.phase = "init"
      <4>1. o.obj \in Expedited /\ n = 0
        BY <2>3, <2>5, <3>4 DEF Sensible
      <4>2. answer[c].last /\ answer[c].data = dict[o.obj][1]
        BY <2>2, <2>5, <3>1, <3>4, <4>1 DEF TrueReply
      <4>3. QED
        BY <3>3, <4>1, <4>2 DEF Size
    <3>5. CASE o.phase = "segment"
      <4>1. o.obj \notin Expedited
        BY <2>3, <3>5 DEF Sensible, SdoFits
      <4>2. (answer[c].last <=> n + 1 = Segments) /\ answer[c].data = dict[o.obj][n + 1]
        BY <2>2, <2>5, <3>1, <3>5 DEF TrueReply
      <4>3. \A i \in 1..n : o.parts[i] = dict[o.obj][i]
        BY <2>2, <2>5, <3>5 DEF Uploaded
      <4>4. QED
        BY <2>3, <3>3, <4>1, <4>2, <4>3 DEF Size
    <3>6. QED
      BY <2>3, <3>4, <3>5 DEF Transfers
  <2>6. QED
    BY <2>4, <2>5 DEF reply
<1>2. QED
  BY <1>1, SdoInvariant, PTL

-----------------------------------------------------------------------------
(* Expedited uploads, however many threads call and however late replies are. *)

\* The reply f tells what the object it names has held.
FromObject(f, held) == f.kind = "readInit" /\ f.obj \in Expedited => f.data \in held[f.obj]

\* So do all that are under way or were received.
AllFromObject(held) ==
  /\ \A c \in Clients : FromObject(answer[c], held)
  /\ \A i \in 1..Len(toClient) : FromObject(toClient[i], held)

\* A reply the server makes joins those under way.
LEMMA AnswerFromObject ==
  ASSUME SdoTyped, NEW held, AllFromObject(held), UNCHANGED answer,
         NEW f, toClient' = Append(toClient, f), toClient' \in Seq(SdoFrames), FromObject(f, held)
  PROVE  AllFromObject(held)'
<1>1. toClient \in Seq(SdoFrames) /\ Len(toClient) \in Nat
  BY DEF SdoTyped, SdoTypeOK
<1>2. Len(toClient') = Len(toClient) + 1 /\ \A i \in 1..Len(toClient) + 1 :
        toClient'[i] = IF i = Len(toClient) + 1 THEN f ELSE toClient[i]
  BY <1>1
<1>3. ASSUME NEW i \in 1..Len(toClient') PROVE FromObject(toClient'[i], held)
  <2>1. CASE i = Len(toClient) + 1
    BY <1>1, <1>2, <2>1
  <2>2. CASE i # Len(toClient) + 1
    <3>1. i \in 1..Len(toClient)
      BY <1>1, <1>2, <2>2
    <3>2. toClient'[i] = toClient[i]
      BY <1>1, <1>2, <2>2, <3>1
    <3>3. QED
      BY <3>1, <3>2 DEF AllFromObject
  <2>3. QED
    BY <2>1, <2>2
<1>4. QED
  BY <1>3 DEF AllFromObject

\* A request of ours is served from the dictionary; no other reply is to an upload.
LEMMA ServerFromObject ==
  ASSUME SdoTyped, NEW held, HoldsOnly(held), AllFromObject(held), ServerStep
  PROVE  AllFromObject(held)'
<1>1. toClient' \in Seq(SdoFrames)
  BY ServerTyped DEF SdoTyped, SdoTypeOK
<1>2. ASSUME NEW kind, NEW obj, NEW toggle, NEW data, NEW last, Answer(kind, obj, toggle, data, last),
             kind = "readInit" /\ obj \in Expedited => data \in held[obj]
      PROVE  AllFromObject(held)'
  <2>1. PICK f : f = Frame(kind, obj, toggle, data, last, Head(toServer).by)
    OBVIOUS
  <2>2. FromObject(f, held)
    BY <1>2, <2>1 DEF FromObject, Frame
  <2>3. toClient' = Append(toClient, f) /\ UNCHANGED answer
    BY <1>2, <2>1 DEF Answer, observer
  <2>4. QED
    BY <1>1, <2>2, <2>3, AnswerFromObject
<1>3. CASE ServeReadInit
  <2>1. PICK obj, data : /\ obj = Head(toServer).obj /\ data = IF obj \in Expedited THEN dict[obj][1] ELSE 0
    OBVIOUS
  <2>2. Answer("readInit", obj, 0, data, obj \in Expedited)
    BY <1>3, <2>1 DEF ServeReadInit
  <2>3. obj \in Expedited => data \in held[obj]
    BY <2>1 DEF HoldsOnly
  <2>4. QED
    BY <1>2, <2>2, <2>3
<1>4. CASE ServeReadSegment
  <2>1. PICK obj, toggle, data, last : Answer("readSeg", obj, toggle, data, last)
    BY <1>4 DEF ServeReadSegment
  <2>2. QED
    BY <1>2, <2>1
<1>5. CASE ServeWriteInit
  <2>1. PICK obj, toggle, data, last : Answer("writeInit", obj, toggle, data, last)
    BY <1>5 DEF ServeWriteInit
  <2>2. QED
    BY <1>2, <2>1
<1>6. CASE ServeWriteSegment
  <2>1. PICK obj, toggle, data, last : Answer("writeSeg", obj, toggle, data, last)
    BY <1>6 DEF ServeWriteSegment
  <2>2. QED
    BY <1>2, <2>1
<1>7. CASE ServerAborts
  <2>1. PICK obj, toggle, data, last : Answer("abort", obj, toggle, data, last)
    BY <1>7 DEF ServerAborts
  <2>2. QED
    BY <1>2, <2>1
<1>8. QED
  BY <1>3, <1>4, <1>5, <1>6, <1>7 DEF ServerStep

\* Every step keeps it.
LEMMA FromObjectStep ==
  ASSUME SdoTyped, NEW held, HoldsOnly(held), AllFromObject(held), [SdoNext]_sdoVars
  PROVE  AllFromObject(held)'
<1>1. toClient \in Seq(SdoFrames) /\ answer \in [Clients -> SdoFrames \cup {NoFrame}]
  BY DEF SdoTyped, SdoTypeOK
<1>2. FromObject(NoFrame, held)
  BY DEF FromObject, NoFrame, Frame
<1>3. ASSUME UNCHANGED <<answer, toClient>> PROVE AllFromObject(held)'
  BY <1>3 DEF AllFromObject
<1>4. ASSUME NEW c \in Clients, NEW o, Continue(c, o) PROVE AllFromObject(held)'
  <2>1. toClient' = Aged(toClient, c) /\ Len(toClient') = Len(toClient)
    BY <1>1, <1>4, AgedTyped DEF Continue
  <2>2. ASSUME NEW i \in 1..Len(toClient) PROVE FromObject(toClient'[i], held)
    <3>1. toClient[i] \in SdoFrames /\ FromObject(toClient[i], held)
      BY <1>1 DEF AllFromObject
    <3>2. toClient'[i] = IF toClient[i].by = c THEN [toClient[i] EXCEPT !.by = "old"] ELSE toClient[i]
      BY <2>1 DEF Aged
    <3>3. toClient'[i].kind = toClient[i].kind /\ toClient'[i].obj = toClient[i].obj
          /\ toClient'[i].data = toClient[i].data
      BY <3>1, <3>2 DEF SdoFrames
    <3>4. QED
      BY <3>1, <3>3 DEF FromObject
  <2>3. \A d \in Clients : answer'[d] = IF d = c THEN NoFrame ELSE answer[d]
    BY <1>1, <1>4 DEF Continue
  <2>4. \A d \in Clients : FromObject(answer'[d], held)
    BY <1>2, <2>3 DEF AllFromObject
  <2>5. QED
    BY <2>1, <2>2, <2>4 DEF AllFromObject
<1>5. ASSUME NEW c \in Clients, Send(c) PROVE AllFromObject(held)'
  <2>1. toClient' = toClient /\ \A d \in Clients : answer'[d] = IF d = c THEN NoFrame ELSE answer[d]
    BY <1>1, <1>5 DEF Send, Obs!Call
  <2>2. QED
    BY <1>2, <2>1 DEF AllFromObject
<1>6. ASSUME Notify PROVE AllFromObject(held)'
  <2>1. toClient # <<>> /\ toClient' = Tail(toClient)
    BY <1>6 DEF Notify
  <2>2. PICK f : f = Head(toClient) /\ FromObject(f, held)
    BY <1>1, <2>1, TailTyped DEF AllFromObject
  <2>3. \A i \in 1..Len(toClient') : FromObject(toClient'[i], held)
    BY <1>1, <2>1, TailTyped DEF AllFromObject
  <2>4. \A d \in Clients : answer'[d] \in {answer[d], f}
    BY <1>1, <1>6, <2>2 DEF Notify, Obs!Signal, observer
  <2>5. QED
    BY <2>2, <2>3, <2>4 DEF AllFromObject
<1>7. CASE UNCHANGED sdoVars
  BY <1>3, <1>7 DEF sdoVars, observer, frames
<1>8. CASE ServerStep
  BY <1>8, ServerFromObject
<1>9. CASE LoseRequest
  BY <1>3, <1>9 DEF LoseRequest, observer
<1>10. ASSUME NEW c \in Clients, Upload(c) \/ Download(c) \/ Ping(c) PROVE AllFromObject(held)'
  <2>1. PICK kind, obj, val : Begin(c, kind, obj, val)
    BY <1>10 DEF Upload, Download, Ping
  <2>2. QED
    BY <1>3, <2>1 DEF Begin, observer, frames
<1>11. ASSUME NEW c \in Clients, ClientStep(c) PROVE AllFromObject(held)'
  <2>1. CASE SendFails(c) \/ OpenWindow(c) \/ Expire(c) \/ Return(c)
    BY <1>3, <2>1 DEF SendFails, OpenWindow, Expire, Return, Obs!OpenWindow, Obs!Expire, Obs!Return, observer, frames
  <2>2. CASE \E o : Continue(c, o)
    BY <1>4, <2>2
  <2>3. CASE Send(c)
    BY <1>5, <2>3
  <2>4. (\E o : Continue(c, o)) \/ Send(c) \/ SendFails(c) \/ OpenWindow(c) \/ Expire(c) \/ Return(c)
    BY <1>11 DEF ClientStep, PingAnswered, UploadInitiated, UploadSegment, DownloadInitiated, DownloadSegment,
                 TransferFails
  <2>5. QED
    BY <2>1, <2>2, <2>3, <2>4
<1>12. QED
  BY <1>6, <1>7, <1>8, <1>9, <1>10, <1>11 DEF SdoNext

\* SdoClient.cpp:238-258: what an expedited upload returns is a value its object has held,
\* whatever other objects hold, however many threads call and however late replies are. (Since
\* a behaviour may stop when the upload ends, it has held the value by then.)
THEOREM ExpeditedIsTheObject ==
  ASSUME SdoFits, NEW held
  PROVE  SdoSpec /\ []HoldsOnly(held) => []ExpeditedWasHeld(held)
<1>1. SdoInit => AllFromObject(held)
  <2> SUFFICES ASSUME SdoInit PROVE AllFromObject(held)
    OBVIOUS
  <2>1. 1..Len(toClient) = {} /\ \A c \in Clients : answer[c] = NoFrame
    BY DEF SdoInit, Obs!Init
  <2>2. QED
    BY <2>1 DEF AllFromObject, FromObject, NoFrame, Frame
<1>2. SdoInv => SdoTyped
  BY DEF SdoInv
<1>3. SdoTyped /\ HoldsOnly(held) /\ AllFromObject(held) /\ [SdoNext]_sdoVars => AllFromObject(held)'
  BY FromObjectStep
<1>4. SdoTyped /\ AllFromObject(held) => ExpeditedWasHeld(held)
  <2> SUFFICES ASSUME SdoTyped, AllFromObject(held), NEW c \in Clients,
                      Accepts(c), op[c].kind = "upload", op[c].obj \in Expedited
               PROVE  reply(c).data \in held[op[c].obj]
    BY DEF ExpeditedWasHeld
  <2>1. op[c].phase = "init"
    BY DEF SdoTyped, SdoTypeOK, SdoFits, Transfers, Sensible
  <2>2. answer[c].kind = "readInit" /\ answer[c].obj = op[c].obj
    BY <2>1 DEF Accepts, Answered, UploadMatches, reply
  <2>3. QED
    BY <2>2 DEF AllFromObject, FromObject, reply
<1>5. QED
  BY <1>1, <1>2, <1>3, <1>4, SdoInvariant, PTL DEF SdoSpec
=============================================================================
