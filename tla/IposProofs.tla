---------------------------- MODULE IposProofs ----------------------------
(***************************************************************************)
(* Proofs about a drive in service: the settings it has and is believed to  *)
(* have (IposSettings), the targets the SYNC thread sends it (IposTargets), *)
(* the periods these are sent in (SyncCycle), and the moves it is given in  *)
(* profile position mode (IposMoves).  Each part has an inductive invariant *)
(* of its own.                                                              *)
(***************************************************************************)
EXTENDS IposSettings, IposTargets, SyncCycle, IposMoves, SequenceTheorems, FiniteSetTheorems, FunctionTheorems, TLAPS

-----------------------------------------------------------------------------
(***************************************************************************)
(* The settings, for any clients, limits, speeds and scales, any calls and  *)
(* any restarts.  A drive in service has them all; on the way there it has  *)
(* those which the thread at work is through with, and the one that was     *)
(* downloaded and is yet to be stored.                                      *)
(***************************************************************************)
Settings == [key : Keys, value : Int]
Made == [min : Int, max : Int, refSpeed : Int, refAcceleration : Int]
InMaking == [todo : Seq(Settings), store : Settings \cup {Nothing}, failed : BOOLEAN, busy : BOOLEAN]

SettingsTyped ==
  /\ stored \in Made /\ stored.min \in Positions /\ stored.max \in Positions
  /\ stored.refSpeed \in Speeds /\ stored.refAcceleration \in Speeds /\ maxVel \in Speeds
  /\ scale \in Nat \ {0} /\ reverse \in BOOLEAN
  /\ controlMode \in {"NOT_CONFIGURED", "CONFIGURED"} /\ dict \in [Objects -> Int]
  /\ setting \in [Setters -> InMaking]
  /\ calls \in 0..MaxCalls /\ reboots \in 0..MaxReboots /\ unseen \in BOOLEAN
  /\ doubtful \in BOOLEAN /\ mixed \in BOOLEAN /\ masked \in BOOLEAN /\ rescaled \in BOOLEAN

\* What is legal to set under a key.
Legal(s) == s.value \in (IF s.key \in {"min", "max"} THEN Positions ELSE Speeds)

\* A thread that is not at work has nothing to set, one that stores is not through
\* with it, and the monitor works on a node that is not configured.
AtWork ==
  /\ \A t \in Setters : ~Busy(t) => setting[t].todo = <<>> /\ setting[t].store = Nothing
  /\ \A t \in Setters : setting[t].store # Nothing =>
       setting[t].todo # <<>> /\ setting[t].store = Head(setting[t].todo)
  /\ \A t \in Setters : \A i \in 1..Len(setting[t].todo) : Legal(setting[t].todo[i])
  /\ Busy(MonitorThread) => controlMode = "NOT_CONFIGURED"
  /\ ~mixed => \A t, u \in Setters : Busy(t) /\ Busy(u) => t = u

\* Drive and host agree on a setting.
Agree(k) == dict[ObjectOf(k)] = Internal(k, stored[k])

\* The drive has it.
Loaded(s) == dict[ObjectOf(s.key)] = Internal(s.key, s.value)

\* Some thread is about to store it, or the monitor has not come to it.
Pending(t, k) ==
  \/ setting[t].store # Nothing /\ setting[t].store.key = k
  \/ t = MonitorThread /\ \E i \in 1..Len(setting[t].todo) : setting[t].todo[i].key = k

\* The drive has, or gets without failure, what is stored.
Counts ==
  /\ ~mixed /\ ~masked /\ ~rescaled
  /\ \/ controlMode = "CONFIGURED" /\ ~unseen /\ ~doubtful
     \/ Busy(MonitorThread) /\ ~setting[MonitorThread].failed

Settled ==
  Counts =>
    /\ \A k \in Keys : (\A t \in Setters : ~Pending(t, k)) => Agree(k)
    /\ \A t \in Setters : setting[t].store # Nothing => Loaded(setting[t].store)

SettingsInv == SettingsFit /\ SettingsTyped /\ AtWork /\ Settled

\* A setting is a key and a number.
LEMMA SettingFields ==
  /\ \A s \in Settings : s.key \in Keys /\ s.value \in Int /\ s # Nothing
  /\ \A k \in Keys, v \in Int : Set(k, v) \in Settings /\ Set(k, v).key = k /\ Set(k, v).value = v
BY DEF Settings, Set, Keys, Nothing

\* Each setting has an object of its own.
LEMMA OwnObjects ==
  /\ \A k \in Keys : ObjectOf(k) \in Objects
  /\ \A k, l \in Keys : ObjectOf(k) = ObjectOf(l) => k = l
BY DEF ObjectOf, Keys, Objects

\* Units are numbers, and what is converted comes back.
LEMMA UnitsComeBack ==
  ASSUME NEW n \in Int, NEW d \in Nat \ {0}
  PROVE  (n * d) \div d = n
OBVIOUS

\* Units are numbers.
LEMMA UnitsAreNumbers ==
  ASSUME scale \in Nat \ {0}, NEW k, NEW v \in Int
  PROVE  Internal(k, v) \in Int
<1>1. \A a, b \in Int : a * b \in Int
  OBVIOUS
<1>2. -v \in Int /\ v \in Int /\ scale \in Int
  OBVIOUS
<1> QED BY <1>1, <1>2 DEF Internal

\* With one thread at work, the others have nothing to set.
LEMMA OthersIdle ==
  ASSUME AtWork, ~mixed, NEW t \in Setters, Busy(t), NEW u \in Setters, u # t
  PROVE  ~Busy(u) /\ setting[u].todo = <<>> /\ setting[u].store = Nothing
BY DEF AtWork

\* A thread that has something to set, or to store, is at work.
LEMMA AtWorkIsBusy ==
  ASSUME AtWork, NEW t \in Setters, setting[t].todo # <<>> \/ setting[t].store # Nothing
  PROVE  Busy(t)
BY DEF AtWork

\* It begins with nothing settled.
LEMMA InitSettings == ASSUME SettingsFit PROVE SettingsInit => SettingsInv
<1> SUFFICES ASSUME SettingsInit PROVE SettingsInv
  OBVIOUS
<1>1. \A t \in Setters : setting[t] = NoSetting
  BY DEF SettingsInit
<1>2. SettingsTyped
  <2>1. NoSetting \in InMaking
    BY DEF NoSetting, InMaking
  <2>2. stored \in Made /\ stored.min \in Positions /\ stored.max \in Positions
        /\ stored.refSpeed \in Speeds /\ stored.refAcceleration \in Speeds
    <3>1. stored \in [min : Positions, max : Positions, refSpeed : Speeds, refAcceleration : Speeds]
      BY DEF SettingsInit
    <3>2. Positions \subseteq Int /\ Speeds \subseteq Int
      BY DEF SettingsFit
    <3> QED BY <3>1, <3>2 DEF Made
  <2>3. scale \in Nat \ {0} /\ maxVel \in Speeds /\ reverse \in BOOLEAN
    BY DEF SettingsInit, SettingsFit
  <2>4. setting \in [Setters -> InMaking] /\ dict \in [Objects -> Int]
    BY <2>1 DEF SettingsInit, Factory
  <2>5. calls \in 0..MaxCalls /\ reboots \in 0..MaxReboots
    BY DEF SettingsInit, SettingsFit
  <2> QED BY <2>2, <2>3, <2>4, <2>5 DEF SettingsInit, SettingsTyped
<1>3. AtWork
  BY <1>1 DEF AtWork, NoSetting, Busy, SettingsInit, Setters
<1>4. ~Counts
  BY <1>1 DEF Counts, SettingsInit, Busy, NoSetting, Setters
<1> QED BY <1>2, <1>3, <1>4 DEF SettingsInv, Settled

-----------------------------------------------------------------------------
\* What AfterSetting makes of a thread at work.
LEMMA AfterIsTyped ==
  ASSUME SettingsInv, NEW t \in Setters, setting[t].todo # <<>>, NEW failed \in BOOLEAN
  PROVE  /\ AfterSetting(t, failed) \in InMaking
         /\ AfterSetting(t, failed).store = Nothing
         /\ AfterSetting(t, failed).busy = setting[t].busy
         /\ AfterSetting(t, failed).failed = (setting[t].failed \/ failed)
         /\ ~failed => AfterSetting(t, failed).todo = Tail(setting[t].todo)
         /\ AfterSetting(t, failed).todo \in {Tail(setting[t].todo), <<>>}
         /\ \A i \in 1..Len(AfterSetting(t, failed).todo) : Legal(AfterSetting(t, failed).todo[i])
<1>1. setting[t] \in InMaking /\ Tail(setting[t].todo) \in Seq(Settings)
  BY DEF SettingsInv, SettingsTyped, InMaking
<1> DEFINE rest == Tail(setting[t].todo)
           go == t # MonitorThread \/ ~failed \/ (rest # <<>> /\ Head(rest).key = "max")
           after == [todo |-> IF go THEN rest ELSE <<>>, store |-> Nothing,
                     failed |-> setting[t].failed \/ failed, busy |-> setting[t].busy]
<1>2. AfterSetting(t, failed) = after
  <2>1. AfterSetting(t, failed) =
          [setting[t] EXCEPT !.store = Nothing, !.failed = @ \/ failed, !.todo = IF go THEN rest ELSE <<>>]
    BY DEF AfterSetting
  <2> HIDE DEF go, rest
  <2>2. setting[t] = [todo |-> setting[t].todo, store |-> setting[t].store,
                      failed |-> setting[t].failed, busy |-> setting[t].busy]
    BY <1>1 DEF InMaking
  <2> QED BY <2>1, <2>2
<1>3. \A i \in 1..Len(rest) : Legal(rest[i])
  <2>1. setting[t].todo \in Seq(Settings)
    BY <1>1 DEF InMaking
  <2>2. \A i \in 1..Len(rest) : rest[i] = setting[t].todo[i + 1] /\ i + 1 \in 1..Len(setting[t].todo)
    BY <2>1
  <2> QED BY <2>2 DEF SettingsInv, AtWork
<1>4. after.todo \in {rest, <<>>} /\ (~failed => after.todo = rest)
  OBVIOUS
<1>5. \A i \in 1..Len(after.todo) : Legal(after.todo[i])
  BY <1>3, <1>4, SMTT(40)
<1>6. after \in InMaking
  BY <1>1 DEF InMaking
<1>7. after.store = Nothing /\ after.busy = setting[t].busy /\ after.failed = (setting[t].failed \/ failed)
  OBVIOUS
<1> HIDE DEF after
<1> QED BY <1>2, <1>4, <1>5, <1>6, <1>7

\* A thread changes, the others stay: what they are about.
LEMMA OneThread ==
  ASSUME SettingsInv, NEW t \in Setters, NEW s \in InMaking, setting' = [setting EXCEPT ![t] = s],
         ~s.busy => s.todo = <<>> /\ s.store = Nothing,
         s.store # Nothing => s.todo # <<>> /\ s.store = Head(s.todo),
         \A i \in 1..Len(s.todo) : Legal(s.todo[i])
  PROVE  /\ setting' \in [Setters -> InMaking] /\ setting'[t] = s
         /\ \A u \in Setters \ {t} : setting'[u] = setting[u]
         /\ \A u \in Setters : ~Busy(u)' => setting'[u].todo = <<>> /\ setting'[u].store = Nothing
         /\ \A u \in Setters : setting'[u].store # Nothing =>
              setting'[u].todo # <<>> /\ setting'[u].store = Head(setting'[u].todo)
         /\ \A u \in Setters : \A i \in 1..Len(setting'[u].todo) : Legal(setting'[u].todo[i])
<1>1. setting \in [Setters -> InMaking]
  BY DEF SettingsInv, SettingsTyped
<1>2. setting'[t] = s /\ \A u \in Setters \ {t} : setting'[u] = setting[u]
  BY <1>1
<1>3. Busy(t)' = s.busy /\ \A u \in Setters \ {t} : Busy(u)' = Busy(u)
  BY <1>2 DEF Busy
<1> QED BY <1>1, <1>2, <1>3 DEF SettingsInv, AtWork

\* ... and when its record is cleared.
LEMMA ThreadReturns ==
  ASSUME SettingsInv, NEW t \in Setters, setting' = [setting EXCEPT ![t] = NoSetting]
  PROVE  /\ setting' \in [Setters -> InMaking] /\ setting'[t] = NoSetting
         /\ \A u \in Setters \ {t} : setting'[u] = setting[u]
         /\ \A u \in Setters : ~Busy(u)' => setting'[u].todo = <<>> /\ setting'[u].store = Nothing
         /\ \A u \in Setters : setting'[u].store # Nothing =>
              setting'[u].todo # <<>> /\ setting'[u].store = Head(setting'[u].todo)
         /\ \A u \in Setters : \A i \in 1..Len(setting'[u].todo) : Legal(setting'[u].todo[i])
<1> DEFINE s == NoSetting
<1>1. s \in InMaking /\ s.todo = <<>> /\ s.store = Nothing /\ ~s.busy
  BY DEF NoSetting, InMaking
<1>2. setting' = [setting EXCEPT ![t] = s]
  OBVIOUS
<1>3. 1..Len(s.todo) = {}
  BY <1>1
<1>4. s = NoSetting
  OBVIOUS
<1> HIDE DEF s
<1>5. \A i \in 1..Len(s.todo) : Legal(s.todo[i])
  BY <1>3
<1>6. s.store # Nothing => s.todo # <<>> /\ s.store = Head(s.todo)
  BY <1>1
<1>7. ~s.busy => s.todo = <<>> /\ s.store = Nothing
  BY <1>1
<1> QED BY <1>1, <1>2, <1>4, <1>5, <1>6, <1>7, OneThread

-----------------------------------------------------------------------------
\* The calls of a client begin.
LEMMA ClientSetsKeeps ==
  ASSUME SettingsInv, NEW c \in Users, NEW todo \in Seq(Settings),
         \A i \in 1..Len(todo) : Legal(todo[i]), ClientSets(c, todo)
  PROVE  SettingsInv'
<1> DEFINE s == [NoSetting EXCEPT !.todo = todo, !.busy = TRUE]
<1>1. c \in Setters /\ MonitorThread \in Setters /\ c # MonitorThread
  BY DEF Setters, SettingsInv, SettingsFit
<1>2. s \in InMaking /\ s.todo = todo /\ s.store = Nothing /\ s.busy
  BY DEF NoSetting, InMaking
<1>3. /\ ~Busy(c) /\ setting' = [setting EXCEPT ![c] = s] /\ mixed' = (mixed \/ \E u \in Setters : Busy(u))
      /\ calls < MaxCalls /\ calls' = calls + 1
      /\ UNCHANGED <<stored, maxVel, scale, reverse, controlMode, dict, reboots, unseen, doubtful, masked, rescaled>>
  BY DEF ClientSets, BeginSetting
<1> HIDE DEF s
<1>4. /\ setting' \in [Setters -> InMaking] /\ setting'[c] = s
      /\ \A u \in Setters \ {c} : setting'[u] = setting[u]
      /\ \A u \in Setters : ~Busy(u)' => setting'[u].todo = <<>> /\ setting'[u].store = Nothing
      /\ \A u \in Setters : setting'[u].store # Nothing =>
           setting'[u].todo # <<>> /\ setting'[u].store = Head(setting'[u].todo)
      /\ \A u \in Setters : \A i \in 1..Len(setting'[u].todo) : Legal(setting'[u].todo[i])
  BY <1>1, <1>2, <1>3, OneThread
<1>5. SettingsTyped'
  <2>1. calls' \in 0..MaxCalls /\ mixed' \in BOOLEAN
    BY <1>3 DEF SettingsInv, SettingsTyped, SettingsFit
  <2> QED BY <1>3, <1>4, <2>1 DEF SettingsInv, SettingsTyped
<1>6. AtWork'
  <2>1. Busy(MonitorThread)' = Busy(MonitorThread)
    BY <1>1, <1>4 DEF Busy
  <2>2. ~mixed' => \A t, u \in Setters : Busy(t)' /\ Busy(u)' => t = u
    BY <1>3, <1>4 DEF Busy
  <2> QED BY <1>3, <1>4, <2>1, <2>2 DEF SettingsInv, AtWork, Busy, Legal
<1>7. Settled'
  <2> SUFFICES ASSUME Counts' PROVE /\ \A k \in Keys : (\A t \in Setters : ~Pending(t, k)') => Agree(k)'
                                   /\ \A t \in Setters : setting'[t].store = Nothing
    BY DEF Settled
  <2>1. Counts /\ \A u \in Setters : setting[u].store = Nothing
    BY <1>1, <1>3, <1>4 DEF Counts, Busy, SettingsInv, AtWork
  <2>2. \A k \in Keys : Agree(k)' = Agree(k)
    BY <1>3 DEF Agree, ObjectOf, Internal
  <2>3. \A k \in Keys, t \in Setters : Pending(t, k) => Pending(t, k)'
    BY <1>1, <1>2, <1>4, <2>1 DEF Pending
  <2>4. \A t \in Setters : setting'[t].store = Nothing
    BY <1>2, <1>4, <2>1
  <2> QED BY <2>1, <2>2, <2>3, <2>4 DEF SettingsInv, Settled
<1> QED BY <1>5, <1>6, <1>7 DEF SettingsInv, SettingsFit

\* A thread goes on with its call.
LEMMA GoesOn ==
  ASSUME SettingsInv, NEW t \in Setters, setting[t].todo # <<>>,
         NEW s \in InMaking, setting' = [setting EXCEPT ![t] = s], s.busy = setting[t].busy,
         s.store # Nothing => s.todo # <<>> /\ s.store = Head(s.todo),
         \A i \in 1..Len(s.todo) : Legal(s.todo[i]),
         controlMode' = controlMode, mixed' = mixed
  PROVE  /\ setting' \in [Setters -> InMaking] /\ setting'[t] = s
         /\ \A u \in Setters \ {t} : setting'[u] = setting[u]
         /\ \A u \in Setters : Busy(u)' = Busy(u)
         /\ Busy(t) /\ AtWork'
<1>1. Busy(t) /\ s.busy
  BY AtWorkIsBusy DEF SettingsInv, Busy
<1>2. /\ setting' \in [Setters -> InMaking] /\ setting'[t] = s
      /\ \A u \in Setters \ {t} : setting'[u] = setting[u]
      /\ \A u \in Setters : ~Busy(u)' => setting'[u].todo = <<>> /\ setting'[u].store = Nothing
      /\ \A u \in Setters : setting'[u].store # Nothing =>
           setting'[u].todo # <<>> /\ setting'[u].store = Head(setting'[u].todo)
      /\ \A u \in Setters : \A i \in 1..Len(setting'[u].todo) : Legal(setting'[u].todo[i])
  BY <1>1, OneThread
<1>3. \A u \in Setters : Busy(u)' = Busy(u)
  BY <1>1, <1>2 DEF Busy
<1>4. MonitorThread \in Setters
  BY DEF Setters
<1>5. AtWork'
  BY <1>2, <1>3, <1>4 DEF SettingsInv, AtWork, Legal
<1> QED BY <1>1, <1>2, <1>3, <1>5

\* A setting is in the drive and not yet stored.
LEMMA DownloadKeeps ==
  ASSUME SettingsInv, NEW t \in Setters, Download(t)
  PROVE  SettingsInv'
<1> DEFINE h == Head(setting[t].todo)
           s == [setting[t] EXCEPT !.store = h]
<1>1. /\ setting[t].todo # <<>> /\ setting[t].store = Nothing
      /\ dict' = [dict EXCEPT ![ObjectOf(h.key)] = Internal(h.key, h.value)]
      /\ setting' = [setting EXCEPT ![t].store = h]
      /\ UNCHANGED <<stored, maxVel, scale, reverse, controlMode, calls, reboots, unseen,
                     doubtful, mixed, masked, rescaled>>
  BY DEF Download, settingsGhosts
<1>2. setting[t] \in InMaking /\ h \in Settings /\ setting \in [Setters -> InMaking]
  BY <1>1 DEF SettingsInv, SettingsTyped, InMaking
<1>3. /\ s \in InMaking /\ s.todo = setting[t].todo /\ s.store = h /\ s.busy = setting[t].busy
      /\ s.failed = setting[t].failed /\ setting' = [setting EXCEPT ![t] = s]
  BY <1>1, <1>2 DEF InMaking
<1>4. h.key \in Keys /\ h.value \in Int /\ h # Nothing
  BY <1>2, SettingFields
<1> HIDE DEF s
<1>5. /\ setting' \in [Setters -> InMaking] /\ setting'[t] = s
      /\ \A u \in Setters \ {t} : setting'[u] = setting[u]
      /\ \A u \in Setters : Busy(u)' = Busy(u)
      /\ Busy(t) /\ AtWork'
  <2>1. \A i \in 1..Len(s.todo) : Legal(s.todo[i])
    BY <1>3 DEF SettingsInv, AtWork
  <2> QED BY <1>1, <1>3, <2>1, GoesOn
<1>6. SettingsTyped'
  <2>1. dict' \in [Objects -> Int]
    BY <1>1, <1>4, UnitsAreNumbers DEF SettingsInv, SettingsTyped
  <2> QED BY <1>1, <1>5, <2>1 DEF SettingsInv, SettingsTyped
<1>7. Settled'
  <2> SUFFICES ASSUME Counts'
               PROVE  /\ \A k \in Keys : (\A u \in Setters : ~Pending(u, k)') => Agree(k)'
                      /\ \A u \in Setters : setting'[u].store # Nothing => Loaded(setting[u].store)'
    BY DEF Settled
  <2>1. Counts /\ ~mixed
    <3>1. MonitorThread \in Setters /\ setting'[MonitorThread].failed = setting[MonitorThread].failed
      BY <1>3, <1>5 DEF Setters
    <3> QED BY <1>1, <1>5, <3>1 DEF Counts
  <2>2. \A k \in Keys : ObjectOf(k)' = ObjectOf(k) /\ \A v : Internal(k, v)' = Internal(k, v)
    BY <1>1 DEF ObjectOf, Internal
  <2>3. \A u \in Setters \ {t} : setting'[u].store = Nothing
    BY <1>5, <2>1, OthersIdle DEF SettingsInv
  <2>4. Loaded(setting[t].store)'
    BY <1>1, <1>3, <1>4, <1>5, <2>2, OwnObjects DEF SettingsInv, SettingsTyped, Loaded
  <2>5. ASSUME NEW k \in Keys, \A u \in Setters : ~Pending(u, k)' PROVE Agree(k)'
    <3>1. k # h.key
      BY <1>3, <1>4, <1>5, <2>5 DEF Pending
    <3>2. \A u \in Setters : ~Pending(u, k)
      BY <1>1, <1>3, <1>5, <2>5 DEF Pending
    <3>3. Agree(k)
      BY <2>1, <3>2 DEF SettingsInv, Settled
    <3>4. dict'[ObjectOf(k)] = dict[ObjectOf(k)]
      BY <1>1, <1>4, <3>1, OwnObjects DEF SettingsInv, SettingsTyped
    <3> QED BY <1>1, <2>2, <3>3, <3>4 DEF Agree
  <2> QED BY <1>3, <1>5, <2>3, <2>4, <2>5
<1> QED BY <1>1, <1>5, <1>6, <1>7 DEF SettingsInv, SettingsFit

\* It may be in the drive, and the caller is told that it is not.
LEMMA LateKeeps ==
  ASSUME SettingsInv, NEW t \in Setters, Late(t)
  PROVE  SettingsInv'
<1> DEFINE h == Head(setting[t].todo)
           s == AfterSetting(t, TRUE)
<1>1. /\ setting[t].todo # <<>> /\ setting[t].store = Nothing
      /\ dict' = [dict EXCEPT ![ObjectOf(h.key)] = Internal(h.key, h.value)]
      /\ setting' = [setting EXCEPT ![t] = s] /\ doubtful' = TRUE
      /\ UNCHANGED <<stored, maxVel, scale, reverse, controlMode, calls, reboots, unseen, mixed, masked, rescaled>>
  BY DEF Late
<1>2. h \in Settings
  BY <1>1 DEF SettingsInv, SettingsTyped, InMaking
<1>3. h.key \in Keys /\ h.value \in Int
  BY <1>2, SettingFields
<1>4. /\ s \in InMaking /\ s.store = Nothing /\ s.busy = setting[t].busy /\ s.failed
      /\ \A i \in 1..Len(s.todo) : Legal(s.todo[i])
  BY <1>1, AfterIsTyped
<1> HIDE DEF s
<1>5. /\ setting' \in [Setters -> InMaking] /\ setting'[t] = s
      /\ \A u \in Setters \ {t} : setting'[u] = setting[u]
      /\ \A u \in Setters : Busy(u)' = Busy(u)
      /\ Busy(t) /\ AtWork'
  BY <1>1, <1>4, GoesOn
<1>6. SettingsTyped'
  <2>1. dict' \in [Objects -> Int]
    BY <1>1, <1>3, UnitsAreNumbers DEF SettingsInv, SettingsTyped
  <2> QED BY <1>1, <1>5, <2>1 DEF SettingsInv, SettingsTyped
<1>7. ~Counts'
  BY <1>1, <1>4, <1>5 DEF Counts, SettingsInv, AtWork, Setters
<1> QED BY <1>1, <1>5, <1>6, <1>7 DEF SettingsInv, SettingsFit, Settled

\* Nothing happens, and the caller is told.
LEMMA RefusedKeeps ==
  ASSUME SettingsInv, NEW t \in Setters, Refused(t)
  PROVE  SettingsInv'
<1> DEFINE s == AfterSetting(t, TRUE)
<1>1. /\ setting[t].todo # <<>> /\ setting[t].store = Nothing
      /\ setting' = [setting EXCEPT ![t] = s]
      /\ UNCHANGED <<stored, maxVel, scale, reverse, controlMode, dict, calls, reboots, unseen,
                     doubtful, mixed, masked, rescaled>>
  BY DEF Refused, settingsGhosts
<1>2. /\ s \in InMaking /\ s.store = Nothing /\ s.busy = setting[t].busy /\ s.failed
      /\ \A i \in 1..Len(s.todo) : Legal(s.todo[i])
  BY <1>1, AfterIsTyped
<1> HIDE DEF s
<1>3. /\ setting' \in [Setters -> InMaking] /\ setting'[t] = s
      /\ \A u \in Setters \ {t} : setting'[u] = setting[u]
      /\ \A u \in Setters : Busy(u)' = Busy(u)
      /\ Busy(t) /\ AtWork'
  BY <1>1, <1>2, GoesOn
<1>4. SettingsTyped'
  BY <1>1, <1>3 DEF SettingsInv, SettingsTyped
<1>5. Settled'
  <2> SUFFICES ASSUME Counts'
               PROVE  /\ \A k \in Keys : (\A u \in Setters : ~Pending(u, k)') => Agree(k)'
                      /\ \A u \in Setters : setting'[u].store # Nothing => Loaded(setting[u].store)'
    BY DEF Settled
  <2>1. t # MonitorThread /\ Counts
    BY <1>1, <1>2, <1>3 DEF Counts, SettingsInv, AtWork, Setters
  <2>2. \A k \in Keys, u \in Setters : Pending(u, k) => Pending(u, k)'
    BY <1>1, <1>3, <2>1 DEF Pending
  <2>3. \A k \in Keys : Agree(k)' = Agree(k)
    BY <1>1 DEF Agree, ObjectOf, Internal
  <2>4. ASSUME NEW u \in Setters, setting'[u].store # Nothing PROVE Loaded(setting[u].store)'
    <3>1. setting'[u].store = setting[u].store
      BY <1>2, <1>3, <2>4
    <3>2. Loaded(setting[u].store)
      BY <2>1, <2>4, <3>1 DEF SettingsInv, Settled
    <3> QED BY <1>1, <3>1, <3>2 DEF Loaded, ObjectOf, Internal
  <2> QED BY <2>1, <2>2, <2>3, <2>4 DEF SettingsInv, Settled
<1> QED BY <1>1, <1>3, <1>4, <1>5 DEF SettingsInv, SettingsFit

\* What was downloaded is stored.
LEMMA StoreKeeps ==
  ASSUME SettingsInv, NEW t \in Setters, StoreSetting(t)
  PROVE  SettingsInv'
<1> DEFINE h == setting[t].store
           s == AfterSetting(t, FALSE)
<1>1. /\ h # Nothing /\ setting[t].todo # <<>> /\ h = Head(setting[t].todo)
      /\ stored' = [stored EXCEPT ![h.key] = h.value]
      /\ setting' = [setting EXCEPT ![t] = s]
      /\ UNCHANGED <<maxVel, scale, reverse, controlMode, dict, calls, reboots, unseen,
                     doubtful, mixed, masked, rescaled>>
  BY DEF StoreSetting, settingsGhosts, SettingsInv, AtWork
<1>2. setting[t].todo \in Seq(Settings) /\ h \in Settings
  BY <1>1 DEF SettingsInv, SettingsTyped, InMaking
<1>3. h.key \in Keys /\ h.value \in Int
  BY <1>2, SettingFields
<1>4. Legal(h)
  BY <1>1, <1>2 DEF SettingsInv, AtWork
<1>5. /\ s \in InMaking /\ s.store = Nothing /\ s.busy = setting[t].busy /\ s.failed = setting[t].failed
      /\ s.todo = Tail(setting[t].todo) /\ \A i \in 1..Len(s.todo) : Legal(s.todo[i])
  BY <1>1, AfterIsTyped DEF SettingsInv, SettingsTyped, InMaking
<1> HIDE DEF s, h
<1>6. /\ setting' \in [Setters -> InMaking] /\ setting'[t] = s
      /\ \A u \in Setters \ {t} : setting'[u] = setting[u]
      /\ \A u \in Setters : Busy(u)' = Busy(u)
      /\ Busy(t) /\ AtWork'
  BY <1>1, <1>5, GoesOn
<1>7. stored' \in Made /\ stored'[h.key] = h.value /\ \A k \in Keys \ {h.key} : stored'[k] = stored[k]
  BY <1>1, <1>3 DEF SettingsInv, SettingsTyped, Made, Keys
<1>8. SettingsTyped'
  <2>1. /\ stored'.min \in Positions /\ stored'.max \in Positions
        /\ stored'.refSpeed \in Speeds /\ stored'.refAcceleration \in Speeds
    BY <1>3, <1>4, <1>7 DEF SettingsInv, SettingsTyped, Legal, Keys, Made
  <2> QED BY <1>1, <1>6, <1>7, <2>1 DEF SettingsInv, SettingsTyped
<1>9. Settled'
  <2> SUFFICES ASSUME Counts'
               PROVE  /\ \A k \in Keys : (\A u \in Setters : ~Pending(u, k)') => Agree(k)'
                      /\ \A u \in Setters : setting'[u].store = Nothing
    BY DEF Settled
  <2>1. Counts /\ ~mixed
    <3>1. MonitorThread \in Setters /\ setting'[MonitorThread].failed = setting[MonitorThread].failed
      BY <1>5, <1>6 DEF Setters
    <3> QED BY <1>1, <1>6, <3>1 DEF Counts
  <2>2. \A k \in Keys : ObjectOf(k)' = ObjectOf(k) /\ \A v : Internal(k, v)' = Internal(k, v)
    BY <1>1 DEF ObjectOf, Internal
  <2>3. \A u \in Setters : setting'[u].store = Nothing
    BY <1>5, <1>6, <2>1, OthersIdle DEF SettingsInv
  <2>4. ASSUME NEW k \in Keys, \A u \in Setters : ~Pending(u, k)' PROVE Agree(k)'
    <3>1. CASE k = h.key
      <4>1. dict[ObjectOf(k)] = Internal(k, h.value)
        BY <1>1, <2>1, <3>1 DEF SettingsInv, Settled, Loaded, h
      <4> QED BY <1>1, <1>7, <2>2, <3>1, <4>1 DEF Agree
    <3>2. CASE k # h.key
      <4>1. ~Pending(t, k)
        <5>1. ASSUME t = MonitorThread, NEW i \in 1..Len(setting[t].todo), setting[t].todo[i].key = k PROVE FALSE
          <6>1. i # 1
            BY <1>1, <1>2, <3>2, <5>1
          <6>2. i - 1 \in 1..Len(s.todo) /\ s.todo[i - 1] = setting[t].todo[i]
            BY <1>2, <1>5, <6>1
          <6> QED BY <1>6, <2>4, <5>1, <6>2 DEF Pending
        <5> QED BY <3>2, <5>1 DEF Pending, h
      <4>2. \A u \in Setters \ {t} : ~Pending(u, k)
        BY <1>6, <2>4 DEF Pending
      <4>3. Agree(k)
        BY <2>1, <4>1, <4>2 DEF SettingsInv, Settled
      <4> QED BY <1>1, <1>7, <2>2, <3>2, <4>3 DEF Agree
    <3> QED BY <3>1, <3>2
  <2> QED BY <2>3, <2>4
<1> QED BY <1>1, <1>6, <1>8, <1>9 DEF SettingsInv, SettingsFit

-----------------------------------------------------------------------------
\* A call of a client returns.
LEMMA ReturnKeepsSettings ==
  ASSUME SettingsInv, NEW c \in Users, ReturnSet(c)
  PROVE  SettingsInv'
<1>1. c \in Setters /\ MonitorThread \in Setters /\ c # MonitorThread
  BY DEF Setters, SettingsInv, SettingsFit
<1>2. /\ setting[c].todo = <<>> /\ setting[c].store = Nothing /\ setting' = [setting EXCEPT ![c] = NoSetting]
      /\ UNCHANGED <<stored, maxVel, scale, reverse, controlMode, dict, calls, reboots, unseen,
                     doubtful, mixed, masked, rescaled>>
  BY DEF ReturnSet, settingsGhosts
<1>3. NoSetting \in InMaking /\ NoSetting.todo = <<>> /\ NoSetting.store = Nothing /\ ~NoSetting.busy
  BY DEF NoSetting, InMaking
<1>4. /\ setting' \in [Setters -> InMaking] /\ setting'[c] = NoSetting
      /\ \A u \in Setters \ {c} : setting'[u] = setting[u]
      /\ \A u \in Setters : ~Busy(u)' => setting'[u].todo = <<>> /\ setting'[u].store = Nothing
      /\ \A u \in Setters : setting'[u].store # Nothing =>
           setting'[u].todo # <<>> /\ setting'[u].store = Head(setting'[u].todo)
      /\ \A u \in Setters : \A i \in 1..Len(setting'[u].todo) : Legal(setting'[u].todo[i])
  BY <1>1, <1>2, ThreadReturns
<1>5. SettingsTyped'
  BY <1>2, <1>4 DEF SettingsInv, SettingsTyped
<1>6. AtWork'
  <2>1. \A u \in Setters : Busy(u)' => Busy(u)
    BY <1>3, <1>4 DEF Busy
  <2> QED BY <1>1, <1>2, <1>4, <2>1 DEF SettingsInv, AtWork, Legal
<1>7. Settled'
  <2>1. Counts' = Counts
    BY <1>1, <1>2, <1>4 DEF Counts, Busy
  <2>2. \A k \in Keys, u \in Setters : Pending(u, k) => Pending(u, k)'
    BY <1>1, <1>2, <1>4 DEF Pending
  <2>3. \A k \in Keys : Agree(k)' = Agree(k)
    BY <1>2 DEF Agree, ObjectOf, Internal
  <2>4. ASSUME Counts, NEW u \in Setters, setting'[u].store # Nothing PROVE Loaded(setting[u].store)'
    <3>1. setting'[u].store = setting[u].store
      BY <1>3, <1>4, <2>4
    <3>2. Loaded(setting[u].store)
      BY <2>4, <3>1 DEF SettingsInv, Settled
    <3> QED BY <1>2, <3>1, <3>2 DEF Loaded, ObjectOf, Internal
  <2> QED BY <2>1, <2>2, <2>3, <2>4 DEF SettingsInv, Settled
<1> QED BY <1>2, <1>5, <1>6, <1>7 DEF SettingsInv, SettingsFit

\* The monitor sets out to make all that is stored.
LEMMA InitializeKeeps ==
  ASSUME SettingsInv, Initialize
  PROVE  SettingsInv'
<1> DEFINE todo == <<Set("min", stored.min), Set("max", stored.max),
                     Set("refSpeed", stored.refSpeed), Set("refAcceleration", stored.refAcceleration)>>
           s == [NoSetting EXCEPT !.todo = todo, !.busy = TRUE]
<1>1. /\ ~Busy(MonitorThread) /\ setting' = [setting EXCEPT ![MonitorThread] = s]
      /\ mixed' = (mixed \/ \E u \in Setters : Busy(u))
      /\ controlMode = "NOT_CONFIGURED" /\ masked' = FALSE /\ rescaled' = FALSE
      /\ UNCHANGED <<stored, maxVel, scale, reverse, controlMode, dict, calls, reboots, unseen, doubtful>>
  BY DEF Initialize, BeginSetting
<1>2. MonitorThread \in Setters
  BY DEF Setters
<1>3. /\ stored.min \in Int /\ stored.max \in Int /\ stored.refSpeed \in Int /\ stored.refAcceleration \in Int
      /\ stored.min \in Positions /\ stored.max \in Positions
      /\ stored.refSpeed \in Speeds /\ stored.refAcceleration \in Speeds
  BY DEF SettingsInv, SettingsTyped, Made
<1>4. todo \in Seq(Settings) /\ Len(todo) = 4
  <2>1. /\ Set("min", stored.min) \in Settings /\ Set("max", stored.max) \in Settings
        /\ Set("refSpeed", stored.refSpeed) \in Settings
        /\ Set("refAcceleration", stored.refAcceleration) \in Settings
    BY <1>3 DEF Set, Settings, Keys
  <2> HIDE DEF Settings
  <2> QED BY <2>1
<1>5. \A i \in 1..Len(todo) : Legal(todo[i])
  <2>1. Legal(todo[1]) /\ Legal(todo[2]) /\ Legal(todo[3]) /\ Legal(todo[4])
    BY <1>3 DEF Legal, Set
  <2> QED BY <1>4, <2>1
<1>6. \A k \in Keys : \E i \in 1..Len(todo) : todo[i].key = k
  <2>1. todo[1].key = "min" /\ todo[2].key = "max" /\ todo[3].key = "refSpeed" /\ todo[4].key = "refAcceleration"
    BY DEF Set
  <2>2. 1 \in 1..Len(todo) /\ 2 \in 1..Len(todo) /\ 3 \in 1..Len(todo) /\ 4 \in 1..Len(todo)
    BY <1>4
  <2> HIDE DEF todo
  <2> QED BY <2>1, <2>2 DEF Keys
<1> HIDE DEF todo
<1>7. s \in InMaking /\ s.todo = todo /\ s.store = Nothing /\ s.busy
  BY <1>4 DEF NoSetting, InMaking
<1> HIDE DEF s
<1>8. /\ setting' \in [Setters -> InMaking] /\ setting'[MonitorThread] = s
      /\ \A u \in Setters \ {MonitorThread} : setting'[u] = setting[u]
      /\ \A u \in Setters : ~Busy(u)' => setting'[u].todo = <<>> /\ setting'[u].store = Nothing
      /\ \A u \in Setters : setting'[u].store # Nothing =>
           setting'[u].todo # <<>> /\ setting'[u].store = Head(setting'[u].todo)
      /\ \A u \in Setters : \A i \in 1..Len(setting'[u].todo) : Legal(setting'[u].todo[i])
  BY <1>1, <1>2, <1>5, <1>7, OneThread
<1>9. SettingsTyped'
  BY <1>1, <1>8 DEF SettingsInv, SettingsTyped
<1>10. AtWork'
  <2>1. ~mixed' => \A t, u \in Setters : Busy(t)' /\ Busy(u)' => t = u
    BY <1>1, <1>8 DEF Busy
  <2> QED BY <1>1, <1>8, <2>1 DEF AtWork, Legal
<1>11. Settled'
  <2>1. \A k \in Keys : Pending(MonitorThread, k)'
    BY <1>6, <1>7, <1>8 DEF Pending
  <2>2. Counts' => \A u \in Setters : setting'[u].store = Nothing
    BY <1>1, <1>7, <1>8 DEF Counts, SettingsInv, AtWork
  <2> QED BY <1>2, <2>1, <2>2 DEF Settled
<1> QED BY <1>1, <1>9, <1>10, <1>11 DEF SettingsInv, SettingsFit

\* ... and is through with it.
LEMMA InitializedKeeps ==
  ASSUME SettingsInv, Initialized
  PROVE  SettingsInv'
<1>1. /\ Busy(MonitorThread) /\ setting[MonitorThread].todo = <<>> /\ setting[MonitorThread].store = Nothing
      /\ controlMode' = (IF setting[MonitorThread].failed THEN controlMode ELSE "CONFIGURED")
      /\ doubtful' = (doubtful /\ setting[MonitorThread].failed)
      /\ setting' = [setting EXCEPT ![MonitorThread] = NoSetting]
      /\ UNCHANGED <<stored, maxVel, scale, reverse, dict, calls, reboots, unseen, mixed, masked, rescaled>>
  BY DEF Initialized
<1>2. MonitorThread \in Setters
  BY DEF Setters
<1>3. NoSetting \in InMaking /\ NoSetting.todo = <<>> /\ NoSetting.store = Nothing /\ ~NoSetting.busy
  BY DEF NoSetting, InMaking
<1>4. /\ setting' \in [Setters -> InMaking] /\ setting'[MonitorThread] = NoSetting
      /\ \A u \in Setters \ {MonitorThread} : setting'[u] = setting[u]
      /\ \A u \in Setters : ~Busy(u)' => setting'[u].todo = <<>> /\ setting'[u].store = Nothing
      /\ \A u \in Setters : setting'[u].store # Nothing =>
           setting'[u].todo # <<>> /\ setting'[u].store = Head(setting'[u].todo)
      /\ \A u \in Setters : \A i \in 1..Len(setting'[u].todo) : Legal(setting'[u].todo[i])
  BY <1>1, <1>2, ThreadReturns
<1>5. SettingsTyped'
  <2>1. controlMode' \in {"NOT_CONFIGURED", "CONFIGURED"} /\ doubtful' \in BOOLEAN
    BY <1>1 DEF SettingsInv, SettingsTyped
  <2> QED BY <1>1, <1>4, <2>1 DEF SettingsInv, SettingsTyped
<1>6. AtWork'
  <2>1. ~Busy(MonitorThread)' /\ \A u \in Setters : Busy(u)' => Busy(u)
    BY <1>2, <1>3, <1>4 DEF Busy
  <2> QED BY <1>1, <1>4, <2>1 DEF SettingsInv, AtWork, Legal
<1>7. Settled'
  <2>1. Counts' => Counts
    BY <1>1, <1>2, <1>3, <1>4 DEF Counts, Busy, SettingsInv, AtWork
  <2>2. \A k \in Keys, u \in Setters : Pending(u, k) => Pending(u, k)'
    BY <1>1, <1>2, <1>4 DEF Pending
  <2>3. \A k \in Keys : Agree(k)' = Agree(k)
    BY <1>1 DEF Agree, ObjectOf, Internal
  <2>4. ASSUME Counts, NEW u \in Setters, setting'[u].store # Nothing PROVE Loaded(setting[u].store)'
    <3>1. setting'[u].store = setting[u].store
      BY <1>3, <1>4, <2>4
    <3>2. Loaded(setting[u].store)
      BY <2>4, <3>1 DEF SettingsInv, Settled
    <3> QED BY <1>1, <3>1, <3>2 DEF Loaded, ObjectOf, Internal
  <2> QED BY <2>1, <2>2, <2>3, <2>4 DEF SettingsInv, Settled
<1> QED BY <1>1, <1>5, <1>6, <1>7 DEF SettingsInv, SettingsFit

\* Steps that leave the threads alone: new speed limits, new units, a restart, and
\* when it is noticed.
LEMMA WorldKeeps ==
  ASSUME SettingsInv, setVelLimitsRaw \/ Rescale \/ Reboot \/ Noticed \/ UNCHANGED settingsVars
  PROVE  SettingsInv'
<1> USE DEF SettingsInv
<1>1. setting' = setting /\ mixed' = mixed /\ stored' = stored /\ reverse' = reverse
  BY DEF setVelLimitsRaw, Rescale, Reboot, Noticed, settingsVars, settingsGhosts
<1>2. AtWork'
  <2>1. controlMode' \in {controlMode, "NOT_CONFIGURED"}
    BY DEF setVelLimitsRaw, Rescale, Reboot, Noticed, settingsVars
  <2>2. (Busy(MonitorThread)' => controlMode' = "NOT_CONFIGURED") /\ \A t \in Setters : Busy(t)' = Busy(t)
    BY <1>1, <2>1 DEF AtWork, Busy
  <2> QED BY <1>1, <2>2 DEF AtWork, Legal
<1>3. CASE setVelLimitsRaw \/ UNCHANGED settingsVars
  <2>1. /\ UNCHANGED <<stored, scale, reverse, controlMode, dict, setting, reboots, unseen,
                       doubtful, mixed, masked, rescaled>>
        /\ maxVel' \in Speeds /\ calls' \in 0..MaxCalls
    BY <1>3 DEF setVelLimitsRaw, settingsVars, settingsGhosts, SettingsTyped, SettingsFit
  <2>2. SettingsTyped'
    BY <2>1 DEF SettingsTyped
  <2>3. Settled'
    BY <2>1, ZenonT(40) DEF Settled, Counts, Busy, Pending, Agree, Loaded, ObjectOf, Internal
  <2> QED BY <1>2, <2>2, <2>3 DEF SettingsFit
<1>4. CASE Rescale
  <2>1. SettingsTyped'
    BY <1>4 DEF Rescale, SettingsTyped, SettingsFit
  <2>2. ~Counts'
    BY <1>4 DEF Rescale, Counts
  <2> QED BY <1>2, <2>1, <2>2 DEF Settled, SettingsFit
<1>5. CASE Reboot
  <2>1. SettingsTyped'
    <3>1. dict' \in [Objects -> Int] /\ masked' \in BOOLEAN /\ reboots' \in 0..MaxReboots
      <4>1. masked' \in BOOLEAN
        BY <1>5 DEF Reboot, Busy, SettingsTyped, InMaking, Setters
      <4> QED BY <1>5, <4>1 DEF Reboot, Factory, SettingsTyped, SettingsFit
    <3> QED BY <1>5, <3>1 DEF Reboot, SettingsTyped
  <2>2. ~Counts'
    BY <1>5 DEF Reboot, Counts, Busy
  <2> QED BY <1>2, <2>1, <2>2 DEF Settled, SettingsFit
<1>6. CASE Noticed
  <2>1. SettingsTyped'
    <3>1. masked' \in BOOLEAN
      BY <1>6 DEF Noticed, Busy, SettingsTyped, InMaking, Setters
    <3> QED BY <1>6, <3>1 DEF Noticed, SettingsTyped
  <2>2. ~Counts'
    BY <1>6 DEF Noticed, Counts, Busy
  <2> QED BY <1>2, <2>1, <2>2 DEF Settled, SettingsFit
<1> QED BY <1>3, <1>4, <1>5, <1>6

\* The calls of clients that set something.
LEMMA ClientKeeps ==
  ASSUME SettingsInv, NEW c \in Users, setLimitsRaw(c) \/ setRefSpeedRaw(c) \/ setRefAccelerationRaw(c)
  PROVE  SettingsInv'
<1>1. Positions \subseteq Int /\ Speeds \subseteq Int
  BY DEF SettingsInv, SettingsFit
<1>2. CASE setLimitsRaw(c)
  <2> PICK lo, hi \in Positions : ClientSets(c, <<Set("min", lo), Set("max", hi)>>)
    BY <1>2 DEF setLimitsRaw
  <2>1. Set("min", lo) \in Settings /\ Set("max", hi) \in Settings
    BY <1>1 DEF Set, Settings, Keys
  <2>2. Legal(Set("min", lo)) /\ Legal(Set("max", hi))
    BY DEF Legal, Set
  <2> DEFINE a == Set("min", lo)
             b == Set("max", hi)
  <2> HIDE DEF a, b, Settings
  <2>3. <<a, b>> \in Seq(Settings) /\ \A i \in 1..Len(<<a, b>>) : Legal(<<a, b>>[i])
    BY <2>1, <2>2 DEF a, b
  <2>4. ClientSets(c, <<a, b>>)
    BY DEF a, b
  <2> QED BY <2>3, <2>4, ClientSetsKeeps
<1>3. CASE setRefSpeedRaw(c) \/ setRefAccelerationRaw(c)
  <2> PICK k \in {"refSpeed", "refAcceleration"}, v \in Speeds : ClientSets(c, <<Set(k, v)>>)
    BY <1>3 DEF setRefSpeedRaw, setRefAccelerationRaw
  <2> DEFINE a == Set(k, v)
  <2>1. a \in Settings /\ Legal(a)
    BY <1>1 DEF Set, Settings, Keys, Legal
  <2> HIDE DEF a, Settings
  <2>2. <<a>> \in Seq(Settings) /\ \A i \in 1..Len(<<a>>) : Legal(<<a>>[i])
    BY <2>1
  <2>3. ClientSets(c, <<a>>)
    BY DEF a
  <2> QED BY <2>2, <2>3, ClientSetsKeeps
<1> QED BY <1>2, <1>3

\* No step of any of them breaks it.
LEMMA SettingsInductive == ASSUME SettingsFit PROVE SettingsSpec => []SettingsInv
<1>1. SettingsInv /\ [SettingsNext]_settingsVars => SettingsInv'
  <2> SUFFICES ASSUME SettingsInv, [SettingsNext]_settingsVars PROVE SettingsInv'
    OBVIOUS
  <2>1. ASSUME NEW c \in Users,
               setLimitsRaw(c) \/ setRefSpeedRaw(c) \/ setRefAccelerationRaw(c) \/ ReturnSet(c) \/ Ask(c)
        PROVE  SettingsInv'
    BY <2>1, ClientKeeps, ReturnKeepsSettings, WorldKeeps DEF Ask
  <2>2. ASSUME NEW t \in Setters, Download(t) \/ Refused(t) \/ Late(t) \/ StoreSetting(t)
        PROVE  SettingsInv'
    BY <2>2, DownloadKeeps, RefusedKeeps, LateKeeps, StoreKeeps
  <2> QED BY <2>1, <2>2, InitializeKeeps, InitializedKeeps, WorldKeeps DEF SettingsNext
<1> QED BY <1>1, InitSettings, PTL DEF SettingsSpec

-----------------------------------------------------------------------------
\* Limits, speeds and accelerations stay among those that were ever set.
THEOREM SettingsAreTyped == ASSUME SettingsFit PROVE SettingsSpec => []SettingsTypeOK
<1>1. SettingsInv => SettingsTypeOK
  BY DEF SettingsInv, SettingsTyped, SettingsTypeOK
<1> QED BY <1>1, SettingsInductive, PTL

\* A drive in service has the settings that were made last, whatever it went through, each
\* in its own object, and the getters say so: for any number of clients that come one
\* after the other, any numbers of restarts and refused transfers.
THEOREM SettingsStay == ASSUME SettingsFit PROVE SettingsSpec => []SettingsSurvive
<1>1. SettingsInv => SettingsSurvive
  <2> SUFFICES ASSUME SettingsInv, SettingsInService, ~doubtful, ~mixed, ~masked, ~rescaled, NEW k \in Keys
               PROVE  dict[ObjectOf(k)] = Internal(k, stored[k]) /\ getSetting(k) = stored[k]
    BY DEF SettingsSurvive
  <2>1. Counts
    BY DEF Counts, SettingsInService
  <2>2. \A t \in Setters : ~Pending(t, k)
    BY DEF Pending, SettingsInv, AtWork, SettingsInService
  <2>3. Agree(k)
    BY <2>1, <2>2 DEF SettingsInv, Settled
  <2>4. stored[k] \in Int /\ scale \in Nat \ {0} /\ -stored[k] \in Int
    BY DEF SettingsInv, SettingsTyped, Made, Keys
  <2>5. (stored[k] * scale) \div scale = stored[k] /\ (-stored[k] * scale) \div scale = -stored[k]
    BY <2>4, UnitsComeBack
  <2>6. getSetting(k) = stored[k]
    BY <2>3, <2>4, <2>5 DEF getSetting, Agree, Internal, SettingsInService
  <2> QED BY <2>3, <2>6 DEF Agree
<1> QED BY <1>1, SettingsInductive, PTL

-----------------------------------------------------------------------------
(***************************************************************************)
(* The targets, for any clients, units, velocities and numbers of refused   *)
(* setpoints.  That a step is bounded when it is sent follows from how far  *)
(* the previous target may have run ahead of what was sent, and from the    *)
(* SYNC thread working on values that are still current.                    *)
(***************************************************************************)
\* Values and positions of the program counters.
TargetsTypes ==
  /\ actualControlMode \in Modes \cup {"UNKNOWN"} /\ requestedControlMode \in Modes
  /\ enableSync \in BOOLEAN /\ halt \in BOOLEAN /\ torn \in BOOLEAN
  /\ synchronousCommandTarget \in Int /\ prevSyncTarget \in Int /\ encoder \in Int /\ sent \in Int
  /\ refused \in 0..MaxRefused
  /\ sync \in [at : {"idle", "mode", "requested", "previous", "store", "write"}, requested : Int, previous : Int]
  /\ client \in [Clients -> [at : {"idle", "unhalt", "store", "prepare", "previous", "await"},
                           mode : Modes, value : Int]]

\* Direct positions are being prepared by c.
Entering(c) == client[c].at = "previous"

\* While one client prepares direct positions: they are not the mode yet, nobody else is
\* about to make them so, and the target is where they begin.
Prepared ==
  \A c \in Clients : Entering(c) =>
    /\ actualControlMode # "POSITION_DIRECT" /\ sync.at \in {"idle", "mode"}
    /\ synchronousCommandTarget = sent /\ refused = 0
    /\ \A d \in Clients \ {c} : ~Entering(d) /\ (client[d].at = "await" => client[d].mode \notin Cyclic)

\* Otherwise the target before is ahead of what was sent by the steps that were refused.
Ahead ==
  (\A c \in Clients : ~Entering(c)) /\ sync.at # "write" =>
    Abs(prevSyncTarget - sent) <= MaxStep * refused

\* What the SYNC thread has read is what it would read now.
Current ==
  /\ sync.at \in {"previous", "store"} => sync.requested = synchronousCommandTarget
  /\ sync.at = "store" => sync.previous = prevSyncTarget

\* What it is about to send is one step further.
OneStep ==
  sync.at = "write" => prevSyncTarget = sync.requested /\ Abs(sync.requested - sent) <= Reach

TargetsInv == TargetsTypes /\ (~torn => Prepared /\ Ahead /\ Current /\ OneStep)

USE UnitsAssumption

\* A step is not longer than its most, and reaches a target that is near.
LEMMA ClippedStep ==
  ASSUME NEW from \in Int, NEW to \in Int
  PROVE  /\ sgn(to - from) * MaxStep \in Int
         /\ Abs((from + sgn(to - from) * MaxStep) - from) <= MaxStep
<1>1. CASE to - from > 0
  BY <1>1 DEF sgn, Abs
<1>2. CASE to - from < 0
  BY <1>2 DEF sgn, Abs
<1>3. CASE to - from = 0
  BY <1>3 DEF sgn, Abs
<1> QED BY <1>1, <1>2, <1>3

\* Clamping keeps an integer one.
LEMMA Clamped == ASSUME NEW x \in Int PROVE Clamp(x, MaxVel) \in Int
  BY DEF Clamp, sgn, Abs

\* One more step, one more refusal.
LEMMA ReachGrows ==
  ASSUME NEW n \in Nat
  PROVE  MaxStep * n \in Nat /\ MaxStep * (1 + n) = MaxStep * n + MaxStep
  BY SMT

\* The invariant holds in the beginning.
LEMMA InitTargetsInv == TargetsInit => TargetsInv
<1> SUFFICES ASSUME TargetsInit PROVE TargetsInv
  OBVIOUS
<1>1. TargetsTypes
  <2>1. actualControlMode \in Modes /\ requestedControlMode \in Modes /\ refused \in 0..MaxRefused
    BY DEF TargetsInit, Modes
  <2>2. sync \in [at : {"idle", "mode", "requested", "previous", "store", "write"}, requested : Int, previous : Int]
    BY DEF TargetsInit, Asleep, Reading
  <2>3. client \in [Clients -> [at : {"idle", "unhalt", "store", "prepare", "previous", "await"}, mode : Modes, value : Int]]
    BY DEF TargetsInit, NoCall, Call, Modes
  <2>4. enableSync \in BOOLEAN /\ halt \in BOOLEAN /\ torn \in BOOLEAN
    BY Zenon DEF TargetsInit
  <2>5. synchronousCommandTarget \in Int /\ prevSyncTarget \in Int /\ encoder \in Int /\ sent \in Int
    BY DEF TargetsInit
  <2> QED BY <2>1, <2>2, <2>3, <2>4, <2>5 DEF TargetsTypes
<1>2. MaxStep * 0 = 0
  OBVIOUS
<1> QED BY <1>1, <1>2 DEF TargetsInit, TargetsInv, Prepared, Ahead, Current, OneStep, Entering, NoCall, Call, Asleep, Reading, Abs

\* Setpoints keep it: one that is written at the wrong time tears.
LEMMA SetpointKeeps ==
  ASSUME TargetsInv, NEW c \in Clients,
         \/ \E mode \in Modes, ref \in Refs : SetRef(c, mode, ref)
         \/ \E done \in BOOLEAN : Unhalt(c, done)
         \/ Stop(c) \/ StoreTarget(c)
  PROVE  TargetsInv'
<1> USE DEF TargetsInv, Prepared, Ahead, Current, OneStep, Entering, Reach, shared, observed, Becomes
<1>1. CASE \E mode \in Modes, ref \in Refs : SetRef(c, mode, ref)
  <2>1. PICK mode \in Modes, ref \in Refs : SetRef(c, mode, ref)
    BY <1>1
  <2>2. ref \in Int /\ Clamp(ref, MaxVel) \in Int
    BY Clamped
  <2>3. TargetsTypes'
    BY <2>1, <2>2 DEF SetRef, TargetsTypes, Call, NoCall
  <2> QED BY <2>1, <2>3 DEF SetRef, TargetsTypes, Call, NoCall
<1>2. CASE \E done \in BOOLEAN : Unhalt(c, done)
  <2>1. TargetsTypes'
    BY <1>2 DEF Unhalt, TargetsTypes, Call, NoCall, Modes
  <2> QED BY <1>2, <2>1 DEF Unhalt, TargetsTypes, Call, NoCall
<1>3. CASE Stop(c)
  <2>1. TargetsTypes'
    BY <1>3 DEF Stop, TargetsTypes, Call, NoCall, Modes, Cyclic
  <2> QED BY <1>3, <2>1 DEF Stop, TargetsTypes, Call, NoCall
<1>4. CASE StoreTarget(c)
  <2>1. TargetsTypes'
    BY <1>4 DEF StoreTarget, TargetsTypes, Call, NoCall, Modes, Tears, Crosses
  <2> QED BY <1>4, <2>1, ZenonT(40) DEF StoreTarget, TargetsTypes, Call, NoCall, Tears, Crosses
<1> QED BY <1>1, <1>2, <1>3, <1>4

\* So do the changes of mode: direct positions begin with a fresh pair of targets, unless
\* somebody crosses.
LEMMA ModeKeeps ==
  ASSUME TargetsInv, NEW c \in Clients,
         \/ \E mode \in Modes : AlreadyThere(c, mode) \/ Leave(c, mode)
         \/ ShowHoming(c) \/ Prepare(c) \/ PreparePrevious(c) \/ ShowMode(c) \/ Fail(c)
  PROVE  TargetsInv'
<1> USE DEF TargetsInv, Prepared, Ahead, Current, OneStep, Entering, Reach, shared, observed, Becomes
<1>1. CASE \E mode \in Modes : AlreadyThere(c, mode)
  <2>1. TargetsTypes'
    BY <1>1 DEF AlreadyThere, TargetsTypes
  <2> QED BY <1>1, <2>1 DEF AlreadyThere, TargetsTypes, ExtRefTorque
<1>2. CASE \E mode \in Modes : Leave(c, mode)
  <2>1. PICK mode \in Modes : Leave(c, mode)
    BY <1>2
  <2>2. client' = [client EXCEPT ![c] = Call(IF mode \in Cyclic THEN "prepare" ELSE "await", mode, 0)]
    BY <2>1 DEF Leave
  <2>3. enableSync' \in BOOLEAN /\ halt' \in BOOLEAN
    BY <2>1, Zenon DEF Leave
  <2>4. /\ requestedControlMode' = mode
        /\ UNCHANGED <<actualControlMode, synchronousCommandTarget, prevSyncTarget, encoder, sync, observed>>
    BY <2>1 DEF Leave
  <2>5. TargetsTypes'
    BY <2>2, <2>3, <2>4 DEF TargetsTypes, Call
  <2>6. /\ \A d \in Clients \ {c} : client'[d] = client[d]
        /\ client'[c].at # "previous" /\ (client'[c].at = "await" => client'[c].mode \notin Cyclic)
    BY <2>2 DEF TargetsTypes, Call
  <2>7. client[c].at # "previous"
    BY <2>1 DEF Leave, NoCall, Call
  <2>8. ~torn => Prepared'
    BY <2>4, <2>6, <2>7
  <2>9. ~torn => Ahead' /\ Current' /\ OneStep'
    BY <2>4, <2>6, <2>7
  <2> QED BY <2>4, <2>5, <2>8, <2>9
<1>3. CASE ShowHoming(c)
  <2>1. TargetsTypes'
    BY <1>3 DEF ShowHoming, TargetsTypes
  <2> QED BY <1>3, <2>1 DEF ShowHoming, TargetsTypes
<1>4. CASE Prepare(c)
  <2> DEFINE direct == client[c].mode = "POSITION_DIRECT"
  <2>1. /\ client[c].at = "prepare"
        /\ client' = [client EXCEPT ![c] = [client[c] EXCEPT !.at = IF direct THEN "previous" ELSE "await"]]
        /\ UNCHANGED <<shared, prevSyncTarget, halt, encoder, sync>>
    BY <1>4 DEF Prepare, PrepareTarget
  <2>2. torn' \in BOOLEAN
    BY <1>4, Zenon DEF Prepare, PrepareTarget, Overlaps, Crosses, TargetsTypes
  <2>3. CASE direct
    <3>1. synchronousCommandTarget' = encoder /\ sent' = encoder /\ refused' = 0 /\ torn' = Overlaps(c)
      BY <1>4, <2>3 DEF Prepare, PrepareTarget
    <3>2. TargetsTypes'
      BY <2>1, <2>2, <3>1 DEF TargetsTypes
    <3>3. ASSUME ~torn' PROVE sync = Asleep /\ actualControlMode # "POSITION_DIRECT" /\ \A d \in Clients \ {c} : client[d] = NoCall
      BY <3>1, <3>3 DEF Overlaps, Crosses
    <3> QED BY <2>1, <2>3, <3>1, <3>2, <3>3 DEF TargetsTypes, NoCall, Call, Asleep, Reading
  <2>4. CASE ~direct
    <3>1. synchronousCommandTarget' = 0 /\ UNCHANGED <<sent, refused>>
      BY <1>4, <2>4 DEF Prepare, PrepareTarget
    <3>2. TargetsTypes'
      BY <2>1, <2>2, <3>1 DEF TargetsTypes
    <3>3. ASSUME ~torn' PROVE ~torn /\ sync = Asleep /\ \A d \in Clients \ {c} : client[d] = NoCall
      BY <1>4, <2>4, <3>3 DEF Prepare, PrepareTarget, Overlaps, Crosses
    <3> QED BY <2>1, <2>4, <3>1, <3>2, <3>3 DEF TargetsTypes, NoCall, Call, Asleep, Reading
  <2> QED BY <2>3, <2>4
<1>5. CASE PreparePrevious(c)
  <2>1. TargetsTypes'
    BY <1>5 DEF PreparePrevious, TargetsTypes, Overlaps, Crosses
  <2>2. MaxStep * 0 = 0
    OBVIOUS
  <2> QED BY <1>5, <2>1, <2>2 DEF PreparePrevious, TargetsTypes, Overlaps, Crosses, NoCall, Call, Asleep, Reading, Abs
<1>6. CASE ShowMode(c)
  <2>1. TargetsTypes'
    BY <1>6 DEF ShowMode, TargetsTypes, Modes, Cyclic, ExtRefTorque, NoCall, Call
  <2> QED BY <1>6, <2>1 DEF ShowMode, TargetsTypes, Cyclic, ExtRefTorque, NoCall, Call
<1>7. CASE Fail(c)
  <2>1. TargetsTypes'
    BY <1>7 DEF Fail, TargetsTypes, NoCall, Call, Modes
  <2> QED BY <1>7, <2>1 DEF Fail, TargetsTypes, NoCall, Call
<1> QED BY <1>1, <1>2, <1>3, <1>4, <1>5, <1>6, <1>7

\* So does the SYNC thread: the next step is one more than what was refused before, and
\* what is sent or refused is accounted for.
LEMMA SyncKeeps ==
  ASSUME TargetsInv, synchronize
  PROVE  TargetsInv'
<1> USE DEF TargetsInv, Prepared, Ahead, Current, OneStep, Entering, Reach, shared, observed
<1>1. CASE Wake
  <2>1. TargetsTypes'
    BY <1>1 DEF Wake, TargetsTypes, Reading
  <2> QED BY <1>1, <2>1 DEF Wake, TargetsTypes, Reading, Asleep
<1>2. CASE LookAtMode
  <2>1. TargetsTypes'
    BY <1>2 DEF LookAtMode, TargetsTypes, Reading, Asleep
  <2> QED BY <1>2, <2>1 DEF LookAtMode, TargetsTypes, Reading, Asleep
<1>3. CASE ReadTarget
  <2>1. TargetsTypes'
    BY <1>3 DEF ReadTarget, TargetsTypes, Reading
  <2> QED BY <1>3, <2>1 DEF ReadTarget, TargetsTypes, Reading
<1>4. CASE ReadPrevious
  <2>1. TargetsTypes'
    BY <1>4 DEF ReadPrevious, TargetsTypes
  <2> QED BY <1>4, <2>1 DEF ReadPrevious, TargetsTypes
<1>5. CASE Clip
  <2> DEFINE newTarget == sync.previous + sgn(sync.requested - sync.previous) * MaxStep
             near == Abs(sync.requested - sync.previous) <= MaxStep
             following == IF near THEN sync.requested ELSE newTarget
  <2>1. sync.at = "store" /\ sync.previous \in Int /\ sync.requested \in Int /\ sent \in Int /\ refused \in Nat
    BY <1>5 DEF Clip, TargetsTypes
  <2>2. following \in Int /\ Abs(following - sync.previous) <= MaxStep
    BY <2>1, ClippedStep DEF Abs
  <2>3. /\ prevSyncTarget' = (IF near THEN synchronousCommandTarget ELSE newTarget)
        /\ sync' = [sync EXCEPT !.at = "write", !.requested = following]
        /\ UNCHANGED <<shared, synchronousCommandTarget, halt, encoder, client, observed>>
    BY <1>5 DEF Clip
  <2>4. prevSyncTarget' \in Int
    BY <2>2, <2>3 DEF TargetsTypes
  <2>5. TargetsTypes'
    BY <2>2, <2>3, <2>4 DEF TargetsTypes
  <2>6. sync'.at = "write" /\ sync'.requested = following
    BY <2>3 DEF TargetsTypes
  <2>7. ~torn' => Prepared' /\ Ahead' /\ Current'
    BY <2>1, <2>3, <2>6
  <2>8. ASSUME ~torn PROVE OneStep'
    <3>1. (\A c \in Clients : ~Entering(c)) /\ sync.requested = synchronousCommandTarget
            /\ sync.previous = prevSyncTarget
      BY <2>1, <2>8
    <3>2. Abs(sync.previous - sent) <= MaxStep * refused
      BY <2>1, <2>8, <3>1
    <3>3. MaxStep * refused \in Nat /\ MaxStep * (1 + refused) = MaxStep * refused + MaxStep
      BY <2>1, ReachGrows
    <3> HIDE DEF following
    <3>4. Abs(following - sent) <= MaxStep * refused + MaxStep
      BY <2>1, <2>2, <3>2, <3>3 DEF Abs
    <3> QED BY <2>3, <2>6, <3>1, <3>3, <3>4 DEF following
  <2> QED BY <2>3, <2>5, <2>7, <2>8
<1>6. CASE \E done \in BOOLEAN : SendTarget(done)
  <2>1. PICK done \in BOOLEAN : SendTarget(done)
    BY <1>6
  <2>2. sync.at = "write" /\ refused \in Nat /\ sync.requested \in Int
    BY <2>1 DEF SendTarget, TargetsTypes
  <2>3. MaxStep * 0 = 0 /\ MaxStep * (1 + refused) = MaxStep * (refused + 1)
    BY <2>2
  <2>4. CASE done
    <3>1. TargetsTypes'
      BY <2>1, <2>2, <2>4 DEF SendTarget, TargetsTypes, Asleep, Reading
    <3> QED BY <2>1, <2>2, <2>3, <2>4, <3>1 DEF SendTarget, TargetsTypes, Asleep, Reading, Abs
  <2>5. CASE ~done
    <3>1. refused' = refused + 1 /\ refused' \in 0..MaxRefused /\ sync' = Asleep
          /\ UNCHANGED <<shared, synchronousCommandTarget, prevSyncTarget, halt, encoder, client, sent, torn>>
      BY <2>1, <2>2, <2>5 DEF SendTarget, TargetsTypes
    <3>2. TargetsTypes'
      BY <3>1 DEF TargetsTypes, Asleep, Reading
    <3> QED BY <2>2, <2>3, <3>1, <3>2 DEF TargetsTypes, Asleep, Reading
  <2> QED BY <2>4, <2>5
<1> QED BY <1>1, <1>2, <1>3, <1>4, <1>5, <1>6 DEF synchronize

\* The inductive invariant.
LEMMA TargetsInductive == TargetsSpec => []TargetsInv
<1>1. TargetsInv /\ [TargetsNext]_targetsVars => TargetsInv'
  <2> SUFFICES ASSUME TargetsInv, [TargetsNext]_targetsVars PROVE TargetsInv'
    OBVIOUS
  <2>1. CASE synchronize
    BY <2>1, SyncKeeps
  <2>2. CASE Travel
    BY <2>2 DEF Travel, TargetsInv, TargetsTypes, Prepared, Ahead, Current, OneStep, Entering, Reach, shared, observed
  <2>3. ASSUME NEW c \in Clients,
               \/ \E mode \in Modes : (\E ref \in Refs : SetRef(c, mode, ref)) \/ AlreadyThere(c, mode) \/ Leave(c, mode)
               \/ \E done \in BOOLEAN : Unhalt(c, done)
               \/ Stop(c) \/ StoreTarget(c) \/ ShowHoming(c) \/ Prepare(c) \/ PreparePrevious(c) \/ ShowMode(c) \/ Fail(c)
        PROVE  TargetsInv'
    BY <2>3, SetpointKeeps, ModeKeeps
  <2>4. CASE UNCHANGED targetsVars
    BY <2>4 DEF targetsVars, TargetsInv, TargetsTypes, Prepared, Ahead, Current, OneStep, Entering, Reach, shared, observed
  <2> QED BY <2>1, <2>2, <2>3, <2>4 DEF TargetsNext
<1> QED BY InitTargetsInv, <1>1, PTL DEF TargetsSpec

\* The state keeps its type, for any clients and units.
THEOREM TargetsTyped == TargetsSpec => []TargetsTypeOK
<1>1. TargetsInv => TargetsTypeOK
  BY DEF TargetsInv, TargetsTypes, TargetsTypeOK
<1> QED BY TargetsInductive, <1>1, PTL

\* For any clients, units and velocities, and however often the queue refuses: unless a
\* client has written a target while the SYNC thread was clipping one, no direct position
\* is farther from the one before than the maximum velocity allows.
THEOREM Bounded == TargetsSpec => []StepsAreBounded
<1>1. TargetsInv => StepsAreBounded
  BY DEF TargetsInv, OneStep, StepsAreBounded, ClipsTravel
<1> QED BY TargetsInductive, <1>1, PTL

-----------------------------------------------------------------------------
(***************************************************************************)
(* The periods of SYNC, for any handles, any queue and any traffic.  What   *)
(* CanWriterProofs shows of the queue holds of this one, whose steps are    *)
(* those of a queue: the wire is a part of what was accepted, in its order. *)
(* It remains to show that the queue accepts the periods in their order.    *)
(***************************************************************************)
QueueProofs == INSTANCE CanWriterProofs

OfPeriod(m) == m.kind \in {"sync", "setpoint"}

Counters ==
  /\ cycle \in 0..MaxCycles /\ next \in 0..(Len(Handles) + 2) /\ (next # 0 => cycle # 0)
  /\ accepted \in Seq(Messages)

\* What was accepted is of the periods that have begun; the SYNC of this one is not
\* among it before its turn.
Begun ==
  \A i \in 1..Len(accepted) : OfPeriod(accepted[i]) =>
    /\ accepted[i].cycle <= cycle
    /\ accepted[i].kind = "sync" /\ next \in 1..(Len(Handles) + 1) => accepted[i].cycle < cycle

\* After a SYNC come only later periods.
AcceptedInOrder ==
  \A i, j \in 1..Len(accepted) :
    i < j /\ accepted[i].kind = "sync" /\ OfPeriod(accepted[j]) => accepted[i].cycle < accepted[j].cycle

CycleInv == Counters /\ Begun /\ AcceptedInOrder

\* What messages are about.
LEMMA MessageFacts ==
  ASSUME CycleFits
  PROVE  /\ Len(Handles) \in Nat \ {0}
         /\ Other \in Messages /\ ~OfPeriod(Other)
         /\ \A m \in Messages : OfPeriod(m) => m.cycle \in Nat
         /\ \A c \in 1..MaxCycles : /\ Sync(c) \in Messages /\ OfPeriod(Sync(c))
                                    /\ Sync(c).kind = "sync" /\ Sync(c).cycle = c
         /\ \A c \in 1..MaxCycles, i \in 1..Len(Handles) :
              LET m == Setpoint(Handles[i], c)
              IN  m \in Messages /\ m.kind = "setpoint" /\ m.cycle = c
<1>1. Len(Handles) \in Nat \ {0}
  BY EmptySeq, LenProperties DEF CycleFits
<1>2. Other \in Messages /\ ~OfPeriod(Other)
  BY DEF Messages, Other, OfPeriod
<1>3. \A c \in 1..MaxCycles : /\ Sync(c) \in Messages /\ OfPeriod(Sync(c))
                              /\ Sync(c).kind = "sync" /\ Sync(c).cycle = c
  <2>1. ASSUME NEW c \in 1..MaxCycles PROVE Sync(c) \in Messages
    BY DEF Messages
  <2>2. ASSUME NEW c \in 1..MaxCycles PROVE OfPeriod(Sync(c)) /\ Sync(c).kind = "sync" /\ Sync(c).cycle = c
    BY DEF Sync, OfPeriod
  <2> QED BY <2>1, <2>2
<1>4. ASSUME NEW c \in 1..MaxCycles, NEW i \in 1..Len(Handles)
      PROVE  LET m == Setpoint(Handles[i], c) IN m \in Messages /\ m.kind = "setpoint" /\ m.cycle = c
  BY DEF Messages, Setpoint
<1>5. \A m \in Messages : OfPeriod(m) => m.cycle \in Nat
  BY DEF CycleFits, Messages, Setpoint, Sync, Other, OfPeriod
<1> QED BY <1>1, <1>2, <1>3, <1>4, <1>5

\* A flush accepts nothing, prepareMessage a message or nothing.
LEMMA FlushAccepts == ASSUME Queue!Flush PROVE accepted' = accepted
  BY DEF Queue!Flush, Queue!FlushNothing, Queue!FlushError, Queue!FlushWrite, Queue!vars

\* PrepareMessage accepts the message at the end, or drops it.
LEMMA PrepareAccepts ==
  ASSUME NEW m, Enqueue(m)
  PROVE  accepted' = accepted \/ accepted' = Append(accepted, m)
  BY DEF Enqueue, Queue!PrepareMessage, Queue!RefuseMessage, Queue!vars

\* A message that is later than all there are keeps them in order.
LEMMA AppendKeeps ==
  ASSUME CycleInv, CycleFits, NEW m \in Messages,
         accepted' = accepted \/ accepted' = Append(accepted, m),
         OfPeriod(m) => \A i \in 1..Len(accepted) :
           accepted[i].kind = "sync" => accepted[i].cycle < m.cycle
  PROVE  /\ accepted' \in Seq(Messages) /\ AcceptedInOrder'
         /\ \A i \in 1..Len(accepted') : accepted'[i] = m \/ (i \in 1..Len(accepted) /\ accepted'[i] = accepted[i])
<1>1. CASE accepted' = accepted
  BY <1>1 DEF CycleInv, Counters, AcceptedInOrder
<1>2. CASE accepted' = Append(accepted, m)
  <2>1. accepted \in Seq(Messages)
    BY DEF CycleInv, Counters
  <2>2. /\ accepted' \in Seq(Messages) /\ Len(accepted') = Len(accepted) + 1 /\ Len(accepted) \in Nat
        /\ \A i \in 1..Len(accepted) : accepted'[i] = accepted[i]
        /\ accepted'[Len(accepted) + 1] = m
    BY <1>2, <2>1, AppendProperties, LenProperties
  <2>3. \A i \in 1..Len(accepted') : i \in 1..Len(accepted) \/ i = Len(accepted) + 1
    BY <2>2
  <2>4. AcceptedInOrder'
    BY <2>2, <2>3 DEF CycleInv, AcceptedInOrder
  <2> QED BY <2>2, <2>3, <2>4
<1> QED BY <1>1, <1>2

\* No cycle has begun.
LEMMA InitCycleInv == ASSUME CycleFits PROVE CycleInit => CycleInv
<1> SUFFICES ASSUME CycleInit PROVE CycleInv
  OBVIOUS
<1>1. accepted = <<>> /\ cycle = 0 /\ next = 0
  BY DEF CycleInit, Queue!Init
<1> QED BY <1>1, MessageFacts DEF CycleInv, Counters, Begun, AcceptedInOrder, CycleFits

\* Every step of the SYNC thread and of the others keeps the periods in order.
LEMMA NextKeeps ==
  ASSUME CycleFits, CycleInv, [CycleNext]_cycleVars
  PROVE  CycleInv'
<1> USE MessageFacts DEF CycleFits
<1>1. CASE StartCycle
  BY <1>1 DEF StartCycle, queueVars, CycleInv, Counters, Begun, AcceptedInOrder
<1>2. CASE SyncHandle
  <2>1. PICK m \in Messages : /\ accepted' = accepted \/ accepted' = Append(accepted, m)
                              /\ m.cycle = cycle /\ m.kind = "setpoint"
    BY <1>2, PrepareAccepts DEF SyncHandle, CycleInv, Counters, queueVars
  <2>2. next \in 1..Len(Handles) /\ next' = next + 1 /\ cycle' = cycle
    BY <1>2 DEF SyncHandle
  <2>3. OfPeriod(m) /\ \A i \in 1..Len(accepted) : accepted[i].kind = "sync" => accepted[i].cycle < m.cycle
    BY <2>1, <2>2 DEF CycleInv, Begun, OfPeriod
  <2>4. /\ accepted' \in Seq(Messages) /\ AcceptedInOrder'
        /\ \A i \in 1..Len(accepted') : accepted'[i] = m \/ (i \in 1..Len(accepted) /\ accepted'[i] = accepted[i])
    BY <2>1, <2>3, AppendKeeps
  <2> QED BY <2>1, <2>2, <2>4 DEF CycleInv, Counters, Begun
<1>3. CASE PrepareSync
  <2>1. /\ accepted' = accepted \/ accepted' = Append(accepted, Sync(cycle))
        /\ next = Len(Handles) + 1 /\ next' = next + 1 /\ cycle' = cycle
    BY <1>3, PrepareAccepts DEF PrepareSync
  <2>2. cycle \in 1..MaxCycles
    BY <2>1 DEF CycleInv, Counters
  <2>3. \A i \in 1..Len(accepted) : accepted[i].kind = "sync" => accepted[i].cycle < Sync(cycle).cycle
    BY <2>1, <2>2 DEF CycleInv, Begun, OfPeriod
  <2>4. /\ accepted' \in Seq(Messages) /\ AcceptedInOrder'
        /\ \A i \in 1..Len(accepted') :
             accepted'[i] = Sync(cycle) \/ (i \in 1..Len(accepted) /\ accepted'[i] = accepted[i])
    BY <2>1, <2>2, <2>3, AppendKeeps
  <2> QED BY <2>1, <2>2, <2>4 DEF CycleInv, Counters, Begun
<1>4. CASE FlushSync
  <2>1. accepted' = accepted /\ next' = 0 /\ cycle' = cycle
    BY <1>4, FlushAccepts DEF FlushSync
  <2> QED BY <2>1 DEF CycleInv, Counters, Begun, AcceptedInOrder
<1>5. CASE WriterFlush \/ UNCHANGED cycleVars
  <2>1. accepted' = accepted /\ next' = next /\ cycle' = cycle
    BY <1>5, FlushAccepts DEF WriterFlush, cycleVars, queueVars
  <2> QED BY <2>1 DEF CycleInv, Counters, Begun, AcceptedInOrder
<1>6. CASE PrepareOther
  <2>1. (accepted' = accepted \/ accepted' = Append(accepted, Other)) /\ next' = next /\ cycle' = cycle
    BY <1>6, PrepareAccepts DEF PrepareOther
  <2>2. /\ accepted' \in Seq(Messages) /\ AcceptedInOrder'
        /\ \A i \in 1..Len(accepted') : accepted'[i] = Other \/ (i \in 1..Len(accepted) /\ accepted'[i] = accepted[i])
    BY <2>1, AppendKeeps
  <2> QED BY <2>1, <2>2 DEF CycleInv, Counters, Begun
<1> QED BY <1>1, <1>2, <1>3, <1>4, <1>5, <1>6 DEF CycleNext

\* Every step keeps it.
LEMMA CycleInductive == ASSUME CycleFits PROVE CycleSpec => []CycleInv
  BY InitCycleInv, NextKeeps, PTL DEF CycleSpec

(* The queue of a bus is a queue. *)

\* A step of the cycle is one of its queue, or none.
LEMMA StepOfQueue ==
  ASSUME CycleFits, CycleInv, [CycleNext]_cycleVars
  PROVE  QueueProofs!Next \/ UNCHANGED queueVars
<1>1. ASSUME Queue!Flush PROVE QueueProofs!Next
  BY <1>1 DEF QueueProofs!Next, Queue!Flush, QueueProofs!Flush, Queue!FlushNothing, QueueProofs!FlushNothing,
     Queue!FlushError, QueueProofs!FlushError, Queue!FlushWrite, QueueProofs!FlushWrite, Queue!Front,
     QueueProofs!Front, Queue!HandlePartialWrite, QueueProofs!HandlePartialWrite, Queue!Slots, QueueProofs!Slots,
     Queue!vars, QueueProofs!vars
<1>2. ASSUME NEW m \in Messages, Enqueue(m) PROVE QueueProofs!Next
  BY <1>2 DEF Enqueue, QueueProofs!Next, Queue!PrepareMessage, QueueProofs!PrepareMessage, Queue!RefuseMessage,
     QueueProofs!RefuseMessage, Queue!HasRoom, QueueProofs!HasRoom, Queue!vars, QueueProofs!vars
<1>3. next # 0 => cycle \in 1..MaxCycles
  BY DEF CycleFits, CycleInv, Counters
<1>4. CASE SyncHandle
  BY <1>2, <1>3, <1>4, MessageFacts DEF SyncHandle
<1>5. CASE PrepareSync
  BY <1>2, <1>3, <1>5, MessageFacts DEF PrepareSync
<1>6. CASE PrepareOther
  BY <1>2, <1>6, MessageFacts DEF PrepareOther
<1>7. CASE FlushSync \/ WriterFlush
  BY <1>1, <1>7 DEF FlushSync, WriterFlush
<1>8. CASE StartCycle \/ UNCHANGED cycleVars
  BY <1>8 DEF StartCycle, cycleVars
<1> QED BY <1>4, <1>5, <1>6, <1>7, <1>8 DEF CycleNext

\* So the specification of the queue holds.
LEMMA IsQueue == ASSUME CycleFits PROVE CycleSpec => QueueProofs!Spec
<1>1. CycleInit => QueueProofs!Init
  BY DEF CycleInit, Queue!Init, QueueProofs!Init, Queue!Slots, QueueProofs!Slots
<1>2. CycleInv /\ [CycleNext]_cycleVars => [QueueProofs!Next]_(QueueProofs!vars)
  BY StepOfQueue DEF queueVars, QueueProofs!vars
<1> QED BY <1>1, <1>2, CycleInductive, PTL DEF CycleSpec, QueueProofs!Spec

\* What is proved of a queue holds of this one.
LEMMA QueueIsFifo == ASSUME CycleFits PROVE CycleSpec => []QueueProofs!IInv
  BY IsQueue, QueueProofs!Inductive, PTL DEF CycleFits

\* For any raw devices, any size of the queue, and whatever the writer thread, the
\* controller and other traffic do: a SYNC on the bus comes after the setpoints of its own
\* period and before those of later ones.
THEOREM PeriodsStayApart == ASSUME CycleFits PROVE CycleSpec => []SyncSeparatesCycles
<1>1. CycleInv /\ QueueProofs!IInv => SyncSeparatesCycles
  <2> SUFFICES ASSUME CycleInv, QueueProofs!IInv, NEW p \in 1..Len(wire), NEW q \in 1..Len(wire),
                      p < q, IsSync(p), IsSync(q) \/ IsSetpoint(q)
               PROVE  OnWire(p).cycle < OnWire(q).cycle
    BY DEF SyncSeparatesCycles
  <2>1. /\ wire[p] \in 1..(Len(accepted) - preparedMessages)
        /\ wire[q] \in 1..(Len(accepted) - preparedMessages)
        /\ preparedMessages \in Nat /\ Len(accepted) \in Nat /\ wire[p] < wire[q]
    BY LenProperties DEF QueueProofs!IInv, QueueProofs!WireBeforeBuffer, QueueProofs!WireInOrder,
       QueueProofs!TypeOK, CycleFits
  <2>2. wire[p] \in 1..Len(accepted) /\ wire[q] \in 1..Len(accepted)
    BY <2>1
  <2> QED BY <2>1, <2>2 DEF CycleInv, AcceptedInOrder, OfPeriod, OnWire, IsSync, IsSetpoint
<1> QED BY <1>1, CycleInductive, QueueIsFifo, PTL

(* Setpoints do not pile up. *)

\* A raw device has one node, and is there once.
NoHandleTwice == \A i, j \in 1..Len(Handles) : Handles[i] = Handles[j] => i = j

\* The setpoints of this period are those of the handles whose turn is over.
InTurn ==
  next # 0 => \A i \in 1..Len(accepted) :
    accepted[i].kind = "setpoint" /\ accepted[i].cycle = cycle =>
      \E k \in 1..Len(Handles) : k < next /\ accepted[i].node = Handles[k]

\* A node has one setpoint per period.
OncePerPeriod ==
  \A i, j \in 1..Len(accepted) :
    /\ i # j /\ accepted[i].kind = "setpoint" /\ accepted[j].kind = "setpoint"
    /\ accepted[i].node = accepted[j].node
    => accepted[i].cycle # accepted[j].cycle

\* Before a SYNC come no later periods.
NoneAhead ==
  \A i, j \in 1..Len(accepted) :
    i < j /\ accepted[i].kind = "setpoint" /\ accepted[j].kind = "sync" => accepted[i].cycle <= accepted[j].cycle

Tidy == InTurn /\ OncePerPeriod /\ NoneAhead

\* A message at the end changes nothing before it.
LEMMA AppendFacts ==
  ASSUME CycleInv, NEW m \in Messages, accepted' = Append(accepted, m)
  PROVE  /\ Len(accepted) \in Nat /\ Len(accepted') = Len(accepted) + 1
         /\ \A i \in 1..Len(accepted) : accepted'[i] = accepted[i]
         /\ accepted'[Len(accepted) + 1] = m
         /\ \A i \in 1..Len(accepted') : i \in 1..Len(accepted) \/ i = Len(accepted) + 1
<1>1. accepted \in Seq(Messages)
  BY DEF CycleInv, Counters
<1> QED BY <1>1, AppendProperties, LenProperties

\* Every step keeps it so.
LEMMA TidyStep ==
  ASSUME CycleFits, NoHandleTwice, CycleInv, Tidy, [CycleNext]_cycleVars
  PROVE  Tidy'
<1> USE MessageFacts DEF CycleFits
<1>1. CASE StartCycle
  BY <1>1 DEF StartCycle, queueVars, CycleInv, Counters, Begun, OfPeriod, Tidy, InTurn, OncePerPeriod, NoneAhead
<1>2. CASE SyncHandle
  <2> DEFINE m == Setpoint(Handles[next], cycle)
  <2>1. /\ next \in 1..Len(Handles) /\ next' = next + 1 /\ cycle' = cycle
        /\ accepted' = accepted \/ accepted' = Append(accepted, m)
    BY <1>2, PrepareAccepts DEF SyncHandle, queueVars
  <2>2. m \in Messages /\ m.kind = "setpoint" /\ m.cycle = cycle /\ m.node = Handles[next]
    BY <2>1 DEF CycleInv, Counters, Setpoint
  <2> HIDE DEF m
  <2>3. CASE accepted' = accepted
    BY <2>1, <2>3 DEF Tidy, InTurn, OncePerPeriod, NoneAhead
  <2>4. CASE accepted' = Append(accepted, m)
    <3>1. \A i \in 1..Len(accepted) :
            accepted[i].kind = "setpoint" /\ accepted[i].node = m.node => accepted[i].cycle # m.cycle
      BY <2>1, <2>2 DEF Tidy, InTurn, NoHandleTwice
    <3>2. OncePerPeriod' /\ NoneAhead'
      BY <2>2, <2>4, <3>1, AppendFacts DEF Tidy, OncePerPeriod, NoneAhead
    <3>3. InTurn'
      BY <2>1, <2>2, <2>4, AppendFacts DEF Tidy, InTurn
    <3> QED BY <3>2, <3>3 DEF Tidy
  <2> QED BY <2>1, <2>3, <2>4
<1>3. CASE PrepareSync
  <2> DEFINE m == Sync(cycle)
  <2>1. /\ next = Len(Handles) + 1 /\ next' = next + 1 /\ cycle' = cycle
        /\ accepted' = accepted \/ accepted' = Append(accepted, m)
    BY <1>3, PrepareAccepts DEF PrepareSync
  <2>2. m \in Messages /\ m.kind = "sync" /\ m.cycle = cycle
    BY <2>1 DEF CycleInv, Counters
  <2> HIDE DEF m
  <2>3. CASE accepted' = accepted
    BY <2>1, <2>3 DEF Tidy, InTurn, OncePerPeriod, NoneAhead
  <2>4. CASE accepted' = Append(accepted, m)
    <3>1. \A i \in 1..Len(accepted) : accepted[i].kind = "setpoint" => accepted[i].cycle <= m.cycle
      BY <2>2 DEF CycleInv, Begun, OfPeriod
    <3>2. OncePerPeriod' /\ NoneAhead'
      BY <2>2, <2>4, <3>1, AppendFacts DEF Tidy, OncePerPeriod, NoneAhead
    <3>3. InTurn'
      BY <2>1, <2>2, <2>4, AppendFacts DEF Tidy, InTurn
    <3> QED BY <3>2, <3>3 DEF Tidy
  <2> QED BY <2>1, <2>3, <2>4
<1>4. CASE FlushSync
  <2>1. accepted' = accepted /\ next' = 0
    BY <1>4, FlushAccepts DEF FlushSync
  <2> QED BY <2>1 DEF Tidy, InTurn, OncePerPeriod, NoneAhead
<1>5. CASE WriterFlush \/ UNCHANGED cycleVars
  <2>1. accepted' = accepted /\ next' = next /\ cycle' = cycle
    BY <1>5, FlushAccepts DEF WriterFlush, cycleVars, queueVars
  <2> QED BY <2>1 DEF Tidy, InTurn, OncePerPeriod, NoneAhead
<1>6. CASE PrepareOther
  <2>1. (accepted' = accepted \/ accepted' = Append(accepted, Other)) /\ next' = next /\ cycle' = cycle
    BY <1>6, PrepareAccepts DEF PrepareOther
  <2>2. CASE accepted' = accepted
    BY <2>1, <2>2 DEF Tidy, InTurn, OncePerPeriod, NoneAhead
  <2>3. CASE accepted' = Append(accepted, Other)
    <3>1. Other.kind = "other"
      BY DEF Other
    <3> QED BY <2>1, <2>3, <3>1, AppendFacts DEF Tidy, InTurn, OncePerPeriod, NoneAhead
  <2> QED BY <2>1, <2>2, <2>3
<1> QED BY <1>1, <1>2, <1>3, <1>4, <1>5, <1>6 DEF CycleNext

\* Unless a handle is called twice, what is accepted stays in order.
LEMMA AlwaysTidy == ASSUME CycleFits, NoHandleTwice PROVE CycleSpec => []Tidy
<1>1. CycleInit => Tidy
  BY DEF CycleInit, Queue!Init, Tidy, InTurn, OncePerPeriod, NoneAhead
<1>2. CycleInv /\ Tidy /\ [CycleNext]_cycleVars => Tidy'
  BY TidyStep
<1> QED BY <1>1, <1>2, CycleInductive, PTL DEF CycleSpec

\* For any raw devices, each there once: between two SYNC frames on the bus a drive gets at
\* most as many setpoints as periods went by, whatever frames were lost or late.
THEOREM SetpointsDoNotPileUp == ASSUME CycleFits, NoHandleTwice PROVE CycleSpec => []OneSetpointPerPeriod
<1>1. CycleInv /\ Tidy /\ QueueProofs!IInv => OneSetpointPerPeriod
  <2> SUFFICES ASSUME CycleInv, Tidy, QueueProofs!IInv, NEW p \in 1..Len(wire), NEW q \in 1..Len(wire),
                      p < q, IsSync(p), IsSync(q), NEW h
               PROVE  SetpointsBetween(p, q, h) <= OnWire(q).cycle - OnWire(p).cycle
    BY DEF OneSetpointPerPeriod
  <2> DEFINE R == {r \in p..q : IsSetpoint(r) /\ OnWire(r).node = h}
             T == (OnWire(p).cycle + 1)..OnWire(q).cycle
             f == [r \in R |-> OnWire(r).cycle]
  <2>1. /\ Len(wire) \in Nat /\ Len(accepted) \in Nat /\ accepted \in Seq(Messages)
        /\ \A r \in 1..Len(wire) : wire[r] \in 1..Len(accepted)
        /\ \A r, s \in 1..Len(wire) : r < s => wire[r] < wire[s]
    <3>1. wire \in Seq(Nat) /\ preparedMessages \in Nat /\ accepted \in Seq(Messages)
      BY DEF QueueProofs!IInv, QueueProofs!TypeOK, CycleFits
    <3>2. Len(wire) \in Nat /\ Len(accepted) \in Nat
      BY <3>1, LenProperties
    <3>3. \A r \in 1..Len(wire) : wire[r] \in 1..(Len(accepted) - preparedMessages)
      BY DEF QueueProofs!IInv, QueueProofs!WireBeforeBuffer
    <3>4. \A r, s \in 1..Len(wire) : r < s => wire[r] < wire[s]
      BY DEF QueueProofs!IInv, QueueProofs!WireInOrder
    <3> QED BY <3>1, <3>2, <3>3, <3>4
  <2>2. \A r \in 1..Len(wire) : OnWire(r) \in Messages
    BY <2>1, ElementOfSeq DEF OnWire
  <2>3. \A r \in 1..Len(wire) : IsSync(r) \/ IsSetpoint(r) => OnWire(r).cycle \in Nat
    BY <2>2, MessageFacts DEF OfPeriod, IsSync, IsSetpoint
  <2>4. \A r \in R : r \in 1..Len(wire) /\ p < r /\ r < q
    BY <2>1 DEF IsSync, IsSetpoint
  <2>5. \A r \in R : OnWire(r).cycle \in T
    <3> SUFFICES ASSUME NEW r \in R PROVE OnWire(r).cycle \in T
      OBVIOUS
    <3>1. r \in 1..Len(wire) /\ p < r /\ r < q /\ IsSetpoint(r)
      BY <2>4
    <3>2. wire[p] < wire[r] /\ wire[r] < wire[q]
      BY <2>1, <3>1
    <3>3. OnWire(p).cycle < OnWire(r).cycle
      BY <2>1, <3>1, <3>2 DEF CycleInv, AcceptedInOrder, OfPeriod, OnWire, IsSync, IsSetpoint
    <3>4. OnWire(r).cycle <= OnWire(q).cycle
      BY <2>1, <3>1, <3>2 DEF Tidy, NoneAhead, OnWire, IsSync, IsSetpoint
    <3> QED BY <2>3, <3>1, <3>3, <3>4
  <2>6. ASSUME NEW r \in R, NEW s \in R, r # s PROVE OnWire(r).cycle # OnWire(s).cycle
    <3>1. wire[r] # wire[s] /\ wire[r] \in 1..Len(accepted) /\ wire[s] \in 1..Len(accepted)
      BY <2>1, <2>4, <2>6
    <3> QED BY <3>1 DEF Tidy, OncePerPeriod, OnWire, IsSetpoint
  <2>7. f \in Injection(R, T)
    BY <2>5, <2>6 DEF Injection, IsInjective
  <2>8. OnWire(p).cycle \in Nat /\ OnWire(q).cycle \in Nat /\ OnWire(p).cycle < OnWire(q).cycle
    BY <2>1, <2>3 DEF CycleInv, AcceptedInOrder, OfPeriod, OnWire, IsSync
  <2> DEFINE a == OnWire(p).cycle
             b == OnWire(q).cycle
  <2> HIDE DEF R, f, a, b
  <2>9. IsFiniteSet(T) /\ Cardinality(T) = b - a
    <3>1. a \in Int /\ b \in Int /\ a + 1 \in Int /\ a < b
      BY <2>8 DEF a, b
    <3>2. IsFiniteSet((a + 1)..b) /\ Cardinality((a + 1)..b) = IF a + 1 > b THEN 0 ELSE b - (a + 1) + 1
      BY <3>1, FS_Interval
    <3>3. T = (a + 1)..b
      BY DEF a, b
    <3> HIDE DEF T
    <3> QED BY <3>1, <3>2, <3>3
  <2>10. Cardinality(R) <= Cardinality(T)
    BY <2>7, <2>9, FS_Injection
  <2> QED BY <2>9, <2>10 DEF SetpointsBetween, R, a, b
<1> QED BY <1>1, CycleInductive, AlwaysTidy, QueueIsFifo, PTL

\* Both in one: a drive that has its setpoint of a period before the SYNC of that period
\* has one of no other period, and has got it once.
THEOREM CyclesStayWhole == ASSUME CycleFits, NoHandleTwice PROVE CycleSpec => []CyclesAreWhole
<1>1. SyncSeparatesCycles /\ OneSetpointPerPeriod => CyclesAreWhole
  BY DEF CyclesAreWhole
<1> QED BY <1>1, PeriodsStayApart, SetpointsDoNotPileUp, PTL

-----------------------------------------------------------------------------
(***************************************************************************)
(* Moves, for any targets, orders, numbers of calls and of frames, of one   *)
(* caller and a drive that tells each change of its status at once.  A move *)
(* is taken if bit 4 rises with it, so it was cleared before: the queue is  *)
(* made of words whose bit 4 only falls, but for one rise at most, at k,    *)
(* which is the move that was ordered and is not taken yet.  Bit 4 falls    *)
(* because an acknowledgement comes, and it comes before the reply to the   *)
(* transfer of the next target.                                             *)
(***************************************************************************)
MoveBits == {SetPoint, Relative, Halt}
Shown == SUBSET {Reached, Acknowledge}
Movers == [at : {"idle", "sdo", "read", "send", "keep"}, order : {"absolute", "relative", "stop"},
           ref : Targets \cup {0}, word : SUBSET MoveBits]
Readers == [at : {"idle", "reached", "reached send", "reached keep", "acknowledged", "acknowledged send",
                  "acknowledged keep"}, status : Shown, word : SUBSET MoveBits]
ToDrive == [kind : {"word"}, word : SUBSET MoveBits] \cup [kind : {"sdo"}, client : Callers, ref : Targets]
ToHost == [kind : {"status"}, status : Shown] \cup [kind : {"reply"}, client : Callers, ok : BOOLEAN]
DriveStates == [object : Targets \cup {0}, word : SUBSET MoveBits, status : Shown, moves : BOOLEAN, told : Shown]

MovesTyped ==
  /\ controlword \in SUBSET MoveBits /\ statusword \in Shown
  /\ mover \in [Callers -> Movers] /\ reader \in Readers /\ (reader.at = "idle" => reader = Waiting)
  /\ toDrive \in Seq(ToDrive) /\ toHost \in Seq(ToHost)
  /\ drive \in DriveStates /\ drive.told = drive.status
  /\ clashed \in BOOLEAN /\ halts \in BOOLEAN /\ stuck \in BOOLEAN

\* One caller, of whom the drive is told without delay.
OneCaller == Prompt /\ \A c, d \in Callers : c = d

\* A word is under way at i, with bit 4.
IsWord(i) == toDrive[i].kind = "word"
High(i) == SetPoint \in toDrive[i].word

\* Bit 4 only falls, from the last word the drive has, except at k.
Chain(k) ==
  /\ k \in 1..(Len(toDrive) + 1)
  /\ \A i, j \in DOMAIN toDrive : i < j /\ (j < k \/ k <= i) /\ IsWord(i) /\ IsWord(j) /\ High(j) => High(i)
  /\ \A j \in DOMAIN toDrive : j < k /\ IsWord(j) /\ High(j) => SetPoint \in drive.word

\* The rise at k, with none before it, is of the move that is yet to be taken; all was
\* acknowledged for when it was sent.
Rising(k) ==
  IF k > Len(toDrive) THEN ordered = taken
  ELSE /\ \A i \in 1..k : IsWord(i)
       /\ High(k) /\ Halt \notin toDrive[k].word
       /\ ordered = Append(taken, Move(IF Relative \in toDrive[k].word THEN "relative" ELSE "absolute", drive.object))
       /\ SetPoint \notin drive.word \/ \E i \in 1..(k - 1) : ~High(i)
       /\ \A i \in DOMAIN toHost : toHost[i].kind = "status"

Queued(k) == Chain(k) /\ Rising(k)

\* Bit 4 is clear in the last word that was sent.
Lowered(k) ==
  \/ k > Len(toDrive) /\ SetPoint \notin drive.word
  \/ \E i \in DOMAIN toDrive : (i > k \/ k > Len(toDrive)) /\ IsWord(i) /\ ~High(i)

\* The reader is going to clear bit 4, before it hands on a reply.
AckComes ==
  \/ reader.at \in {"reached", "reached send", "reached keep", "acknowledged"} /\ Acknowledge \in reader.status
  \/ reader.at = "acknowledged send"
  \/ \E i \in DOMAIN toHost : /\ toHost[i].kind = "status" /\ Acknowledge \in toHost[i].status
                              /\ \A j \in 1..(i - 1) : toHost[j].kind = "status"

\* A transfer is under way, or the reply to it, while the caller waits for it.
Transfers ==
  /\ \A i \in DOMAIN toDrive : ~IsWord(i) =>
       /\ mover[toDrive[i].client].at = "sdo" /\ mover[toDrive[i].client].ref = toDrive[i].ref
       /\ \A j \in DOMAIN toDrive : ~IsWord(j) => i = j
       /\ \A j \in DOMAIN toHost : toHost[j].kind = "status"
  /\ \A i \in DOMAIN toHost : toHost[i].kind = "reply" =>
       /\ mover[toHost[i].client].at = "sdo"
       /\ toHost[i].ok => drive.object = mover[toHost[i].client].ref
       /\ \A j \in DOMAIN toHost : toHost[j].kind = "reply" => i = j

\* What the caller has in hand: a move that will rise, or a stop that will not.
Moving(c) == mover[c].order # "stop"
Asks(k) ==
  \A c \in Callers :
    /\ mover[c].at = "sdo" => Moving(c)
    /\ mover[c].at # "idle" /\ ~Moving(c) => halts
    /\ Changing(mover[c].at) /\ Halt \in mover[c].word => halts
    /\ mover[c].at \in {"sdo", "read"} /\ Moving(c) => Halt \notin controlword
    /\ mover[c].at \in {"read", "send"} /\ Moving(c) =>
         k > Len(toDrive) /\ Lowered(k) /\ drive.object = mover[c].ref
    /\ mover[c].at = "send" /\ Moving(c) =>
         /\ SetPoint \in mover[c].word /\ Halt \notin mover[c].word
         /\ Relative \in mover[c].word <=> mover[c].order = "relative"
    /\ mover[c].at = "send" /\ ~Moving(c) /\ SetPoint \in mover[c].word => ~Lowered(k)
    /\ ~clashed /\ mover[c].at = "keep" /\ SetPoint \in mover[c].word => ~Lowered(k)
    /\ ~clashed => ~(Changing(reader.at) /\ Changing(mover[c].at))

\* What the reader has in hand never rises.
Reads(k) ==
  /\ reader.at \in {"acknowledged send", "acknowledged keep"} => SetPoint \notin reader.word
  /\ reader.at \in {"reached send", "reached keep"} => halts /\ (SetPoint \in reader.word => ~Lowered(k))
  /\ Changing(reader.at) /\ Halt \in reader.word => Halt \in controlword

\* The stored word is the last that was sent, as long as the two take turns.
Stored(k) ==
  /\ ~halts => Halt \notin controlword
  /\ ~clashed /\ reader.at \notin {"reached keep", "acknowledged keep"} /\ (\A c \in Callers : mover[c].at # "keep") =>
       (SetPoint \in controlword => ~Lowered(k))

Tame(k) ==
  /\ Queued(k) /\ Transfers /\ Asks(k) /\ Reads(k) /\ Stored(k)
  /\ SetPoint \in drive.word \/ Acknowledge \notin drive.status
  /\ k > Len(toDrive) /\ ~Lowered(k) => AckComes
Good == ~stuck /\ ~(clashed /\ halts)
MovesInv == MovesTyped /\ (Good => \E k \in 1..(Len(toDrive) + 1) : Tame(k))

-----------------------------------------------------------------------------
\* A record of the caller or the reader, changed.
LEMMA MoverChanged ==
  ASSUME NEW r \in Movers, NEW at \in {"idle", "sdo", "read", "send", "keep"}, NEW w \in SUBSET MoveBits
  PROVE  /\ [r EXCEPT !.at = at] \in Movers /\ [r EXCEPT !.at = at].at = at
         /\ [r EXCEPT !.at = at].order = r.order /\ [r EXCEPT !.at = at].ref = r.ref
         /\ [r EXCEPT !.at = at].word = r.word
         /\ [r EXCEPT !.at = at, !.word = w] \in Movers /\ [r EXCEPT !.at = at, !.word = w].at = at
         /\ [r EXCEPT !.at = at, !.word = w].order = r.order /\ [r EXCEPT !.at = at, !.word = w].ref = r.ref
         /\ [r EXCEPT !.at = at, !.word = w].word = w
BY DEF Movers

LEMMA ReaderChanged ==
  ASSUME NEW r \in Readers, NEW at \in {"reached", "reached send", "reached keep", "acknowledged",
                                        "acknowledged send", "acknowledged keep"}, NEW w \in SUBSET MoveBits
  PROVE  /\ [r EXCEPT !.at = at] \in Readers /\ [r EXCEPT !.at = at].at = at
         /\ [r EXCEPT !.at = at].status = r.status /\ [r EXCEPT !.at = at].word = r.word
         /\ [r EXCEPT !.at = at, !.word = w] \in Readers /\ [r EXCEPT !.at = at, !.word = w].at = at
         /\ [r EXCEPT !.at = at, !.word = w].status = r.status
         /\ [r EXCEPT !.at = at, !.word = w].word = w
BY DEF Readers

\* The only caller goes on.
LEMMA CallerGoes ==
  ASSUME OneCaller, MovesTyped, NEW c \in Callers, NEW hand \in Movers, Goes(c, hand)
  PROVE  mover' \in [Callers -> Movers] /\ \A d \in Callers : d = c /\ mover'[d] = hand
BY DEF OneCaller, MovesTyped, Goes

-----------------------------------------------------------------------------
\* The types: each step keeps them, and the drive hides nothing.
LEMMA FramesTyped ==
  ASSUME NEW w \in SUBSET MoveBits, NEW c \in Callers, NEW ref \in Targets, NEW s \in Shown, NEW ok \in BOOLEAN
  PROVE  /\ Word(w) \in ToDrive /\ Sdo(c, ref) \in ToDrive /\ Status(s) \in ToHost
         /\ [kind |-> "reply", client |-> c, ok |-> ok] \in ToHost
BY DEF Word, Sdo, Status, ToDrive, ToHost

\* What the drive tells of its status, and a reply.
LEMMA TellsTyped ==
  ASSUME OneCaller, MovesTyped, NEW d \in DriveStates, NEW more \in Seq(ToHost), Tells(d, more)
  PROVE  /\ drive' \in DriveStates /\ toHost' \in Seq(ToHost) /\ drive'.told = drive'.status
         /\ drive'.status = d.status /\ drive'.word = d.word /\ drive'.object = d.object
         /\ toHost' = IF d.status # d.told THEN Append(toHost, Status(d.status)) \o more ELSE toHost \o more
<1>1. d.status \in Shown /\ Status(d.status) \in ToHost
  BY FramesTyped DEF DriveStates, Status, ToHost
<1>2. toHost \o more \in Seq(ToHost) /\ Append(toHost, Status(d.status)) \o more \in Seq(ToHost)
  <2>1. toHost \in Seq(ToHost)
    BY DEF MovesTyped
  <2>2. Append(toHost, Status(d.status)) \in Seq(ToHost)
    BY <1>1, <2>1
  <2> QED BY <2>1, <2>2
<1>3. CASE d.status # d.told
  <2>1. drive' = [d EXCEPT !.told = d.status] /\ toHost' = Append(toHost, Status(d.status)) \o more
    BY <1>3 DEF Tells, OneCaller
  <2>2. [d EXCEPT !.told = d.status] \in DriveStates
    BY <1>1 DEF DriveStates
  <2> QED BY <1>2, <1>3, <2>1, <2>2 DEF DriveStates
<1>4. CASE d.status = d.told
  BY <1>2, <1>4 DEF Tells
<1> QED BY <1>3, <1>4

LEMMA CallsTyped ==
  ASSUME MovesFit, OneCaller, MovesTyped, NEW c \in Callers,
         \/ BeginStop(c) \/ Client(c) \/ CheckMotionDone(c)
         \/ \E order \in MoveOrders, ref \in Targets : BeginMove(c, order, ref)
  PROVE  MovesTyped'
<1> USE DEF MovesTyped
<1>1. /\ mover[c] \in Movers /\ NoMove \in Movers /\ [NoMove EXCEPT !.at = "read"] \in Movers
      /\ mover[c].word \in SUBSET MoveBits
  BY DEF Movers, NoMove
<1>2. ASSUME NEW order \in MoveOrders, NEW ref \in Targets, BeginMove(c, order, ref) PROVE MovesTyped'
  <2>1. [at |-> "sdo", order |-> order, ref |-> ref, word |-> {}] \in Movers
    BY DEF MovesFit, Movers
  <2>2. mover' \in [Callers -> Movers]
    BY <1>2, <2>1, CallerGoes DEF BeginMove
  <2>3. toDrive' \in Seq(ToDrive)
    <3>1. Sdo(c, ref) \in ToDrive
      BY DEF Sdo, ToDrive
    <3> QED BY <1>2, <3>1 DEF BeginMove
  <2> QED BY <1>2, <2>2, <2>3 DEF BeginMove
<1>3. CASE BeginStop(c)
  <2>1. mover' \in [Callers -> Movers]
    BY <1>1, <1>3, CallerGoes DEF BeginStop
  <2> QED BY <1>3, <2>1 DEF BeginStop
<1>4. CASE CheckMotionDone(c)
  BY <1>4 DEF CheckMotionDone, movesVars, movesGhosts
<1>5. CASE ReadWord(c)
  <2>1. ChangedWord(mover[c].order) \in SUBSET MoveBits
    BY <1>1 DEF ChangedWord, Movers, MoveBits
  <2>2. mover' \in [Callers -> Movers]
    BY <1>1, <1>5, <2>1, CallerGoes, MoverChanged, ZenonT(40) DEF ReadWord
  <2>3. clashed' \in BOOLEAN
    BY <1>5 DEF ReadWord, Changing
  <2> QED BY <1>5, <2>2, <2>3 DEF ReadWord
<1>6. CASE SendWord(c)
  <2>1. mover' \in [Callers -> Movers]
    <3>1. [mover[c] EXCEPT !.at = "keep"] \in Movers
      BY <1>1, MoverChanged
    <3> QED BY <1>1, <1>6, <3>1, CallerGoes DEF SendWord
  <2>2. toDrive' \in Seq(ToDrive)
    <3>1. Word(mover[c].word) \in ToDrive
      BY <1>1 DEF Word, ToDrive
    <3> QED BY <1>6, <3>1, SMTT(40) DEF SendWord
  <2> QED BY <1>6, <2>1, <2>2 DEF SendWord
<1>7. CASE KeepWord(c)
  <2>1. mover' \in [Callers -> Movers]
    BY <1>1, <1>7, CallerGoes DEF KeepWord
  <2> QED BY <1>1, <1>7, <2>1 DEF KeepWord, movesGhosts
<1> QED BY <1>2, <1>3, <1>4, <1>5, <1>6, <1>7 DEF Client

LEMMA ReaderTyped ==
  ASSUME OneCaller, MovesTyped, Reader
  PROVE  MovesTyped'
<1> USE DEF MovesTyped
<1>1. Waiting \in Readers /\ Waiting.at = "idle" /\ reader.word \in SUBSET MoveBits /\ reader.status \in Shown
  BY DEF Waiting, Readers, Shown
<1>2. CASE ReadStatus
  <2>1. Head(toHost) \in ToHost /\ Head(toHost).status \in Shown /\ toHost' \in Seq(ToHost)
    BY <1>2 DEF ReadStatus, ToHost
  <2>2. reader' \in Readers /\ reader'.at = "reached"
    BY <1>2, <2>1 DEF ReadStatus, Waiting, Readers
  <2> QED BY <1>2, <2>1, <2>2 DEF ReadStatus, movesGhosts
<1>3. CASE ReadReply
  <2>1. Head(toHost) \in ToHost /\ Head(toHost).client \in Callers /\ toHost' \in Seq(ToHost)
    BY <1>3 DEF ReadReply, ToHost
  <2>2. mover[Head(toHost).client] \in Movers /\ NoMove \in Movers
    BY <2>1 DEF Movers, NoMove
  <2>3. [mover[Head(toHost).client] EXCEPT !.at = "read"] \in Movers
    BY <2>2, MoverChanged
  <2>4. mover' \in [Callers -> Movers]
    BY <1>3, <2>1, <2>2, <2>3 DEF ReadReply, Goes
  <2> QED BY <1>3, <2>1, <2>4 DEF ReadReply, movesGhosts
<1>4. CASE Rests
  <2>1. controlword \ {Halt} \in SUBSET MoveBits
    OBVIOUS
  <2>2. reader' \in Readers /\ reader'.at # "idle"
    <3> DEFINE w == controlword \ {Halt}
    <3>1. w \in SUBSET MoveBits
      BY <2>1
    <3>2. reader' = [reader EXCEPT !.at = "reached send", !.word = w] \/ reader' = [reader EXCEPT !.at = "acknowledged"]
      BY <1>4 DEF Rests
    <3> HIDE DEF w
    <3>3. /\ [reader EXCEPT !.at = "reached send", !.word = w] \in Readers
          /\ [reader EXCEPT !.at = "reached send", !.word = w].at = "reached send"
          /\ [reader EXCEPT !.at = "acknowledged"] \in Readers
          /\ [reader EXCEPT !.at = "acknowledged"].at = "acknowledged"
      BY <3>1 DEF Readers
    <3> QED BY <3>2, <3>3
  <2>3. clashed' \in BOOLEAN
    BY <1>4 DEF Rests, Clashes, Changing
  <2> QED BY <1>4, <2>2, <2>3 DEF Rests
<1>5. CASE Acknowledged
  <2>1. controlword \ {SetPoint} \in SUBSET MoveBits
    OBVIOUS
  <2>2. reader' \in Readers /\ (reader'.at = "idle" => reader' = Waiting)
    <3>1. CASE Acknowledge \in reader.status
      <4> DEFINE w == controlword \ {SetPoint}
      <4>1. w \in SUBSET MoveBits /\ reader' = [reader EXCEPT !.at = "acknowledged send", !.word = w]
        BY <1>5, <2>1, <3>1 DEF Acknowledged
      <4> HIDE DEF w
      <4>2. /\ [reader EXCEPT !.at = "acknowledged send", !.word = w] \in Readers
            /\ [reader EXCEPT !.at = "acknowledged send", !.word = w].at = "acknowledged send"
        BY <4>1 DEF Readers
      <4> QED BY <4>1, <4>2
    <3>2. CASE Acknowledge \notin reader.status
      BY <1>1, <1>5, <3>2 DEF Acknowledged
    <3> QED BY <3>1, <3>2
  <2>3. clashed' \in BOOLEAN /\ statusword' \in Shown
    BY <1>1, <1>5 DEF Acknowledged, Clashes, Changing
  <2> QED BY <1>5, <2>2, <2>3 DEF Acknowledged
<1>6. ASSUME AfterSend PROVE reader' \in Readers /\ (reader'.at = "idle" => reader' = Waiting) /\ statusword' \in Shown
  <2>1. [reader EXCEPT !.at = "acknowledged"] \in Readers /\ [reader EXCEPT !.at = "acknowledged"].at = "acknowledged"
    BY ReaderChanged, <1>1
  <2> QED BY <1>1, <1>6, <2>1 DEF AfterSend
<1>7. CASE ReaderSends
  <2>1. toDrive' \in Seq(ToDrive)
    <3>1. Word(reader.word) \in ToDrive
      BY <1>1 DEF Word, ToDrive
    <3>2. toDrive' = Append(toDrive, Word(reader.word)) \/ toDrive' = toDrive
      BY <1>7 DEF ReaderSends
    <3> QED BY <3>1, <3>2
  <2>2. reader' \in Readers /\ (reader'.at = "idle" => reader' = Waiting) /\ statusword' \in Shown
    <3>1. CASE reader' = [reader EXCEPT !.at = IF @ = "reached send" THEN "reached keep" ELSE "acknowledged keep"]
               /\ UNCHANGED statusword
      <4>1. reader' = [reader EXCEPT !.at = "reached keep"] \/ reader' = [reader EXCEPT !.at = "acknowledged keep"]
        BY <3>1
      <4> QED BY <1>1, <3>1, <4>1, ReaderChanged
    <3> QED BY <1>6, <1>7, <3>1 DEF ReaderSends
  <2>3. stuck' \in BOOLEAN
    BY <1>7 DEF ReaderSends
  <2> QED BY <1>7, <2>1, <2>2, <2>3 DEF ReaderSends
<1>8. CASE ReaderKeeps
  BY <1>1, <1>6, <1>8 DEF ReaderKeeps, movesGhosts
<1> QED BY <1>2, <1>3, <1>4, <1>5, <1>7, <1>8 DEF Reader

\* What the drive does with a word, with a transfer, and of its own accord.
Takes(w) == SetPoint \in w /\ SetPoint \notin drive.word /\ Halt \notin w

LEMMA WordTaken ==
  ASSUME OneCaller, MovesTyped, TakeWord
  PROVE  /\ toDrive # <<>> /\ IsWord(1) /\ toDrive[1].word \in SUBSET MoveBits /\ toDrive' = Tail(toDrive)
         /\ drive' \in DriveStates /\ drive'.told = drive'.status /\ drive'.word = toDrive[1].word
         /\ drive'.object = drive.object
         /\ Acknowledge \in drive'.status => SetPoint \in drive'.word
         /\ toHost' = toHost \/ toHost' = Append(toHost, Status(drive'.status))
         /\ Takes(toDrive[1].word) /\ Acknowledge \notin drive.status =>
              Acknowledge \in drive'.status /\ toHost' = Append(toHost, Status(drive'.status))
         /\ taken' = IF Takes(toDrive[1].word)
                     THEN Append(taken, Move(IF Relative \in toDrive[1].word THEN "relative" ELSE "absolute", drive.object))
                     ELSE taken
         /\ UNCHANGED <<controlword, statusword, mover, reader, begun, ordered, stopped, clashed, halts, stuck>>
<1> DEFINE w == toDrive[1].word
           takes == Takes(w)
           kept == (IF takes THEN drive.status \ {Reached} ELSE drive.status) \ {Acknowledge}
           status == kept \cup (IF takes \/ (SetPoint \in w /\ Acknowledge \in drive.status) THEN {Acknowledge} ELSE {})
           d == [drive EXCEPT !.word = w, !.moves = @ \/ takes, !.status = status]
<1>1. /\ toDrive # <<>> /\ toDrive[1].kind = "word" /\ toDrive' = Tail(toDrive) /\ Tells(d, <<>>)
      /\ taken' = (IF takes THEN Append(taken, Move(IF Relative \in w THEN "relative" ELSE "absolute", drive.object))
                   ELSE taken)
      /\ UNCHANGED <<controlword, statusword, mover, reader, begun, ordered, stopped, clashed, halts, stuck>>
  <2>1. Head(toDrive) = toDrive[1]
    BY DEF MovesTyped, TakeWord
  <2> QED BY <2>1 DEF TakeWord, Takes
<1>2. w \in SUBSET MoveBits /\ takes \in BOOLEAN
  <2>1. toDrive[1] \in ToDrive
    BY <1>1 DEF MovesTyped
  <2> QED BY <1>1, <2>1 DEF ToDrive, Takes
<1>3. drive \in DriveStates /\ drive.status \in Shown /\ drive.told = drive.status
  BY DEF MovesTyped, DriveStates
<1>4. status \in Shown
  BY <1>3 DEF Shown
<1>5. /\ Acknowledge \in status => SetPoint \in w
      /\ takes => Acknowledge \in status
  <2>1. Acknowledge \notin kept
    OBVIOUS
  <2> HIDE DEF kept
  <2> QED BY <2>1 DEF Takes
<1> HIDE DEF status, takes, w
<1>6. /\ d \in DriveStates /\ d.word = w /\ d.status = status /\ d.told = drive.told /\ d.object = drive.object
  BY <1>2, <1>3, <1>4 DEF DriveStates
<1> HIDE DEF d
<1>7. <<>> \in Seq(ToHost)
  OBVIOUS
<1>8. /\ drive' \in DriveStates /\ drive'.told = drive'.status
      /\ drive'.status = status /\ drive'.word = w /\ drive'.object = drive.object
      /\ toHost' = IF status # drive.told THEN Append(toHost, Status(status)) \o <<>> ELSE toHost \o <<>>
  BY <1>1, <1>6, <1>7, TellsTyped
<1>9. toHost' = IF status # drive.told THEN Append(toHost, Status(status)) ELSE toHost
  <2>1. toHost \in Seq(ToHost) /\ Status(status) \in ToHost
    BY <1>4, FramesTyped DEF MovesTyped, Status, ToHost
  <2>2. Append(toHost, Status(status)) \in Seq(ToHost)
    BY <2>1
  <2>3. toHost \o <<>> = toHost /\ Append(toHost, Status(status)) \o <<>> = Append(toHost, Status(status))
    BY <2>1, <2>2, ConcatEmptySeq
  <2> QED BY <1>8, <2>3
<1>10. takes /\ Acknowledge \notin drive.status => status # drive.told
  BY <1>3, <1>5
<1> QED BY <1>1, <1>2, <1>5, <1>8, <1>9, <1>10 DEF takes, w, IsWord

LEMMA SdoTaken ==
  ASSUME OneCaller, MovesTyped, TakeSdo
  PROVE  /\ toDrive # <<>> /\ ~IsWord(1) /\ toDrive[1].client \in Callers /\ toDrive[1].ref \in Targets
         /\ toDrive' = Tail(toDrive)
         /\ drive' \in DriveStates /\ drive'.told = drive'.status /\ drive'.word = drive.word
         /\ drive'.status = drive.status
         /\ \E ok \in BOOLEAN :
              /\ ok => drive'.object = toDrive[1].ref
              /\ toHost' = Append(toHost, [kind |-> "reply", client |-> toDrive[1].client, ok |-> ok])
         /\ UNCHANGED <<controlword, statusword, mover, reader, movesGhosts>>
<1> DEFINE m == toDrive[1]
<1>1. /\ toDrive # <<>> /\ Head(toDrive) = m /\ m.kind = "sdo" /\ toDrive' = Tail(toDrive)
      /\ UNCHANGED <<controlword, statusword, mover, reader, movesGhosts>>
  <2>1. Head(toDrive) = toDrive[1]
    BY DEF MovesTyped, TakeSdo
  <2> QED BY <2>1 DEF TakeSdo
<1>2. m \in ToDrive
  BY <1>1 DEF MovesTyped
<1>3. m.client \in Callers /\ m.ref \in Targets
  BY <1>1, <1>2 DEF ToDrive
<1>4. PICK ok \in BOOLEAN : Tells(IF ok THEN [drive EXCEPT !.object = m.ref] ELSE drive,
                                  <<[kind |-> "reply", client |-> m.client, ok |-> ok]>>)
  BY <1>1 DEF TakeSdo
<1> HIDE DEF m
<1> DEFINE d == IF ok THEN [drive EXCEPT !.object = m.ref] ELSE drive
           reply == [kind |-> "reply", client |-> m.client, ok |-> ok]
<1>5. drive \in DriveStates /\ drive.told = drive.status
  BY DEF MovesTyped
<1>6. /\ d \in DriveStates /\ d.told = d.status /\ d.word = drive.word /\ d.status = drive.status
      /\ ok => d.object = m.ref
  BY <1>3, <1>5 DEF DriveStates
<1>7. reply \in ToHost
  BY <1>3, FramesTyped DEF ToHost
<1> HIDE DEF d, reply
<1>8. <<reply>> \in Seq(ToHost) /\ Tells(d, <<reply>>)
  BY <1>4, <1>7 DEF d, reply
<1>9. /\ drive' \in DriveStates /\ drive'.told = drive'.status /\ drive'.word = d.word /\ drive'.status = d.status
      /\ drive'.object = d.object /\ toHost' = toHost \o <<reply>>
  BY <1>6, <1>8, TellsTyped
<1>10. toHost' = Append(toHost, reply)
  BY <1>7, <1>9 DEF MovesTyped
<1> QED BY <1>1, <1>3, <1>6, <1>9, <1>10 DEF m, reply, IsWord

LEMMA DriveTells ==
  ASSUME OneCaller, MovesTyped, Rest \/ Retell
  PROVE  /\ drive' \in DriveStates /\ drive'.told = drive'.status /\ drive'.word = drive.word
         /\ drive'.object = drive.object
         /\ Acknowledge \in drive'.status <=> Acknowledge \in drive.status
         /\ toHost' = toHost \/ toHost' = Append(toHost, Status(drive'.status))
         /\ UNCHANGED <<controlword, statusword, mover, reader, toDrive, movesGhosts>>
<1>1. drive \in DriveStates /\ drive.told = drive.status /\ drive.status \in Shown /\ toHost \in Seq(ToHost)
  BY DEF MovesTyped, DriveStates
<1>2. CASE Rest
  <2> DEFINE status == drive.status \cup {Reached}
             d == [drive EXCEPT !.moves = FALSE, !.status = status]
  <2>1. Tells(d, <<>>) /\ UNCHANGED <<controlword, statusword, mover, reader, toDrive, movesGhosts>>
    BY <1>2 DEF Rest
  <2>2. status \in Shown /\ (Acknowledge \in status <=> Acknowledge \in drive.status)
    BY <1>1 DEF Shown, Reached, Acknowledge
  <2> HIDE DEF status
  <2>3. d \in DriveStates /\ d.word = drive.word /\ d.status = status /\ d.object = drive.object
    BY <1>1, <2>2 DEF DriveStates
  <2> HIDE DEF d
  <2>4. <<>> \in Seq(ToHost)
    OBVIOUS
  <2>5. /\ drive' \in DriveStates /\ drive'.told = drive'.status
        /\ drive'.status = status /\ drive'.word = drive.word /\ drive'.object = drive.object
        /\ toHost' = IF d.status # d.told THEN Append(toHost, Status(status)) \o <<>> ELSE toHost \o <<>>
    BY <2>1, <2>3, <2>4, TellsTyped
  <2>6. toHost \o <<>> = toHost /\ Append(toHost, Status(status)) \o <<>> = Append(toHost, Status(status))
    <3>1. Status(status) \in ToHost
      BY <2>2, FramesTyped DEF Status, ToHost
    <3>2. Append(toHost, Status(status)) \in Seq(ToHost)
      BY <1>1, <3>1
    <3> QED BY <1>1, <3>2, ConcatEmptySeq
  <2> QED BY <2>1, <2>2, <2>5, <2>6
<1>3. CASE Retell
  BY <1>1, <1>3 DEF Retell, DriveStates
<1> QED BY <1>2, <1>3

LEMMA DriveTyped ==
  ASSUME OneCaller, MovesTyped, Drive \/ Retell
  PROVE  MovesTyped'
<1>1. toDrive \in Seq(ToDrive) /\ toHost \in Seq(ToHost) /\ drive.status \in Shown
  BY DEF MovesTyped, DriveStates
<1>2. CASE TakeSdo
  <2> DEFINE m == toDrive[1]
  <2>1. m.client \in Callers /\ \E ok \in BOOLEAN :
          toHost' = Append(toHost, [kind |-> "reply", client |-> m.client, ok |-> ok])
    BY <1>2, SdoTaken
  <2> HIDE DEF m
  <2>2. PICK ok \in BOOLEAN : toHost' = Append(toHost, [kind |-> "reply", client |-> m.client, ok |-> ok])
    BY <2>1
  <2>3. [kind |-> "reply", client |-> m.client, ok |-> ok] \in ToHost
    BY <2>1 DEF ToHost
  <2>4. toHost' \in Seq(ToHost)
    BY <1>1, <2>2, <2>3
  <2>5. toDrive # <<>> /\ toDrive' = Tail(toDrive)
    BY <1>2, SdoTaken
  <2>6. toDrive' \in Seq(ToDrive)
    BY <1>1, <2>5
  <2>7. drive' \in DriveStates /\ drive'.told = drive'.status
    BY <1>2, SdoTaken
  <2>8. UNCHANGED <<controlword, statusword, mover, reader, clashed, halts, stuck>>
    BY <1>2, SdoTaken DEF movesGhosts
  <2> QED BY <2>4, <2>6, <2>7, <2>8 DEF MovesTyped
<1>3. ASSUME drive' \in DriveStates, toHost' = toHost \/ toHost' = Append(toHost, Status(drive'.status))
      PROVE  toHost' \in Seq(ToHost)
  <2>1. drive'.status \in Shown
    BY <1>3 DEF DriveStates
  <2>2. Status(drive'.status) \in ToHost
    BY <2>1 DEF Status, ToHost
  <2> QED BY <1>1, <1>3, <2>2
<1>4. CASE TakeWord
  <2>1. toDrive # <<>> /\ toDrive' = Tail(toDrive)
    BY <1>4, WordTaken
  <2>2. toDrive' \in Seq(ToDrive)
    BY <1>1, <2>1
  <2>3. toHost' = toHost \/ toHost' = Append(toHost, Status(drive'.status))
    BY <1>4, WordTaken
  <2>4. drive' \in DriveStates /\ drive'.told = drive'.status
    BY <1>4, WordTaken
  <2>5. UNCHANGED <<controlword, statusword, mover, reader, clashed, halts, stuck>>
    BY <1>4, WordTaken
  <2> QED BY <1>3, <2>2, <2>3, <2>4, <2>5 DEF MovesTyped
<1>5. CASE Rest \/ Retell
  BY <1>1, <1>3, <1>5, DriveTells DEF MovesTyped, movesGhosts
<1> QED BY <1>2, <1>4, <1>5 DEF Drive, DriveTakes

-----------------------------------------------------------------------------
\* The words under way are words.
LEMMA WordsTyped ==
  ASSUME MovesTyped, NEW i \in DOMAIN toDrive
  PROVE  /\ i \in 1..Len(toDrive) /\ toDrive[i] \in ToDrive
         /\ IsWord(i) => toDrive[i].word \in SUBSET MoveBits
         /\ ~IsWord(i) => toDrive[i].client \in Callers
BY DEF MovesTyped, ToDrive, IsWord

\* A word that does not rise goes to the end of the queue.
LEMMA WordAppended ==
  ASSUME MovesTyped, NEW k \in 1..(Len(toDrive) + 1), NEW w \in SUBSET MoveBits, Queued(k),
         toDrive' = Append(toDrive, Word(w)), UNCHANGED <<drive, toHost, ordered, taken>>,
         SetPoint \in w => ~Lowered(k),
         NEW m, m = IF k > Len(toDrive) THEN k + 1 ELSE k
  PROVE  /\ m \in 1..(Len(toDrive') + 1) /\ Queued(m)' /\ (m > Len(toDrive') <=> k > Len(toDrive))
         /\ Lowered(m)' <=> Lowered(k) \/ SetPoint \notin w
<1> PICK n \in Nat : n = Len(toDrive)
  BY DEF MovesTyped
<1>1. /\ n \in Nat /\ Len(toDrive') = n + 1 /\ DOMAIN toDrive = 1..n /\ DOMAIN toDrive' = 1..(n + 1)
      /\ \A i \in 1..n : toDrive'[i] = toDrive[i]
      /\ toDrive'[n + 1].kind = "word" /\ toDrive'[n + 1].word = w
  BY DEF MovesTyped, Word
<1>2. \A i \in 1..n : (IsWord(i)' <=> IsWord(i)) /\ (High(i)' <=> High(i))
  BY <1>1 DEF IsWord, High
<1>3. IsWord(n + 1)' /\ (High(n + 1)' <=> SetPoint \in w)
  BY <1>1 DEF IsWord, High
<1>4. m \in 1..(n + 2) /\ (m > n + 1 <=> k > n) /\ m >= k
  BY <1>1
<1>5. Lowered(m)' <=> Lowered(k) \/ SetPoint \notin w
  BY <1>1, <1>2, <1>3, <1>4 DEF Lowered
<1>6. Chain(m)'
  <2>1. ASSUME NEW i \in 1..(n + 1), NEW j \in 1..(n + 1), i < j, j < m \/ m <= i, IsWord(i)', IsWord(j)', High(j)'
        PROVE  High(i)'
    <3>1. CASE j = n + 1
      <4>1. i \in 1..n /\ IsWord(i) /\ ~Lowered(k)
        BY <1>2, <1>3, <2>1, <3>1
      <4>2. k > n \/ i >= k
        BY <1>1, <2>1, <3>1
      <4>3. CASE i # k \/ k > n
        BY <1>1, <1>2, <4>1, <4>2, <4>3 DEF Lowered
      <4>4. CASE i = k /\ k <= n
        BY <1>1, <1>2, <4>1, <4>4 DEF Queued, Rising
      <4> QED BY <1>1, <4>3, <4>4
    <3>2. CASE j # n + 1
      <4>1. i \in 1..n /\ j \in 1..n /\ (j < k \/ k <= i)
        BY <1>1, <2>1, <3>2
      <4> QED BY <1>1, <1>2, <2>1, <4>1 DEF Queued, Chain
    <3> QED BY <3>1, <3>2
  <2>2. ASSUME NEW j \in 1..(n + 1), j < m, IsWord(j)', High(j)' PROVE SetPoint \in drive.word
    <3>1. CASE j = n + 1
      BY <1>1, <1>3, <2>2, <3>1 DEF Lowered
    <3>2. CASE j # n + 1
      BY <1>1, <1>2, <2>2, <3>2 DEF Queued, Chain
    <3> QED BY <3>1, <3>2
  <2> QED BY <1>1, <1>4, <2>1, <2>2 DEF Chain
<1>7. Rising(m)'
  <2>1. CASE k > n
    BY <1>1, <1>4, <2>1 DEF Queued, Rising
  <2>2. CASE k <= n
    <3>1. m = k /\ m <= n
      BY <1>1, <2>2
    <3>2. Rising(k)
      BY DEF Queued
    <3>3. /\ \A i \in 1..m : IsWord(i)' /\ (IsWord(i)' <=> IsWord(i)) /\ (High(i)' <=> High(i))
          /\ toDrive'[m] = toDrive[m]
      BY <1>1, <1>2, <2>2, <3>1, <3>2 DEF Rising
    <3>4. SetPoint \notin drive'.word \/ \E i \in 1..(m - 1) : ~High(i)'
      BY <1>1, <2>2, <3>1, <3>2, <3>3 DEF Rising
    <3>5. ordered' = Append(taken', Move(IF Relative \in toDrive'[m].word THEN "relative" ELSE "absolute", drive'.object))
      BY <1>1, <2>2, <3>1, <3>2, <3>3 DEF Rising
    <3>6. High(m)' /\ Halt \notin toDrive'[m].word /\ \A i \in DOMAIN toHost' : toHost'[i].kind = "status"
      BY <1>1, <2>2, <3>1, <3>2, <3>3 DEF Rising
    <3> QED BY <1>1, <3>1, <3>3, <3>4, <3>5, <3>6 DEF Rising
  <2> QED BY <1>1, <2>1, <2>2
<1> QED BY <1>1, <1>4, <1>5, <1>6, <1>7 DEF Queued

\* A transfer goes to the end of the queue.
LEMMA SdoAppended ==
  ASSUME MovesTyped, NEW k \in 1..(Len(toDrive) + 1), Queued(k), NEW c \in Callers, NEW ref \in Targets,
         toDrive' = Append(toDrive, Sdo(c, ref)), UNCHANGED <<drive, toHost, ordered, taken>>,
         NEW m, m = IF k > Len(toDrive) THEN k + 1 ELSE k
  PROVE  /\ m \in 1..(Len(toDrive') + 1) /\ Queued(m)' /\ (m > Len(toDrive') <=> k > Len(toDrive))
         /\ Lowered(m)' <=> Lowered(k)
<1> PICK n \in Nat : n = Len(toDrive)
  BY DEF MovesTyped
<1>1. /\ Len(toDrive') = n + 1 /\ DOMAIN toDrive = 1..n /\ DOMAIN toDrive' = 1..(n + 1)
      /\ \A i \in 1..n : toDrive'[i] = toDrive[i]
      /\ toDrive'[n + 1].kind = "sdo"
  BY DEF MovesTyped, Sdo
<1>2. \A i \in 1..n : (IsWord(i)' <=> IsWord(i)) /\ (High(i)' <=> High(i))
  BY <1>1 DEF IsWord, High
<1>3. ~IsWord(n + 1)'
  BY <1>1 DEF IsWord
<1>4. m \in 1..(n + 2) /\ (m > n + 1 <=> k > n) /\ m >= k
  BY <1>1
<1>5. Lowered(m)' <=> Lowered(k)
  BY <1>1, <1>2, <1>3, <1>4 DEF Lowered
<1>6. Chain(m)'
  <2>1. ASSUME NEW i \in 1..(n + 1), NEW j \in 1..(n + 1), i < j, j < m \/ m <= i, IsWord(i)', IsWord(j)', High(j)'
        PROVE  High(i)'
    <3>1. j # n + 1
      BY <1>3, <2>1
    <3>2. i \in 1..n /\ j \in 1..n /\ (j < k \/ k <= i)
      BY <1>1, <2>1, <3>1
    <3> QED BY <1>1, <1>2, <2>1, <3>2 DEF Queued, Chain
  <2>2. ASSUME NEW j \in 1..(n + 1), j < m, IsWord(j)', High(j)' PROVE SetPoint \in drive.word
    <3>1. j # n + 1
      BY <1>3, <2>2
    <3> QED BY <1>1, <1>2, <2>2, <3>1 DEF Queued, Chain
  <2> QED BY <1>1, <1>4, <2>1, <2>2 DEF Chain
<1>7. Rising(m)'
  <2>1. CASE k > n
    BY <1>1, <1>4, <2>1 DEF Queued, Rising
  <2>2. CASE k <= n
    <3>1. m = k /\ m <= n
      BY <1>1, <2>2
    <3>2. Rising(k)
      BY DEF Queued
    <3>3. /\ \A i \in 1..m : IsWord(i)' /\ (IsWord(i)' <=> IsWord(i)) /\ (High(i)' <=> High(i))
          /\ toDrive'[m] = toDrive[m]
      BY <1>1, <1>2, <2>2, <3>1, <3>2 DEF Rising
    <3>4. SetPoint \notin drive'.word \/ \E i \in 1..(m - 1) : ~High(i)'
      BY <1>1, <2>2, <3>1, <3>2, <3>3 DEF Rising
    <3>5. ordered' = Append(taken', Move(IF Relative \in toDrive'[m].word THEN "relative" ELSE "absolute", drive'.object))
      BY <1>1, <2>2, <3>1, <3>2, <3>3 DEF Rising
    <3>6. High(m)' /\ Halt \notin toDrive'[m].word /\ \A i \in DOMAIN toHost' : toHost'[i].kind = "status"
      BY <1>1, <2>2, <3>1, <3>2, <3>3 DEF Rising
    <3> QED BY <1>1, <3>1, <3>3, <3>4, <3>5, <3>6 DEF Rising
  <2> QED BY <1>1, <2>1, <2>2
<1> QED BY <1>1, <1>4, <1>5, <1>6, <1>7 DEF Queued

\* A rise goes to the end of a queue that has none.
LEMMA RiseAppended ==
  ASSUME MovesTyped, NEW k \in 1..(Len(toDrive) + 1), Queued(k), k > Len(toDrive), Lowered(k),
         NEW w \in SUBSET MoveBits, SetPoint \in w, Halt \notin w,
         toDrive' = Append(toDrive, Word(w)), UNCHANGED <<drive, toHost, taken>>,
         ordered' = Append(ordered, Move(IF Relative \in w THEN "relative" ELSE "absolute", drive.object)),
         \A i \in DOMAIN toDrive : IsWord(i), \A i \in DOMAIN toHost : toHost[i].kind = "status"
  PROVE  /\ k \in 1..(Len(toDrive') + 1) /\ Queued(k)' /\ k <= Len(toDrive') /\ ~Lowered(k)'
<1> PICK n \in Nat : n = Len(toDrive)
  BY DEF MovesTyped
<1>1. /\ k = n + 1 /\ Len(toDrive') = n + 1 /\ DOMAIN toDrive = 1..n /\ DOMAIN toDrive' = 1..(n + 1)
      /\ \A i \in 1..n : toDrive'[i] = toDrive[i]
      /\ toDrive'[k].kind = "word" /\ toDrive'[k].word = w
  BY DEF MovesTyped, Word
<1>2. \A i \in 1..n : (IsWord(i)' <=> IsWord(i)) /\ (High(i)' <=> High(i)) /\ IsWord(i)
  BY <1>1 DEF IsWord, High
<1>3. IsWord(k)' /\ High(k)'
  BY <1>1 DEF IsWord, High
<1>4. ~Lowered(k)'
  BY <1>1 DEF Lowered
<1>5. Chain(k)'
  BY <1>1, <1>2 DEF Chain, Queued
<1>6. Rising(k)'
  <2>1. ordered = taken
    BY <1>1 DEF Queued, Rising
  <2>2. SetPoint \notin drive.word \/ \E i \in 1..(k - 1) : ~High(i)'
    BY <1>1, <1>2 DEF Lowered
  <2>3. \A i \in 1..k : IsWord(i)'
    BY <1>1, <1>2, <1>3
  <2> QED BY <1>1, <1>3, <2>1, <2>2, <2>3 DEF Rising
<1> QED BY <1>1, <1>4, <1>5, <1>6 DEF Queued

\* The drive takes a word: a move if and only if that is the rise.
LEMMA WordLeaves ==
  ASSUME MovesTyped, NEW k \in 1..(Len(toDrive) + 1), Queued(k), toDrive # <<>>, IsWord(1),
         toDrive' = Tail(toDrive), drive'.word = toDrive[1].word, drive'.object = drive.object,
         UNCHANGED ordered,
         taken' = IF Takes(toDrive[1].word)
                  THEN Append(taken, Move(IF Relative \in toDrive[1].word THEN "relative" ELSE "absolute", drive.object))
                  ELSE taken,
         (\A i \in DOMAIN toHost : toHost[i].kind = "status") => \A i \in DOMAIN toHost' : toHost'[i].kind = "status",
         NEW m, m = IF k = 1 THEN Len(toDrive) ELSE k - 1
  PROVE  /\ m \in 1..(Len(toDrive') + 1) /\ Queued(m)' /\ (m > Len(toDrive') <=> k > Len(toDrive) \/ k = 1)
         /\ Lowered(m)' <=> Lowered(k)
         /\ k = 1 => Takes(toDrive[1].word) /\ \A i \in DOMAIN toHost : toHost[i].kind = "status"
<1> PICK n \in Nat : n = Len(toDrive) /\ n # 0
  BY DEF MovesTyped
<1>1. /\ Len(toDrive') = n - 1 /\ DOMAIN toDrive = 1..n /\ DOMAIN toDrive' = 1..(n - 1)
      /\ \A i \in 1..(n - 1) : toDrive'[i] = toDrive[i + 1]
  BY DEF MovesTyped
<1>2. \A i \in 1..(n - 1) : (IsWord(i)' <=> IsWord(i + 1)) /\ (High(i)' <=> High(i + 1))
  BY <1>1 DEF IsWord, High
<1>3. k \in 1..(n + 1) /\ Chain(k) /\ Rising(k) /\ (SetPoint \in drive'.word <=> High(1))
  BY DEF Queued, High
<1>4. CASE k = 1
  <2>1. Takes(toDrive[1].word)
    BY <1>3, <1>4 DEF Rising, Takes, High
  <2>2. m = n /\ m > n - 1 /\ m \in 1..((n - 1) + 1)
    BY <1>4
  <2>3. ordered' = taken' /\ \A i \in DOMAIN toHost : toHost[i].kind = "status"
    BY <1>3, <1>4, <2>1 DEF Rising
  <2>4. High(1)
    BY <1>3, <1>4 DEF Rising
  <2>5. Lowered(m)' <=> Lowered(k)
    <3>1. Lowered(m)' <=> \E i \in 1..(n - 1) : IsWord(i)' /\ ~High(i)'
      BY <1>1, <1>3, <2>2, <2>4 DEF Lowered
    <3>2. Lowered(k) <=> \E i \in 1..n : i > 1 /\ IsWord(i) /\ ~High(i)
      BY <1>1, <1>4 DEF Lowered
    <3>3. \A i \in 1..n : i > 1 => i - 1 \in 1..(n - 1) /\ (i - 1) + 1 = i
      OBVIOUS
    <3>4. \A i \in 1..(n - 1) : i + 1 \in 1..n /\ i + 1 > 1
      OBVIOUS
    <3> QED BY <1>2, <3>1, <3>2, <3>3, <3>4
  <2>6. Chain(m)'
    <3>1. ASSUME NEW i \in 1..(n - 1), NEW j \in 1..(n - 1), i < j, IsWord(i)', IsWord(j)', High(j)' PROVE High(i)'
      BY <1>1, <1>2, <1>3, <1>4, <3>1, SMTT(40) DEF Chain
    <3> QED BY <1>1, <1>3, <2>2, <2>4, <3>1 DEF Chain
  <2>7. Rising(m)'
    BY <1>1, <2>2, <2>3 DEF Rising
  <2> QED BY <1>1, <1>4, <2>1, <2>2, <2>3, <2>5, <2>6, <2>7 DEF Queued
<1>5. CASE k # 1
  <2>1. m = k - 1 /\ m \in 1..((n - 1) + 1) /\ (m > n - 1 <=> k > n)
    BY <1>3, <1>5
  <2>2. High(1) => SetPoint \in drive.word
    BY <1>1, <1>3, <1>5 DEF Chain
  <2>3. ~Takes(toDrive[1].word) /\ taken' = taken
    BY <2>2 DEF Takes, High
  <2>4. Lowered(m)' <=> Lowered(k)
    <3>1. Lowered(m)' <=> \/ k > n /\ ~High(1)
                          \/ \E i \in 1..(n - 1) : (i + 1 > k \/ k > n) /\ IsWord(i + 1) /\ ~High(i + 1)
      <4>1. Lowered(m)' <=> \/ m > n - 1 /\ SetPoint \notin drive'.word
                            \/ \E i \in 1..(n - 1) : (i > m \/ m > n - 1) /\ IsWord(i)' /\ ~High(i)'
        BY <1>1 DEF Lowered
      <4>2. \A i \in 1..(n - 1) : i > m <=> i + 1 > k
        BY <1>3, <2>1
      <4> QED BY <1>2, <1>3, <2>1, <4>1, <4>2
    <3>2. Lowered(k) <=> \/ k > n /\ SetPoint \notin drive.word
                         \/ \E i \in 1..n : (i > k \/ k > n) /\ IsWord(i) /\ ~High(i)
      BY <1>1 DEF Lowered
    <3>3. \A i \in 1..n : i # 1 => i - 1 \in 1..(n - 1) /\ (i - 1) + 1 = i
      OBVIOUS
    <3>4. \A i \in 1..(n - 1) : i + 1 \in 1..n
      OBVIOUS
    <3>5. ~(1 > k) /\ 1 \in 1..n
      OBVIOUS
    <3> QED BY <2>2, <3>1, <3>2, <3>3, <3>4, <3>5
  <2>5. Chain(m)'
    <3>1. ASSUME NEW i \in 1..(n - 1), NEW j \in 1..(n - 1), i < j, j < m \/ m <= i, IsWord(i)', IsWord(j)', High(j)'
          PROVE  High(i)'
      <4>1. i + 1 \in 1..n /\ j + 1 \in 1..n /\ i + 1 < j + 1 /\ (j + 1 < k \/ k <= i + 1)
        BY <1>3, <2>1, <3>1
      <4> QED BY <1>1, <1>2, <1>3, <3>1, <4>1 DEF Chain
    <3>2. ASSUME NEW j \in 1..(n - 1), j < m, IsWord(j)', High(j)' PROVE SetPoint \in drive'.word
      <4>1. 1 \in 1..n /\ j + 1 \in 1..n /\ 1 < j + 1 /\ j + 1 < k
        BY <1>3, <2>1, <3>2
      <4>2. High(1)
        BY <1>1, <1>2, <1>3, <3>2, <4>1 DEF Chain
      <4> QED BY <1>3, <4>2
    <3> QED BY <1>1, <2>1, <3>1, <3>2 DEF Chain
  <2>6. Rising(m)'
    <3>1. CASE k > n
      BY <1>1, <1>3, <2>1, <2>3, <3>1 DEF Rising
    <3>2. CASE k <= n
      <4>1. m \in 1..(n - 1) /\ m + 1 = k /\ toDrive'[m] = toDrive[k] /\ ~(m > n - 1)
        BY <1>1, <1>3, <1>5, <2>1, <3>2
      <4>2. \A i \in 1..m : IsWord(i)'
        <5> SUFFICES ASSUME NEW i \in 1..m PROVE IsWord(i)'
          OBVIOUS
        <5>1. i + 1 \in 1..k /\ i \in 1..(n - 1)
          BY <4>1
        <5> QED BY <1>2, <1>3, <3>2, <5>1 DEF Rising
      <4>3. High(m)' /\ Halt \notin toDrive'[m].word
        BY <1>2, <1>3, <3>2, <4>1 DEF Rising
      <4>4. ordered' = Append(taken', Move(IF Relative \in toDrive'[m].word THEN "relative" ELSE "absolute", drive'.object))
        BY <1>3, <2>3, <3>2, <4>1 DEF Rising
      <4>5. SetPoint \notin drive'.word \/ \E i \in 1..(m - 1) : ~High(i)'
        <5>1. SetPoint \notin drive.word \/ \E i \in 1..(k - 1) : ~High(i)
          BY <1>3, <3>2 DEF Rising
        <5>2. CASE ~High(1)
          BY <1>3, <5>2
        <5>3. CASE High(1)
          <6>1. PICK i \in 1..(k - 1) : ~High(i)
            BY <2>2, <5>1, <5>3
          <6>2. i - 1 \in 1..(m - 1) /\ i - 1 \in 1..(n - 1) /\ (i - 1) + 1 = i
            BY <4>1, <5>3, <6>1
          <6> QED BY <1>2, <6>1, <6>2
        <5> QED BY <5>2, <5>3
      <4>6. \A i \in DOMAIN toHost' : toHost'[i].kind = "status"
        BY <1>3, <3>2 DEF Rising
      <4> QED BY <1>1, <4>1, <4>2, <4>3, <4>4, <4>5, <4>6 DEF Rising
    <3> QED BY <1>3, <3>1, <3>2
  <2> QED BY <1>1, <1>5, <2>1, <2>4, <2>5, <2>6 DEF Queued
<1> QED BY <1>4, <1>5

\* The drive takes a transfer.
LEMMA SdoLeaves ==
  ASSUME MovesTyped, NEW k \in 1..(Len(toDrive) + 1), Queued(k), toDrive # <<>>, ~IsWord(1),
         toDrive' = Tail(toDrive), drive'.word = drive.word, UNCHANGED <<ordered, taken>>,
         NEW m, m = k - 1
  PROVE  /\ m \in 1..(Len(toDrive') + 1) /\ Queued(m)' /\ m > Len(toDrive') /\ k > Len(toDrive)
         /\ Lowered(m)' <=> Lowered(k)
<1> PICK n \in Nat : n = Len(toDrive) /\ n # 0
  BY DEF MovesTyped
<1>1. /\ Len(toDrive') = n - 1 /\ DOMAIN toDrive = 1..n /\ DOMAIN toDrive' = 1..(n - 1)
      /\ \A i \in 1..(n - 1) : toDrive'[i] = toDrive[i + 1]
  BY DEF MovesTyped
<1>2. \A i \in 1..(n - 1) : (IsWord(i)' <=> IsWord(i + 1)) /\ (High(i)' <=> High(i + 1))
  BY <1>1 DEF IsWord, High
<1>3. k = n + 1 /\ m = n
  BY DEF Queued, Rising
<1>4. Lowered(m)' <=> Lowered(k)
  <2>1. Lowered(m)' <=> SetPoint \notin drive.word \/ \E i \in 1..(n - 1) : IsWord(i + 1) /\ ~High(i + 1)
    <3>1. Lowered(m)' <=> \/ m > n - 1 /\ SetPoint \notin drive'.word
                          \/ \E i \in 1..(n - 1) : (i > m \/ m > n - 1) /\ IsWord(i)' /\ ~High(i)'
      BY <1>1 DEF Lowered
    <3>2. m > n - 1
      BY <1>3
    <3> QED BY <1>2, <3>1, <3>2
  <2>2. Lowered(k) <=> SetPoint \notin drive.word \/ \E i \in 1..n : IsWord(i) /\ ~High(i)
    BY <1>1, <1>3 DEF Lowered
  <2>3. \A i \in 1..n : i # 1 => i - 1 \in 1..(n - 1) /\ (i - 1) + 1 = i
    OBVIOUS
  <2>4. \A i \in 1..(n - 1) : i + 1 \in 1..n
    OBVIOUS
  <2> QED BY <2>1, <2>2, <2>3, <2>4
<1>5. Chain(m)'
  <2>1. ASSUME NEW i \in 1..(n - 1), NEW j \in 1..(n - 1), i < j, IsWord(i)', IsWord(j)', High(j)' PROVE High(i)'
    <3>1. i + 1 \in 1..n /\ j + 1 \in 1..n /\ i + 1 < j + 1 /\ j + 1 < k
      BY <1>3, <2>1
    <3> QED BY <1>1, <1>2, <2>1, <3>1 DEF Queued, Chain
  <2>2. ASSUME NEW j \in 1..(n - 1), IsWord(j)', High(j)' PROVE SetPoint \in drive.word
    <3>1. j + 1 \in 1..n /\ j + 1 < k
      BY <1>3, <2>2
    <3> QED BY <1>1, <1>2, <2>2, <3>1 DEF Queued, Chain
  <2> QED BY <1>1, <1>3, <2>1, <2>2 DEF Chain
<1>6. Rising(m)'
  BY <1>1, <1>3 DEF Queued, Rising
<1> QED BY <1>1, <1>3, <1>4, <1>5, <1>6 DEF Queued

\* The queue stays.
LEMMA QueueStays ==
  ASSUME MovesTyped, NEW k \in 1..(Len(toDrive) + 1), Queued(k), UNCHANGED <<toDrive, ordered, taken>>,
         drive'.word = drive.word, drive'.object = drive.object,
         (\A i \in DOMAIN toHost : toHost[i].kind = "status") => \A i \in DOMAIN toHost' : toHost'[i].kind = "status"
  PROVE  Queued(k)' /\ (Lowered(k)' <=> Lowered(k))
<1>1. \A i \in DOMAIN toDrive : (IsWord(i)' <=> IsWord(i)) /\ (High(i)' <=> High(i))
  BY DEF IsWord, High
<1>2. Lowered(k)' <=> Lowered(k)
  BY <1>1 DEF Lowered
<1>3. Chain(k)'
  BY <1>1 DEF Queued, Chain
<1>4. Rising(k)'
  <2>1. DOMAIN toDrive = 1..Len(toDrive)
    BY DEF MovesTyped
  <2>2. CASE k > Len(toDrive)
    BY <2>2 DEF Queued, Rising
  <2>3. CASE k <= Len(toDrive)
    <3>1. \A i \in 1..k : i \in DOMAIN toDrive
      BY <2>1, <2>3
    <3> QED BY <1>1, <2>3, <3>1 DEF Queued, Rising
  <2> QED BY <2>1, <2>2, <2>3 DEF MovesTyped
<1> QED BY <1>2, <1>3, <1>4 DEF Queued

-----------------------------------------------------------------------------
\* The steps of the drive: nobody else has done anything.
LEMMA HostStays ==
  ASSUME OneCaller, MovesTyped, NEW k, NEW m, Tame(k), k > Len(toDrive) => m > Len(toDrive'), Lowered(m)' <=> Lowered(k),
         UNCHANGED <<controlword, mover, reader, clashed, halts>>,
         drive'.object = drive.object \/ \A c \in Callers : mover[c].at \notin {"read", "send"}
  PROVE  Asks(m)' /\ Reads(m)' /\ Stored(m)'
<1>1. Asks(m)'
  BY DEF Tame, Asks, Moving, Changing
<1>2. Reads(m)'
  BY DEF Tame, Reads, Changing
<1>3. Stored(m)'
  BY DEF Tame, Stored
<1> QED BY <1>1, <1>2, <1>3

\* What comes stays what comes as more is told behind it.
LEMMA AckStays ==
  ASSUME MovesTyped, AckComes, reader' = reader, NEW f, toHost' = toHost \/ toHost' = Append(toHost, f)
  PROVE  AckComes'
<1>1. CASE \E i \in DOMAIN toHost : /\ toHost[i].kind = "status" /\ Acknowledge \in toHost[i].status
                                    /\ \A j \in 1..(i - 1) : toHost[j].kind = "status"
  <2>1. PICK i \in DOMAIN toHost : /\ toHost[i].kind = "status" /\ Acknowledge \in toHost[i].status
                                   /\ \A j \in 1..(i - 1) : toHost[j].kind = "status"
    BY <1>1
  <2>2. \A j \in 1..i : j \in DOMAIN toHost /\ j \in DOMAIN toHost' /\ toHost'[j] = toHost[j]
    BY SMTT(40) DEF MovesTyped
  <2>3. i \in 1..i /\ \A j \in 1..(i - 1) : j \in 1..i
    BY DEF MovesTyped
  <2> QED BY <2>1, <2>2, <2>3 DEF AckComes
<1> QED BY <1>1 DEF AckComes

\* More is told of its status.
LEMMA StatusTold ==
  ASSUME MovesTyped, toHost' = toHost \/ toHost' = Append(toHost, Status(drive'.status))
  PROVE  /\ (\A i \in DOMAIN toHost : toHost[i].kind = "status") => \A i \in DOMAIN toHost' : toHost'[i].kind = "status"
         /\ \A i \in DOMAIN toHost' : toHost'[i].kind # "status" => i \in DOMAIN toHost /\ toHost'[i] = toHost[i]
<1> PICK n \in Nat : n = Len(toHost)
  BY DEF MovesTyped
<1>1. CASE toHost' = Append(toHost, Status(drive'.status))
  <2>1. /\ DOMAIN toHost' = 1..(n + 1) /\ toHost'[n + 1] = Status(drive'.status)
        /\ DOMAIN toHost = 1..n /\ \A i \in 1..n : toHost'[i] = toHost[i]
    BY <1>1 DEF MovesTyped
  <2>2. toHost'[n + 1].kind = "status"
    BY <2>1 DEF Status
  <2> QED BY <2>1, <2>2
<1> QED BY <1>1

LEMMA TransfersStay ==
  ASSUME MovesTyped, Transfers, UNCHANGED mover, drive'.object = drive.object,
         toDrive' = toDrive \/ (toDrive # <<>> /\ toDrive' = Tail(toDrive)),
         toHost' = toHost \/ toHost' = Append(toHost, Status(drive'.status))
  PROVE  Transfers'
<1>1. \A i \in DOMAIN toDrive' : \E j \in DOMAIN toDrive : toDrive'[i] = toDrive[j] /\ (j = i \/ (toDrive' # toDrive /\ j = i + 1))
  BY DEF MovesTyped
<1>2. ASSUME NEW i \in DOMAIN toDrive', ~IsWord(i)'
      PROVE  /\ mover[toDrive'[i].client].at = "sdo" /\ mover[toDrive'[i].client].ref = toDrive'[i].ref
             /\ \A j \in DOMAIN toDrive' : ~IsWord(j)' => i = j
             /\ \A j \in DOMAIN toHost' : toHost'[j].kind = "status"
  <2>1. PICK a \in DOMAIN toDrive : toDrive'[i] = toDrive[a] /\ (a = i \/ (toDrive' # toDrive /\ a = i + 1))
    BY <1>1
  <2>2. ~IsWord(a)
    BY <1>2, <2>1 DEF IsWord
  <2>3. ASSUME NEW j \in DOMAIN toDrive', ~IsWord(j)' PROVE i = j
    <3>1. CASE toDrive' = toDrive
      BY <1>2, <2>3, <3>1 DEF Transfers, IsWord
    <3>2. CASE toDrive # <<>> /\ toDrive' = Tail(toDrive)
      <4>1. /\ i + 1 \in DOMAIN toDrive /\ j + 1 \in DOMAIN toDrive /\ i \in Nat /\ j \in Nat
            /\ toDrive'[i] = toDrive[i + 1] /\ toDrive'[j] = toDrive[j + 1]
        BY <3>2 DEF MovesTyped
      <4>2. ~IsWord(i + 1) /\ ~IsWord(j + 1)
        BY <1>2, <2>3, <4>1 DEF IsWord
      <4>3. i + 1 = j + 1
        BY <4>1, <4>2 DEF Transfers
      <4> QED BY <4>1, <4>3
    <3> QED BY <3>1, <3>2
  <2>4. \A j \in DOMAIN toHost : toHost[j].kind = "status"
    BY <2>2 DEF Transfers
  <2>5. \A j \in DOMAIN toHost' : toHost'[j].kind = "status"
    BY <2>4, StatusTold
  <2> QED BY <2>1, <2>2, <2>3, <2>5 DEF Transfers
<1>3. \A i \in DOMAIN toHost' : toHost'[i].kind = "reply" => i \in DOMAIN toHost /\ toHost'[i] = toHost[i]
  BY StatusTold
<1> QED BY <1>2, <1>3 DEF Transfers

LEMMA TakeWordKeeps ==
  ASSUME OneCaller, MovesTyped, NEW k \in 1..(Len(toDrive) + 1), Tame(k), TakeWord
  PROVE  \E m \in 1..(Len(toDrive') + 1) : Tame(m)'
<1> PICK m : m = IF k = 1 THEN Len(toDrive) ELSE k - 1
  OBVIOUS
<1>1. /\ toDrive # <<>> /\ IsWord(1) /\ toDrive' = Tail(toDrive)
      /\ drive'.word = toDrive[1].word /\ drive'.object = drive.object
      /\ Acknowledge \in drive'.status => SetPoint \in drive'.word
      /\ toHost' = toHost \/ toHost' = Append(toHost, Status(drive'.status))
      /\ Takes(toDrive[1].word) /\ Acknowledge \notin drive.status =>
           Acknowledge \in drive'.status /\ toHost' = Append(toHost, Status(drive'.status))
      /\ UNCHANGED <<controlword, mover, reader, ordered, clashed, halts>>
  BY WordTaken
<1>2. taken' = IF Takes(toDrive[1].word)
               THEN Append(taken, Move(IF Relative \in toDrive[1].word THEN "relative" ELSE "absolute", drive.object))
               ELSE taken
  BY WordTaken
<1>3. (\A i \in DOMAIN toHost : toHost[i].kind = "status") => \A i \in DOMAIN toHost' : toHost'[i].kind = "status"
  BY <1>1, StatusTold
<1>4. /\ m \in 1..(Len(toDrive') + 1) /\ Queued(m)' /\ (m > Len(toDrive') <=> k > Len(toDrive) \/ k = 1)
      /\ Lowered(m)' <=> Lowered(k)
      /\ k = 1 => Takes(toDrive[1].word) /\ \A i \in DOMAIN toHost : toHost[i].kind = "status"
  <2>1. Queued(k)
    BY DEF Tame
  <2> QED BY <1>1, <1>2, <1>3, <2>1, WordLeaves
<1>5. Asks(m)' /\ Reads(m)' /\ Stored(m)'
  BY <1>1, <1>4, HostStays
<1>6. Transfers'
  BY <1>1, TransfersStay DEF Tame
<1>7. ASSUME m > Len(toDrive'), ~Lowered(m)' PROVE AckComes'
  <2>1. CASE k # 1
    <3>1. AckComes
      BY <1>4, <1>7, <2>1 DEF Tame
    <3> QED BY <1>1, <3>1, AckStays
  <2>2. CASE k = 1
    <3>1. Acknowledge \notin drive.status
      BY <1>4, <2>2 DEF Takes, Tame
    <3>2. Acknowledge \in drive'.status /\ toHost' = Append(toHost, Status(drive'.status))
      BY <1>1, <1>4, <2>2, <3>1
    <3>3. \A j \in DOMAIN toHost' : toHost'[j].kind = "status"
      BY <1>3, <1>4, <2>2
    <3> PICK n \in Nat : n = Len(toHost)
      BY DEF MovesTyped
    <3>4. /\ n + 1 \in DOMAIN toHost' /\ toHost'[n + 1] = Status(drive'.status)
          /\ \A j \in 1..((n + 1) - 1) : j \in DOMAIN toHost'
      BY <3>2 DEF MovesTyped
    <3>5. toHost'[n + 1].kind = "status" /\ Acknowledge \in toHost'[n + 1].status
      BY <3>2, <3>4 DEF Status
    <3> QED BY <3>3, <3>4, <3>5 DEF AckComes
  <2> QED BY <2>1, <2>2
<1> QED BY <1>1, <1>4, <1>5, <1>6, <1>7 DEF Tame

LEMMA TakeSdoKeeps ==
  ASSUME OneCaller, MovesTyped, NEW k \in 1..(Len(toDrive) + 1), Tame(k), TakeSdo
  PROVE  \E m \in 1..(Len(toDrive') + 1) : Tame(m)'
<1> PICK m : m = k - 1
  OBVIOUS
<1> PICK c \in Callers : c = toDrive[1].client
  BY SdoTaken
<1>1. /\ toDrive # <<>> /\ ~IsWord(1) /\ toDrive' = Tail(toDrive) /\ drive'.word = drive.word /\ drive'.status = drive.status
      /\ UNCHANGED <<controlword, mover, reader, ordered, taken, clashed, halts>>
  BY SdoTaken DEF movesGhosts
<1>2. PICK ok \in BOOLEAN : /\ ok => drive'.object = toDrive[1].ref
                            /\ toHost' = Append(toHost, [kind |-> "reply", client |-> c, ok |-> ok])
  BY SdoTaken
<1>3. /\ m \in 1..(Len(toDrive') + 1) /\ Queued(m)' /\ m > Len(toDrive') /\ k > Len(toDrive)
      /\ Lowered(m)' <=> Lowered(k)
  BY <1>1, SdoLeaves DEF Tame
<1>4. /\ mover[c].at = "sdo" /\ mover[c].ref = toDrive[1].ref
      /\ \A j \in DOMAIN toDrive : ~IsWord(j) => j = 1
      /\ \A j \in DOMAIN toHost : toHost[j].kind = "status"
  <2>1. 1 \in DOMAIN toDrive
    BY <1>1 DEF MovesTyped
  <2> QED BY <1>1, <2>1 DEF Tame, Transfers
<1>5. Asks(m)' /\ Reads(m)' /\ Stored(m)'
  <2>1. \A d \in Callers : mover[d].at \notin {"read", "send"}
    BY <1>4 DEF OneCaller
  <2> QED BY <1>1, <1>3, <2>1, HostStays
<1>6. Transfers'
  <2>1. \A i \in DOMAIN toDrive' : i + 1 \in DOMAIN toDrive /\ toDrive'[i] = toDrive[i + 1] /\ i + 1 # 1
    BY <1>1 DEF MovesTyped
  <2>2. \A i \in DOMAIN toDrive' : IsWord(i)'
    BY <1>4, <2>1 DEF IsWord
  <2> PICK n \in Nat : n = Len(toHost)
    BY DEF MovesTyped
  <2>3. /\ DOMAIN toHost' = 1..(n + 1) /\ toHost'[n + 1] = [kind |-> "reply", client |-> c, ok |-> ok]
        /\ \A i \in 1..n : toHost'[i] = toHost[i] /\ i \in DOMAIN toHost
    BY <1>2 DEF MovesTyped
  <2>4. /\ toHost'[n + 1].client = c /\ (toHost'[n + 1].ok => ok)
        /\ \A i \in 1..(n + 1) : toHost'[i].kind = "reply" => i = n + 1
    BY <1>4, <2>3
  <2> QED BY <1>1, <1>2, <1>4, <2>2, <2>3, <2>4 DEF Transfers
<1>7. m > Len(toDrive') /\ ~Lowered(m)' => AckComes'
  <2>1. ~Lowered(k) => AckComes
    BY <1>3 DEF Tame
  <2> QED BY <1>1, <1>2, <1>3, <2>1, AckStays
<1> QED BY <1>1, <1>3, <1>5, <1>6, <1>7 DEF Tame

LEMMA DriveTellsKeeps ==
  ASSUME OneCaller, MovesTyped, NEW k \in 1..(Len(toDrive) + 1), Tame(k), Rest \/ Retell
  PROVE  \E m \in 1..(Len(toDrive') + 1) : Tame(m)'
<1>1. /\ drive'.word = drive.word /\ drive'.object = drive.object
      /\ Acknowledge \in drive'.status <=> Acknowledge \in drive.status
      /\ toHost' = toHost \/ toHost' = Append(toHost, Status(drive'.status))
      /\ UNCHANGED <<controlword, mover, reader, toDrive, ordered, taken, clashed, halts>>
  BY DriveTells DEF movesGhosts
<1>2. Queued(k)' /\ (Lowered(k)' <=> Lowered(k))
  BY <1>1, StatusTold, QueueStays DEF Tame
<1>3. Asks(k)' /\ Reads(k)' /\ Stored(k)'
  BY <1>1, <1>2, HostStays
<1>4. Transfers'
  BY <1>1, TransfersStay DEF Tame
<1>5. k > Len(toDrive') /\ ~Lowered(k)' => AckComes'
  BY <1>1, <1>2, AckStays DEF Tame
<1> QED BY <1>1, <1>2, <1>3, <1>4, <1>5 DEF Tame

-----------------------------------------------------------------------------
\* The steps of the reader: calls and drive are as they were.
LEMMA ReaderHolds ==
  ASSUME MovesTyped, NEW k \in 1..(Len(toDrive) + 1), Tame(k),
         UNCHANGED <<controlword, mover, toDrive, drive, ordered, taken, halts>>,
         toHost' = toHost \/ (toHost # <<>> /\ toHost' = Tail(toHost) /\ Head(toHost).kind = "status")
  PROVE  Queued(k)' /\ (Lowered(k)' <=> Lowered(k)) /\ Transfers'
<1>1. \A i \in DOMAIN toHost' : \E j \in DOMAIN toHost : toHost'[i] = toHost[j] /\ (j = i \/ (toHost' # toHost /\ j = i + 1))
  BY DEF MovesTyped
<1>2. (\A i \in DOMAIN toHost : toHost[i].kind = "status") => \A i \in DOMAIN toHost' : toHost'[i].kind = "status"
  BY <1>1
<1>3. Queued(k)' /\ (Lowered(k)' <=> Lowered(k))
  BY <1>2, QueueStays DEF Tame
<1>4. \A i, j \in DOMAIN toHost' : toHost'[i].kind = "reply" /\ toHost'[j].kind = "reply" => i = j
  <2> SUFFICES ASSUME NEW i \in DOMAIN toHost', NEW j \in DOMAIN toHost', toHost'[i].kind = "reply", toHost'[j].kind = "reply"
               PROVE  i = j
    OBVIOUS
  <2>1. CASE toHost' = toHost
    BY <2>1 DEF Tame, Transfers
  <2>2. CASE toHost # <<>> /\ toHost' = Tail(toHost)
    <3>1. /\ i + 1 \in DOMAIN toHost /\ j + 1 \in DOMAIN toHost /\ i \in Nat /\ j \in Nat
          /\ toHost'[i] = toHost[i + 1] /\ toHost'[j] = toHost[j + 1]
      BY <2>2 DEF MovesTyped
    <3>2. i + 1 = j + 1
      BY <3>1 DEF Tame, Transfers
    <3> QED BY <3>1, <3>2
  <2> QED BY <2>1, <2>2
<1>5. Transfers'
  <2>1. \A i \in DOMAIN toDrive' : (IsWord(i)' <=> IsWord(i))
    BY DEF IsWord
  <2> QED BY <1>1, <1>2, <1>4, <2>1 DEF Tame, Transfers
<1> QED BY <1>3, <1>5

LEMMA ReadStatusKeeps ==
  ASSUME OneCaller, MovesTyped, NEW k \in 1..(Len(toDrive) + 1), Tame(k), ReadStatus
  PROVE  \E m \in 1..(Len(toDrive') + 1) : Tame(m)'
<1>1. /\ reader.at = "idle" /\ toHost # <<>> /\ Head(toHost).kind = "status" /\ toHost' = Tail(toHost)
      /\ reader'.at = "reached" /\ reader'.status = Head(toHost).status
      /\ UNCHANGED <<controlword, mover, toDrive, drive, ordered, taken, clashed, halts>>
  BY DEF ReadStatus, Waiting, movesGhosts
<1>2. Queued(k)' /\ (Lowered(k)' <=> Lowered(k)) /\ Transfers'
  BY <1>1, ReaderHolds
<1>3. Asks(k)'
  BY <1>1, <1>2 DEF Tame, Asks, Moving, Changing
<1>4. Reads(k)'
  BY <1>1 DEF Reads, Changing
<1>5. Stored(k)'
  BY <1>1, <1>2 DEF Tame, Stored
<1>6. k > Len(toDrive') /\ ~Lowered(k)' => AckComes'
  <2> SUFFICES ASSUME k > Len(toDrive), ~Lowered(k) PROVE AckComes'
    BY <1>1, <1>2
  <2>1. AckComes
    BY DEF Tame
  <2>2. PICK i \in DOMAIN toHost : /\ toHost[i].kind = "status" /\ Acknowledge \in toHost[i].status
                                   /\ \A j \in 1..(i - 1) : toHost[j].kind = "status"
    BY <1>1, <2>1 DEF AckComes
  <2>3. Head(toHost) = toHost[1]
    BY <1>1 DEF MovesTyped
  <2>4. CASE i = 1
    BY <1>1, <2>2, <2>3, <2>4 DEF AckComes
  <2>5. CASE i # 1
    <3> PICK a : a = i - 1
      OBVIOUS
    <3>1. /\ i \in Nat /\ a \in DOMAIN toHost' /\ toHost'[a] = toHost[i]
          /\ \A j \in 1..(a - 1) : toHost'[j] = toHost[j + 1] /\ j + 1 \in 1..(i - 1)
      BY <1>1, <2>5 DEF MovesTyped
    <3>2. \A j \in 1..(a - 1) : toHost'[j].kind = "status"
      BY <2>2, <3>1
    <3> QED BY <2>2, <3>1, <3>2 DEF AckComes
  <2> QED BY <2>4, <2>5
<1> QED BY <1>1, <1>2, <1>3, <1>4, <1>5, <1>6 DEF Tame

LEMMA ReadReplyKeeps ==
  ASSUME OneCaller, MovesTyped, NEW k \in 1..(Len(toDrive) + 1), Tame(k), ReadReply
  PROVE  \E m \in 1..(Len(toDrive') + 1) : Tame(m)'
<1>1. /\ reader.at = "idle" /\ toHost # <<>> /\ toHost[1].kind = "reply" /\ toHost' = Tail(toHost)
      /\ Goes(toHost[1].client, IF toHost[1].ok THEN [mover[toHost[1].client] EXCEPT !.at = "read"] ELSE NoMove)
      /\ UNCHANGED <<controlword, reader, toDrive, drive, ordered, taken, clashed, halts>>
  <2>1. Head(toHost) = toHost[1]
    BY DEF MovesTyped, ReadReply
  <2> QED BY <2>1 DEF ReadReply, movesGhosts
<1>2. 1 \in DOMAIN toHost /\ toHost[1] \in ToHost
  BY <1>1 DEF MovesTyped
<1> PICK c \in Callers : c = toHost[1].client
  BY <1>1, <1>2 DEF ToHost
<1>3. /\ mover[c].at = "sdo" /\ (toHost[1].ok => drive.object = mover[c].ref)
      /\ \A j \in DOMAIN toHost : toHost[j].kind = "reply" => j = 1
  BY <1>1, <1>2 DEF Tame, Transfers
<1>4. Moving(c) /\ Halt \notin controlword
  BY <1>3 DEF Tame, Asks
<1>5. mover[c] \in Movers
  BY DEF MovesTyped
<1> DEFINE hand == IF toHost[1].ok THEN [mover[c] EXCEPT !.at = "read"] ELSE NoMove
<1>6. /\ hand \in Movers /\ hand.at \in {"read", "idle"} /\ (hand.at = "read" => toHost[1].ok)
      /\ hand.at = "read" => hand.order = mover[c].order /\ hand.ref = mover[c].ref
  BY <1>5 DEF Movers, NoMove
<1>7. Goes(c, hand)
  BY <1>1
<1> HIDE DEF hand
<1>8. \A d \in Callers : d = c /\ mover'[d] = hand
  BY <1>6, <1>7, CallerGoes
<1>9. \A i \in DOMAIN toHost' : i + 1 \in DOMAIN toHost /\ toHost'[i] = toHost[i + 1] /\ i + 1 # 1
  BY <1>1 DEF MovesTyped
<1>10. \A i \in DOMAIN toHost' : toHost'[i].kind # "reply"
  BY <1>3, <1>9
<1>11. Queued(k)' /\ (Lowered(k)' <=> Lowered(k))
  <2>1. (\A i \in DOMAIN toHost : toHost[i].kind = "status") => \A i \in DOMAIN toHost' : toHost'[i].kind = "status"
    BY <1>1, <1>2
  <2> QED BY <1>1, <2>1, QueueStays DEF Tame
<1>12. k > Len(toDrive) /\ Lowered(k)
  <2>1. k > Len(toDrive)
    BY <1>1, <1>2 DEF Tame, Queued, Rising, MovesTyped
  <2>2. ~AckComes
    <3>1. \A i \in DOMAIN toHost : i # 1 => 1 \in 1..(i - 1)
      BY DEF MovesTyped
    <3> QED BY <1>1, <3>1 DEF AckComes
  <2> QED BY <2>1, <2>2 DEF Tame
<1>13. \A i \in DOMAIN toDrive : IsWord(i)
  BY <1>1, <1>2 DEF Tame, Transfers
<1>14. Transfers'
  BY <1>1, <1>10, <1>13 DEF Transfers, IsWord
<1>15. Asks(k)'
  BY <1>1, <1>3, <1>4, <1>6, <1>8, <1>11, <1>12 DEF Asks, Moving, Changing
<1>16. Reads(k)'
  BY <1>1, <1>11 DEF Tame, Reads, Changing
<1>17. Stored(k)'
  BY <1>1, <1>3, <1>8, <1>11 DEF Tame, Stored
<1> QED BY <1>1, <1>11, <1>12, <1>14, <1>15, <1>16, <1>17 DEF Tame

LEMMA RestsKeeps ==
  ASSUME OneCaller, MovesTyped, NEW k \in 1..(Len(toDrive) + 1), Tame(k), Rests, Good'
  PROVE  \E m \in 1..(Len(toDrive') + 1) : Tame(m)'
<1> DEFINE w == controlword \ {Halt}
<1>1. /\ reader.at = "reached" /\ UNCHANGED <<controlword, mover, toDrive, toHost, drive, ordered, taken, halts>>
      /\ IF Halt \in controlword /\ Reached \in reader.status THEN Clashes ELSE UNCHANGED clashed
      /\ reader' = IF Reached \in reader.status /\ Halt \in controlword
                   THEN [reader EXCEPT !.at = "reached send", !.word = w]
                   ELSE [reader EXCEPT !.at = "acknowledged"]
  BY DEF Rests
<1>2. reader \in Readers /\ w \in SUBSET MoveBits /\ Halt \notin w /\ (SetPoint \in w <=> SetPoint \in controlword)
  BY DEF MovesTyped, Halt, SetPoint
<1> HIDE DEF w
<1>3. Queued(k)' /\ (Lowered(k)' <=> Lowered(k)) /\ Transfers'
  BY <1>1, ReaderHolds
<1>4. CASE Reached \in reader.status /\ Halt \in controlword
  <2>1. reader'.at = "reached send" /\ reader'.status = reader.status /\ reader'.word = w
    BY <1>1, <1>2, <1>4 DEF Readers
  <2>2. halts
    BY <1>4 DEF Tame, Stored
  <2>3. ~clashed' /\ ~clashed /\ \A c \in Callers : ~Changing(mover[c].at)
    BY <1>1, <1>4, <2>2 DEF Good, Clashes
  <2>4. SetPoint \in w => ~Lowered(k)
    BY <1>1, <1>2, <2>3 DEF Tame, Stored, Changing
  <2>5. Asks(k)'
    BY <1>1, <1>3, <2>3 DEF Tame, Asks, Moving, Changing
  <2>6. Reads(k)'
    BY <1>1, <1>2, <1>3, <2>1, <2>2, <2>4 DEF Reads
  <2>7. Stored(k)'
    BY <1>1, <1>3, <2>2, <2>3 DEF Tame, Stored
  <2>8. k > Len(toDrive') /\ ~Lowered(k)' => AckComes'
    BY <1>1, <1>3, <2>1 DEF Tame, AckComes
  <2> QED BY <1>1, <1>3, <2>5, <2>6, <2>7, <2>8 DEF Tame
<1>5. CASE ~(Reached \in reader.status /\ Halt \in controlword)
  <2>1. reader'.at = "acknowledged" /\ reader'.status = reader.status /\ clashed' = clashed
    BY <1>1, <1>2, <1>5 DEF Readers
  <2>2. Asks(k)'
    BY <1>1, <1>3, <2>1 DEF Tame, Asks, Moving, Changing
  <2>3. Reads(k)'
    BY <2>1 DEF Reads, Changing
  <2>4. Stored(k)'
    BY <1>1, <1>3, <2>1 DEF Tame, Stored
  <2>5. k > Len(toDrive') /\ ~Lowered(k)' => AckComes'
    BY <1>1, <1>3, <2>1 DEF Tame, AckComes
  <2> QED BY <1>1, <1>3, <2>2, <2>3, <2>4, <2>5 DEF Tame
<1> QED BY <1>4, <1>5

LEMMA AcknowledgedKeeps ==
  ASSUME OneCaller, MovesTyped, NEW k \in 1..(Len(toDrive) + 1), Tame(k), Acknowledged, Good'
  PROVE  \E m \in 1..(Len(toDrive') + 1) : Tame(m)'
<1> DEFINE w == controlword \ {SetPoint}
<1>1. /\ reader.at = "acknowledged" /\ UNCHANGED <<controlword, mover, toDrive, toHost, drive, ordered, taken, halts>>
      /\ IF Acknowledge \in reader.status
         THEN Clashes /\ reader' = [reader EXCEPT !.at = "acknowledged send", !.word = w]
         ELSE reader' = Waiting /\ UNCHANGED clashed
  BY DEF Acknowledged
<1>2. reader \in Readers /\ w \in SUBSET MoveBits /\ SetPoint \notin w /\ (Halt \in w => Halt \in controlword)
  BY DEF MovesTyped, Halt, SetPoint
<1> HIDE DEF w
<1>3. Queued(k)' /\ (Lowered(k)' <=> Lowered(k)) /\ Transfers'
  BY <1>1, ReaderHolds
<1>4. CASE Acknowledge \in reader.status
  <2>1. reader'.at = "acknowledged send" /\ reader'.word = w
    BY <1>1, <1>2, <1>4 DEF Readers
  <2>2. clashed => clashed'
    BY <1>1, <1>4 DEF Clashes
  <2>3. ~clashed' => \A c \in Callers : ~Changing(mover[c].at)
    BY <1>1, <1>4 DEF Clashes
  <2>4. Asks(k)'
    BY <1>1, <1>3, <2>2, <2>3 DEF Tame, Asks, Moving, Changing
  <2>5. Reads(k)'
    BY <1>1, <1>2, <1>3, <2>1 DEF Reads
  <2>6. Stored(k)'
    BY <1>1, <1>3, <2>2 DEF Tame, Stored
  <2>7. AckComes'
    BY <2>1 DEF AckComes
  <2> QED BY <1>1, <1>3, <2>4, <2>5, <2>6, <2>7 DEF Tame
<1>5. CASE Acknowledge \notin reader.status
  <2>1. reader'.at = "idle" /\ clashed' = clashed
    BY <1>1, <1>5 DEF Waiting
  <2>2. Asks(k)'
    BY <1>1, <1>3, <2>1 DEF Tame, Asks, Moving, Changing
  <2>3. Reads(k)'
    BY <2>1 DEF Reads, Changing
  <2>4. Stored(k)'
    BY <1>1, <1>3, <2>1 DEF Tame, Stored
  <2>5. k > Len(toDrive') /\ ~Lowered(k)' => AckComes'
    BY <1>1, <1>3, <1>5, <2>1 DEF Tame, AckComes
  <2> QED BY <1>1, <1>3, <2>2, <2>3, <2>4, <2>5 DEF Tame
<1> QED BY <1>4, <1>5

\* A word at the end of the queue is no transfer.
LEMMA TransfersBesideWord ==
  ASSUME MovesTyped, Transfers, NEW w \in SUBSET MoveBits, toDrive' = Append(toDrive, Word(w)),
         UNCHANGED <<toHost, drive>>, \A d \in Callers : mover[d].at = "sdo" => mover'[d] = mover[d]
  PROVE  Transfers'
<1> PICK n \in Nat : n = Len(toDrive)
  BY DEF MovesTyped
<1>1. /\ DOMAIN toDrive = 1..n /\ DOMAIN toDrive' = 1..(n + 1) /\ toDrive'[n + 1].kind = "word"
      /\ \A i \in 1..n : toDrive'[i] = toDrive[i]
  BY DEF MovesTyped, Word
<1>2. IsWord(n + 1)' /\ \A i \in 1..n : (IsWord(i)' <=> IsWord(i)) /\ (~IsWord(i) => toDrive[i].client \in Callers)
  BY <1>1, WordsTyped DEF IsWord
<1>3. \A i \in DOMAIN toHost : toHost[i].kind = "reply" => toHost[i].client \in Callers
  BY DEF MovesTyped, ToHost
<1>4. \A i \in 1..(n + 1) : ~IsWord(i)' => i \in 1..n
  BY <1>2
<1>5. ASSUME NEW i \in 1..n, ~IsWord(i)
      PROVE  /\ mover'[toDrive'[i].client].at = "sdo" /\ mover'[toDrive'[i].client].ref = toDrive'[i].ref
             /\ \A j \in 1..(n + 1) : ~IsWord(j)' => i = j
             /\ \A j \in DOMAIN toHost' : toHost'[j].kind = "status"
  BY <1>1, <1>2, <1>4, <1>5 DEF Transfers
<1> QED BY <1>1, <1>2, <1>3, <1>4, <1>5 DEF Transfers

LEMMA ReaderSendsKeeps ==
  ASSUME OneCaller, MovesTyped, NEW k \in 1..(Len(toDrive) + 1), Tame(k), ReaderSends, Good'
  PROVE  \E m \in 1..(Len(toDrive') + 1) : Tame(m)'
<1> PICK m : m = IF k > Len(toDrive) THEN k + 1 ELSE k
  OBVIOUS
<1> DEFINE w == reader.word
           at == IF reader.at = "reached send" THEN "reached keep" ELSE "acknowledged keep"
<1>1. /\ reader.at \in {"reached send", "acknowledged send"} /\ toDrive' = Append(toDrive, Word(w))
      /\ reader' = [reader EXCEPT !.at = at]
      /\ UNCHANGED <<controlword, mover, toHost, drive, ordered, taken, clashed, halts>>
  BY DEF ReaderSends, Good
<1>2. w \in SUBSET MoveBits /\ reader \in Readers
  BY DEF MovesTyped, Readers
<1>3. reader'.at = at /\ reader'.status = reader.status /\ reader'.word = w
  BY <1>1, <1>2 DEF Readers
<1>4. SetPoint \in w => reader.at = "reached send" /\ halts /\ ~Lowered(k)
  BY <1>1 DEF Tame, Reads
<1>5. /\ m \in 1..(Len(toDrive') + 1) /\ Queued(m)' /\ (m > Len(toDrive') <=> k > Len(toDrive))
      /\ Lowered(m)' <=> Lowered(k) \/ SetPoint \notin w
  BY <1>1, <1>2, <1>4, WordAppended DEF Tame
<1>6. Transfers'
  BY <1>1, <1>2, TransfersBesideWord DEF Tame
<1>7. ~clashed => \A c \in Callers : ~Changing(mover[c].at)
  BY <1>1 DEF Tame, Asks, Changing
<1>8. Asks(m)'
  <2>1. \A c \in Callers : mover[c].at = "send" /\ ~Moving(c) => ~Changing(mover[c].at)
    BY <1>1, <1>7 DEF Tame, Asks, Good
  <2> QED BY <1>1, <1>3, <1>5, <1>7, <2>1 DEF Tame, Asks, Moving, Changing
<1>9. Reads(m)'
  <2>1. Halt \in w => Halt \in controlword
    BY <1>1 DEF Tame, Reads, Changing
  <2>2. CASE reader.at = "reached send"
    <3>1. halts /\ reader'.at = "reached keep"
      BY <1>3, <2>2 DEF Tame, Reads
    <3>2. SetPoint \in w => ~Lowered(m)'
      BY <1>4, <1>5
    <3> HIDE DEF w, at
    <3> QED BY <1>1, <1>3, <2>1, <3>1, <3>2 DEF Reads
  <2>3. CASE reader.at = "acknowledged send"
    <3>1. SetPoint \notin w /\ reader'.at = "acknowledged keep"
      BY <1>3, <1>4, <2>3
    <3> HIDE DEF w, at
    <3> QED BY <1>1, <1>3, <2>1, <3>1 DEF Reads
  <2> QED BY <1>1, <2>2, <2>3
<1>10. Stored(m)'
  BY <1>1, <1>3 DEF Tame, Stored
<1>11. m > Len(toDrive') /\ ~Lowered(m)' => AckComes'
  <2> SUFFICES ASSUME m > Len(toDrive'), ~Lowered(m)' PROVE AckComes'
    OBVIOUS
  <2>1. AckComes /\ reader.at = "reached send"
    BY <1>4, <1>5 DEF Tame
  <2> QED BY <1>1, <1>3, <2>1 DEF AckComes
<1> QED BY <1>1, <1>5, <1>6, <1>8, <1>9, <1>10, <1>11 DEF Tame

LEMMA ReaderKeepsKeeps ==
  ASSUME OneCaller, MovesTyped, NEW k \in 1..(Len(toDrive) + 1), Tame(k), ReaderKeeps, Good'
  PROVE  \E m \in 1..(Len(toDrive') + 1) : Tame(m)'
<1>1. /\ reader.at \in {"reached keep", "acknowledged keep"} /\ controlword' = reader.word /\ AfterSend
      /\ UNCHANGED <<mover, toDrive, toHost, drive, ordered, taken, clashed, halts>>
  BY DEF ReaderKeeps, movesGhosts
<1>2. reader \in Readers
  BY DEF MovesTyped
<1>3. /\ reader'.at \in {"acknowledged", "idle"}
      /\ reader.at = "reached keep" => reader'.at = "acknowledged" /\ reader'.status = reader.status
  <2>1. /\ [reader EXCEPT !.at = "acknowledged"].at = "acknowledged"
        /\ [reader EXCEPT !.at = "acknowledged"].status = reader.status
    BY <1>2 DEF Readers
  <2>2. CASE reader.at = "reached keep"
    <3>1. reader' = [reader EXCEPT !.at = "acknowledged"]
      BY <1>1, <2>2 DEF AfterSend
    <3> QED BY <2>1, <3>1
  <2>3. CASE reader.at = "acknowledged keep"
    <3>1. reader' = Waiting
      BY <1>1, <2>3 DEF AfterSend
    <3> QED BY <2>3, <3>1 DEF Waiting
  <2> QED BY <1>1, <2>2, <2>3
<1>4. Queued(k)' /\ (Lowered(k)' <=> Lowered(k))
  BY <1>1, QueueStays DEF Tame
<1>5. Transfers'
  BY <1>1 DEF Tame, Transfers, IsWord
<1>6. /\ Halt \in reader.word => Halt \in controlword
      /\ SetPoint \in reader.word => ~Lowered(k)
  BY <1>1 DEF Tame, Reads, Changing
<1>7. Asks(k)'
  BY <1>1, <1>3, <1>4, <1>6 DEF Tame, Asks, Moving, Changing
<1>8. Reads(k)'
  BY <1>3 DEF Reads, Changing
<1>9. Stored(k)'
  BY <1>1, <1>4, <1>6 DEF Tame, Stored
<1>10. k > Len(toDrive') /\ ~Lowered(k)' => AckComes'
  BY <1>1, <1>3, <1>4 DEF Tame, AckComes
<1> QED BY <1>1, <1>4, <1>5, <1>7, <1>8, <1>9, <1>10 DEF Tame

-----------------------------------------------------------------------------
\* The steps of the caller.
LEMMA BeginMoveKeeps ==
  ASSUME OneCaller, MovesTyped, NEW k \in 1..(Len(toDrive) + 1), Tame(k), NEW c \in Callers,
         NEW order \in MoveOrders, NEW ref \in Targets, MovesFit, BeginMove(c, order, ref)
  PROVE  \E m \in 1..(Len(toDrive') + 1) : Tame(m)'
<1> PICK m : m = IF k > Len(toDrive) THEN k + 1 ELSE k
  OBVIOUS
<1> DEFINE hand == [at |-> "sdo", order |-> order, ref |-> ref, word |-> {}]
<1>1. /\ mover[c] = NoMove /\ order # "stop" /\ Halt \notin controlword
      /\ toDrive' = Append(toDrive, Sdo(c, ref)) /\ Goes(c, hand)
      /\ UNCHANGED <<controlword, reader, toHost, drive, ordered, taken, clashed, halts>>
  BY DEF BeginMove
<1>2. hand \in Movers /\ hand.at = "sdo" /\ hand.order # "stop" /\ hand.ref = ref
  BY <1>1 DEF MovesFit, Movers
<1> HIDE DEF hand
<1>3. \A d \in Callers : d = c /\ mover'[d] = hand
  BY <1>1, <1>2, CallerGoes
<1>4. \A d \in Callers : d = c /\ mover[d].at = "idle"
  BY <1>1, <1>3 DEF NoMove
<1>5. /\ m \in 1..(Len(toDrive') + 1) /\ Queued(m)' /\ (m > Len(toDrive') <=> k > Len(toDrive))
      /\ Lowered(m)' <=> Lowered(k)
  BY <1>1, SdoAppended DEF Tame
<1>6. \A i \in DOMAIN toDrive : IsWord(i)
  <2>1. \A i \in DOMAIN toDrive : ~IsWord(i) => toDrive[i].client \in Callers
    BY WordsTyped
  <2> QED BY <1>4, <2>1 DEF Tame, Transfers
<1>7. \A i \in DOMAIN toHost : toHost[i].kind = "status"
  <2>1. \A i \in DOMAIN toHost : toHost[i].kind = "status" \/ (toHost[i].kind = "reply" /\ toHost[i].client \in Callers)
    BY DEF MovesTyped, ToHost
  <2> QED BY <1>4, <2>1 DEF Tame, Transfers
<1>8. Transfers'
  <2> PICK n \in Nat : n = Len(toDrive)
    BY DEF MovesTyped
  <2>1. /\ DOMAIN toDrive = 1..n /\ DOMAIN toDrive' = 1..(n + 1) /\ toDrive'[n + 1].client = c /\ toDrive'[n + 1].ref = ref
        /\ \A i \in 1..n : toDrive'[i] = toDrive[i]
    BY <1>1 DEF MovesTyped, Sdo
  <2>2. \A i \in 1..(n + 1) : ~IsWord(i)' => i = n + 1
    BY <1>6, <2>1 DEF IsWord
  <2>3. \A i \in DOMAIN toHost' : toHost'[i].kind = "status"
    BY <1>1, <1>7
  <2> QED BY <1>2, <1>3, <2>1, <2>2, <2>3 DEF Transfers
<1>9. Asks(m)'
  BY <1>1, <1>2, <1>3 DEF Asks, Moving, Changing
<1>10. Reads(m)'
  BY <1>1, <1>5 DEF Tame, Reads, Changing
<1>11. Stored(m)'
  BY <1>1, <1>4, <1>5 DEF Tame, Stored
<1>12. m > Len(toDrive') /\ ~Lowered(m)' => AckComes'
  BY <1>1, <1>5 DEF Tame, AckComes
<1> QED BY <1>1, <1>5, <1>8, <1>9, <1>10, <1>11, <1>12 DEF Tame

\* The caller changes nothing but what it has in hand.
LEMMA CallerHolds ==
  ASSUME OneCaller, MovesTyped, NEW k \in 1..(Len(toDrive) + 1), Tame(k), NEW c \in Callers, mover[c].at # "sdo",
         NEW hand \in Movers, Goes(c, hand),
         UNCHANGED <<reader, toDrive, toHost, drive, ordered, taken>>
  PROVE  /\ Queued(k)' /\ (Lowered(k)' <=> Lowered(k)) /\ Transfers'
         /\ k > Len(toDrive') /\ ~Lowered(k)' => AckComes'
         /\ \A d \in Callers : d = c /\ mover'[d] = hand
<1>1. \A d \in Callers : d = c /\ mover'[d] = hand
  BY CallerGoes
<1>2. Queued(k)' /\ (Lowered(k)' <=> Lowered(k))
  BY QueueStays DEF Tame
<1>3. Transfers'
  <2>1. \A i \in DOMAIN toDrive : IsWord(i)
    <3>1. \A i \in DOMAIN toDrive : ~IsWord(i) => toDrive[i].client \in Callers
      BY WordsTyped
    <3> QED BY <1>1, <3>1 DEF Tame, Transfers
  <2>2. \A i \in DOMAIN toHost : toHost[i].kind # "reply"
    <3>1. \A i \in DOMAIN toHost : toHost[i].kind = "status" \/ (toHost[i].kind = "reply" /\ toHost[i].client \in Callers)
      BY DEF MovesTyped, ToHost
    <3> QED BY <1>1, <3>1 DEF Tame, Transfers
  <2> QED BY <2>1, <2>2 DEF Transfers, IsWord
<1>4. k > Len(toDrive') /\ ~Lowered(k)' => AckComes'
  BY <1>2 DEF Tame, AckComes
<1> QED BY <1>1, <1>2, <1>3, <1>4

LEMMA BeginStopKeeps ==
  ASSUME OneCaller, MovesTyped, NEW k \in 1..(Len(toDrive) + 1), Tame(k), NEW c \in Callers, BeginStop(c), Good'
  PROVE  \E m \in 1..(Len(toDrive') + 1) : Tame(m)'
<1> DEFINE hand == [NoMove EXCEPT !.at = "read"]
<1>1. /\ mover[c] = NoMove /\ Goes(c, hand) /\ halts'
      /\ UNCHANGED <<controlword, reader, toDrive, toHost, drive, ordered, taken, clashed>>
  BY DEF BeginStop
<1>2. hand \in Movers /\ hand.at = "read" /\ hand.order = "stop"
  BY DEF NoMove, Movers
<1> HIDE DEF hand
<1>3. mover[c].at = "idle"
  BY <1>1 DEF NoMove
<1>4. /\ Queued(k)' /\ (Lowered(k)' <=> Lowered(k)) /\ Transfers'
      /\ k > Len(toDrive') /\ ~Lowered(k)' => AckComes'
      /\ \A d \in Callers : d = c /\ mover'[d] = hand
  BY <1>1, <1>2, <1>3, CallerHolds
<1>5. Asks(k)'
  BY <1>1, <1>2, <1>4 DEF Asks, Moving, Changing
<1>6. Reads(k)'
  BY <1>1, <1>4 DEF Tame, Reads, Changing
<1>7. Stored(k)'
  BY <1>1, <1>3, <1>4 DEF Tame, Stored
<1> QED BY <1>1, <1>4, <1>5, <1>6, <1>7 DEF Tame

LEMMA ReadWordKeeps ==
  ASSUME OneCaller, MovesTyped, NEW k \in 1..(Len(toDrive) + 1), Tame(k), NEW c \in Callers, ReadWord(c), Good'
  PROVE  \E m \in 1..(Len(toDrive') + 1) : Tame(m)'
<1> DEFINE w == ChangedWord(mover[c].order)
           hand == [mover[c] EXCEPT !.at = "send", !.word = w]
<1>1. /\ mover[c].at = "read" /\ Goes(c, hand) /\ clashed' = (clashed \/ Changing(reader.at))
      /\ UNCHANGED <<controlword, reader, toDrive, toHost, drive, ordered, taken, halts>>
  BY DEF ReadWord
<1>2. mover[c] \in Movers
  BY DEF MovesTyped
<1>3. /\ w \in SUBSET MoveBits
      /\ Moving(c) => SetPoint \in w /\ (Relative \in w <=> mover[c].order = "relative") /\ (Halt \in w => Halt \in controlword)
      /\ ~Moving(c) => (SetPoint \in w <=> SetPoint \in controlword)
  BY <1>2 DEF ChangedWord, Movers, MovesTyped, MoveBits, SetPoint, Relative, Halt, Moving
<1> HIDE DEF w
<1>4. /\ hand \in Movers /\ hand.at = "send" /\ hand.order = mover[c].order /\ hand.ref = mover[c].ref /\ hand.word = w
  BY <1>2, <1>3 DEF Movers
<1> HIDE DEF hand
<1>5. /\ Queued(k)' /\ (Lowered(k)' <=> Lowered(k)) /\ Transfers'
      /\ k > Len(toDrive') /\ ~Lowered(k)' => AckComes'
      /\ \A d \in Callers : d = c /\ mover'[d] = hand
  BY <1>1, <1>4, CallerHolds
<1>6. ~Moving(c) => halts
  BY <1>1 DEF Tame, Asks
<1>7. Moving(c) => Halt \notin controlword /\ k > Len(toDrive) /\ Lowered(k) /\ drive.object = mover[c].ref
  BY <1>1 DEF Tame, Asks
<1>8. ~Moving(c) /\ SetPoint \in w => ~Lowered(k)
  <2> SUFFICES ASSUME ~Moving(c), SetPoint \in w PROVE ~Lowered(k)
    OBVIOUS
  <2>1. ~clashed /\ ~Changing(reader.at)
    BY <1>1, <1>6 DEF Good
  <2>2. \A d \in Callers : mover[d].at # "keep"
    BY <1>1, <1>5
  <2> QED BY <1>3, <2>1, <2>2 DEF Tame, Stored, Changing
<1>9. Asks(k)'
  <2>1. Moving(c)' <=> Moving(c)
    BY <1>4, <1>5 DEF Moving
  <2> QED BY <1>1, <1>3, <1>4, <1>5, <1>6, <1>7, <1>8, <2>1 DEF Asks, Changing
<1>10. Reads(k)'
  BY <1>1, <1>5 DEF Tame, Reads, Changing
<1>11. Stored(k)'
  BY <1>1, <1>5 DEF Tame, Stored
<1> QED BY <1>1, <1>5, <1>9, <1>10, <1>11 DEF Tame

LEMMA SendWordKeeps ==
  ASSUME OneCaller, MovesTyped, NEW k \in 1..(Len(toDrive) + 1), Tame(k), NEW c \in Callers, SendWord(c), Good'
  PROVE  \E m \in 1..(Len(toDrive') + 1) : Tame(m)'
<1> DEFINE w == mover[c].word
<1>1. mover[c].at = "send" /\ UNCHANGED <<controlword, reader, toHost, drive, taken, clashed, halts>>
  BY DEF SendWord
<1>2. mover[c] \in Movers /\ w \in SUBSET MoveBits
  BY DEF MovesTyped, Movers
<1>3. ~clashed => ~Changing(reader.at)
  BY <1>1 DEF Tame, Asks, Changing
<1>4. CASE Goes(c, NoMove) /\ UNCHANGED <<toDrive, ordered>>
  <2>1. NoMove \in Movers /\ NoMove.at = "idle"
    BY DEF NoMove, Movers
  <2>2. /\ Queued(k)' /\ (Lowered(k)' <=> Lowered(k)) /\ Transfers'
        /\ k > Len(toDrive') /\ ~Lowered(k)' => AckComes'
        /\ \A d \in Callers : d = c /\ mover'[d] = NoMove
    BY <1>1, <1>4, <2>1, CallerHolds
  <2>3. Asks(k)'
    BY <2>1, <2>2 DEF Asks, Changing
  <2>4. Reads(k)'
    BY <1>1, <2>2 DEF Tame, Reads, Changing
  <2>5. Stored(k)'
    BY <1>1, <2>2 DEF Tame, Stored
  <2> QED BY <1>1, <1>4, <2>2, <2>3, <2>4, <2>5 DEF Tame
<1>5. CASE /\ toDrive' = Append(toDrive, Word(w)) /\ Goes(c, [mover[c] EXCEPT !.at = "keep"])
           /\ ordered' = IF mover[c].order = "stop" THEN ordered ELSE Append(ordered, Move(mover[c].order, mover[c].ref))
  <2> DEFINE hand == [mover[c] EXCEPT !.at = "keep"]
  <2>1. hand \in Movers /\ hand.at = "keep" /\ hand.word = w /\ hand.order = mover[c].order
    BY <1>2 DEF Movers
  <2> HIDE DEF hand
  <2>2. \A d \in Callers : d = c /\ mover'[d] = hand
    BY <1>5, <2>1, CallerGoes DEF hand
  <2>3. Transfers'
    BY <1>1, <1>2, <1>5, <2>2, TransfersBesideWord DEF Tame
  <2>4. (Halt \in w => halts) /\ (~Moving(c) => halts)
    BY <1>1 DEF Tame, Asks, Changing
  <2>5. ASSUME NEW m \in 1..(Len(toDrive') + 1), Queued(m)', SetPoint \in w => ~Lowered(m)',
               \A x \in SUBSET MoveBits : ~Lowered(k) => (SetPoint \in w => ~Lowered(m)'),
               reader.at \in {"reached send", "reached keep"} /\ SetPoint \in reader.word => ~Lowered(m)',
               m > Len(toDrive') /\ ~Lowered(m)' => AckComes'
        PROVE  Tame(m)'
    <3>1. Asks(m)'
      BY <1>1, <1>3, <2>1, <2>2, <2>4, <2>5 DEF Asks, Moving, Changing
    <3>2. Reads(m)'
      BY <1>1, <2>5 DEF Tame, Reads, Changing
    <3>3. Stored(m)'
      BY <1>1, <2>1, <2>2 DEF Tame, Stored
    <3> QED BY <1>1, <2>3, <2>5, <3>1, <3>2, <3>3 DEF Tame
  <2>6. CASE mover[c].order # "stop"
    <3>1. /\ k > Len(toDrive) /\ Lowered(k) /\ drive.object = mover[c].ref /\ SetPoint \in w /\ Halt \notin w
          /\ Relative \in w <=> mover[c].order = "relative"
      BY <1>1, <2>6 DEF Tame, Asks, Moving
    <3>2. mover[c].order = IF Relative \in w THEN "relative" ELSE "absolute"
      BY <1>2, <2>6, <3>1 DEF Movers
    <3>3. ordered' = Append(ordered, Move(IF Relative \in w THEN "relative" ELSE "absolute", drive.object))
      BY <1>5, <2>6, <3>1, <3>2
    <3>4. \A i \in DOMAIN toDrive : IsWord(i)
      <4>1. \A i \in DOMAIN toDrive : ~IsWord(i) => toDrive[i].client \in Callers
        BY WordsTyped
      <4> QED BY <1>1, <2>2, <4>1 DEF Tame, Transfers
    <3>5. \A i \in DOMAIN toHost : toHost[i].kind = "status"
      <4>1. \A i \in DOMAIN toHost : toHost[i].kind = "status" \/ (toHost[i].kind = "reply" /\ toHost[i].client \in Callers)
        BY DEF MovesTyped, ToHost
      <4> QED BY <1>1, <2>2, <4>1 DEF Tame, Transfers
    <3> HIDE DEF w
    <3>6. k \in 1..(Len(toDrive') + 1) /\ Queued(k)' /\ k <= Len(toDrive') /\ ~Lowered(k)'
      BY <1>1, <1>2, <1>5, <3>1, <3>3, <3>4, <3>5, RiseAppended DEF Tame
    <3>7. ~(k > Len(toDrive'))
      BY <3>6 DEF Queued, Chain, MovesTyped
    <3> QED BY <2>5, <3>6, <3>7
  <2>7. CASE mover[c].order = "stop"
    <3> PICK m : m = IF k > Len(toDrive) THEN k + 1 ELSE k
      OBVIOUS
    <3>1. ordered' = ordered /\ halts /\ ~clashed /\ ~Changing(reader.at)
      BY <1>1, <1>3, <1>5, <2>4, <2>7 DEF Moving, Good
    <3>2. SetPoint \in w => ~Lowered(k)
      BY <1>1, <2>7 DEF Tame, Asks, Moving
    <3> HIDE DEF w
    <3>3. /\ m \in 1..(Len(toDrive') + 1) /\ Queued(m)' /\ (m > Len(toDrive') <=> k > Len(toDrive))
          /\ Lowered(m)' <=> Lowered(k) \/ SetPoint \notin w
      BY <1>1, <1>2, <1>5, <3>1, <3>2, WordAppended DEF Tame
    <3>4. m > Len(toDrive') /\ ~Lowered(m)' => AckComes'
      BY <1>1, <3>3 DEF Tame, AckComes
    <3> QED BY <2>5, <3>1, <3>2, <3>3, <3>4 DEF Changing
  <2> QED BY <2>6, <2>7
<1> QED BY <1>4, <1>5 DEF SendWord

LEMMA KeepWordKeeps ==
  ASSUME OneCaller, MovesTyped, NEW k \in 1..(Len(toDrive) + 1), Tame(k), NEW c \in Callers, KeepWord(c), Good'
  PROVE  \E m \in 1..(Len(toDrive') + 1) : Tame(m)'
<1>1. /\ mover[c].at = "keep" /\ controlword' = mover[c].word /\ Goes(c, NoMove)
      /\ UNCHANGED <<reader, toDrive, toHost, drive, ordered, taken, clashed, halts>>
  BY DEF KeepWord, movesGhosts
<1>2. NoMove \in Movers /\ NoMove.at = "idle"
  BY DEF NoMove, Movers
<1>3. /\ Queued(k)' /\ (Lowered(k)' <=> Lowered(k)) /\ Transfers'
      /\ k > Len(toDrive') /\ ~Lowered(k)' => AckComes'
      /\ \A d \in Callers : d = c /\ mover'[d] = NoMove
  BY <1>1, <1>2, CallerHolds
<1>4. /\ Halt \in mover[c].word => halts
      /\ ~clashed /\ SetPoint \in mover[c].word => ~Lowered(k)
      /\ ~clashed => ~Changing(reader.at)
  BY <1>1 DEF Tame, Asks, Changing
<1>5. Asks(k)'
  BY <1>2, <1>3 DEF Asks, Changing
<1>6. Reads(k)'
  <2>1. Changing(reader.at) => Halt \notin reader.word
    BY <1>1, <1>4 DEF Tame, Reads, Stored, Good
  <2> QED BY <1>1, <1>3, <2>1 DEF Tame, Reads
<1>7. Stored(k)'
  BY <1>1, <1>3, <1>4 DEF Stored
<1> QED BY <1>1, <1>3, <1>5, <1>6, <1>7 DEF Tame

-----------------------------------------------------------------------------
\* What has gone wrong stays so.
LEMMA GoodBefore ==
  ASSUME MovesTyped, [MovesNext]_movesVars, Good'
  PROVE  Good
<1>1. (stuck => stuck') /\ (clashed => clashed') /\ (halts => halts')
  <2>1. CASE UNCHANGED movesVars
    BY <2>1 DEF movesVars, movesGhosts
  <2>2. ASSUME NEW c \in Callers, BeginStop(c) \/ CheckMotionDone(c)
        PROVE  (stuck => stuck') /\ (clashed => clashed') /\ (halts => halts')
    BY <2>2 DEF BeginStop, CheckMotionDone, movesVars, movesGhosts
  <2>3. ASSUME NEW c \in Callers, Client(c)
        PROVE  (stuck => stuck') /\ (clashed => clashed') /\ (halts => halts')
    <3>1. CASE ReadWord(c)
      BY <3>1 DEF ReadWord
    <3>2. CASE SendWord(c) \/ KeepWord(c)
      <4>1. UNCHANGED <<stuck, clashed, halts>>
        BY <3>2 DEF SendWord, KeepWord, movesGhosts
      <4> QED BY <4>1
    <3> QED BY <2>3, <3>1, <3>2 DEF Client
  <2>4. ASSUME NEW c \in Callers, NEW order \in MoveOrders, NEW ref \in Targets, BeginMove(c, order, ref)
        PROVE  (stuck => stuck') /\ (clashed => clashed') /\ (halts => halts')
    BY <2>4 DEF BeginMove
  <2>5. CASE ReadStatus \/ ReadReply \/ ReaderKeeps
    <3>1. UNCHANGED <<stuck, clashed, halts>>
      BY <2>5 DEF ReadStatus, ReadReply, ReaderKeeps, movesGhosts
    <3> QED BY <3>1
  <2>6. CASE Rests \/ Acknowledged
    <3>1. UNCHANGED <<stuck, halts>>
      BY <2>6 DEF Rests, Acknowledged
    <3>2. clashed => clashed'
      BY <2>6 DEF Rests, Acknowledged, Clashes
    <3> QED BY <3>1, <3>2
  <2>7. CASE ReaderSends
    <3>1. UNCHANGED <<clashed, halts>>
      BY <2>7 DEF ReaderSends
    <3>2. stuck => stuck'
      BY <2>7 DEF ReaderSends
    <3> QED BY <3>1, <3>2
  <2>8. CASE Drive \/ Retell
    BY <2>8 DEF Drive, DriveTakes, TakeSdo, TakeWord, Rest, Retell, movesGhosts
  <2> QED BY <2>1, <2>2, <2>3, <2>4, <2>5, <2>6, <2>7, <2>8 DEF MovesNext, Reader
<1> QED BY <1>1 DEF Good

\* No step at all.
LEMMA NothingKeeps ==
  ASSUME OneCaller, MovesTyped, NEW k \in 1..(Len(toDrive) + 1), Tame(k), UNCHANGED movesVars
  PROVE  \E m \in 1..(Len(toDrive') + 1) : Tame(m)'
<1>1. UNCHANGED <<controlword, mover, reader, toDrive, toHost, drive, ordered, taken, clashed, halts>>
  BY DEF movesVars, movesGhosts
<1>2. Queued(k)' /\ (Lowered(k)' <=> Lowered(k))
  BY <1>1, QueueStays DEF Tame
<1>3. Asks(k)' /\ Reads(k)' /\ Stored(k)'
  BY <1>1, <1>2, HostStays
<1>4. Transfers' /\ (AckComes => AckComes')
  BY <1>1 DEF Tame, Transfers, AckComes, IsWord
<1> QED BY <1>1, <1>2, <1>3, <1>4 DEF Tame

LEMMA MovesNextKeeps == ASSUME MovesFit, OneCaller PROVE MovesInv /\ [MovesNext]_movesVars => MovesInv'
<1> SUFFICES ASSUME MovesInv, [MovesNext]_movesVars PROVE MovesInv'
  OBVIOUS
<1>1. MovesTyped
  BY DEF MovesInv
<1>2. MovesTyped'
  <2>1. CASE UNCHANGED movesVars
    BY <1>1, <2>1 DEF MovesTyped, movesVars, movesGhosts
  <2> QED BY <1>1, <2>1, CallsTyped, ReaderTyped, DriveTyped DEF MovesNext
<1>3. ASSUME Good' PROVE \E m \in 1..(Len(toDrive') + 1) : Tame(m)'
  <2>1. PICK k \in 1..(Len(toDrive) + 1) : Tame(k)
    BY <1>1, <1>3, GoodBefore DEF MovesInv
  <2>2. CASE UNCHANGED movesVars
    BY <1>1, <2>1, <2>2, NothingKeeps
  <2>3. ASSUME NEW c \in Callers, Client(c) PROVE \E m \in 1..(Len(toDrive') + 1) : Tame(m)'
    BY <1>1, <1>3, <2>1, <2>3, ReadWordKeeps, SendWordKeeps, KeepWordKeeps DEF Client
  <2>4. ASSUME NEW c \in Callers, BeginStop(c) PROVE \E m \in 1..(Len(toDrive') + 1) : Tame(m)'
    BY <1>1, <1>3, <2>1, <2>4, BeginStopKeeps
  <2>5. ASSUME NEW c \in Callers, NEW order \in MoveOrders, NEW ref \in Targets, BeginMove(c, order, ref)
        PROVE  \E m \in 1..(Len(toDrive') + 1) : Tame(m)'
    BY <1>1, <2>1, <2>5, BeginMoveKeeps
  <2>6. CASE Reader
    BY <1>1, <1>3, <2>1, <2>6, ReadStatusKeeps, ReadReplyKeeps, RestsKeeps, AcknowledgedKeeps, ReaderSendsKeeps,
       ReaderKeepsKeeps DEF Reader
  <2>7. CASE Drive \/ Retell
    BY <1>1, <2>1, <2>7, TakeSdoKeeps, TakeWordKeeps, DriveTellsKeeps DEF Drive, DriveTakes
  <2> QED BY <2>2, <2>3, <2>4, <2>5, <2>6, <2>7 DEF MovesNext, CheckMotionDone
<1> QED BY <1>2, <1>3 DEF MovesInv

LEMMA MovesInitInv == MovesInit => MovesInv
<1> SUFFICES ASSUME MovesInit PROVE MovesInv
  OBVIOUS
<1>1. MovesTyped
  <2>1. NoMove \in Movers /\ Waiting \in Readers /\ Resting \in DriveStates /\ Resting.told = Resting.status
    BY DEF NoMove, Movers, Waiting, Readers, Resting, DriveStates, Shown
  <2>2. {Reached} \in Shown
    BY DEF Shown
  <2>3. toDrive \in Seq(ToDrive) /\ toHost \in Seq(ToHost)
    BY DEF MovesInit
  <2>4. mover \in [Callers -> Movers]
    BY <2>1 DEF MovesInit
  <2> QED BY <2>1, <2>2, <2>3, <2>4 DEF MovesInit, MovesTyped
<1>2. Tame(1)
  <2>1. Len(toDrive) = 0 /\ DOMAIN toDrive = {} /\ DOMAIN toHost = {} /\ controlword = {}
    BY DEF MovesInit
  <2>2. \A c \in Callers : mover[c].at = "idle"
    BY DEF MovesInit, NoMove
  <2>3. reader.at = "idle"
    BY DEF MovesInit, Waiting
  <2>4. drive.word = {} /\ drive.status = {Reached}
    BY DEF MovesInit, Resting
  <2>5. Queued(1)
    BY <2>1 DEF MovesInit, Queued, Chain, Rising
  <2>6. Lowered(1)
    BY <2>1, <2>4 DEF Lowered
  <2>7. Transfers
    BY <2>1 DEF Transfers
  <2>8. Asks(1)
    BY <2>2 DEF Asks, Changing
  <2>9. Reads(1) /\ Stored(1)
    BY <2>1, <2>3 DEF Reads, Stored, Changing
  <2>10. Acknowledge \notin drive.status
    BY <2>4 DEF Acknowledge, Reached
  <2> QED BY <2>5, <2>6, <2>7, <2>8, <2>9, <2>10 DEF Tame
<1>3. 1 \in 1..(Len(toDrive) + 1)
  BY DEF MovesInit
<1> QED BY <1>1, <1>2, <1>3 DEF MovesInv

\* The drive takes every move for which true was returned, with its own target, once and
\* in order: however many calls one client makes, however close they follow each other,
\* and whatever frames are under way, if the drive tells what changes at once. (Two callers
\* raise bit 4 in two words with no fall between them, and so does one whose drive holds
\* the acknowledgement back until the reply to the transfer is there.)
THEOREM EveryMoveTaken == ASSUME MovesFit, OneCaller PROVE MovesSpec => []MovesAreTaken
<1>1. MovesInv => MovesAreTaken
  <2> SUFFICES ASSUME MovesInv, Quiet, Good PROVE taken = ordered
    BY DEF MovesAreTaken, Good
  <2>1. PICK k \in 1..(Len(toDrive) + 1) : Rising(k)
    BY DEF MovesInv, Tame, Queued
  <2>2. toDrive = <<>>
    BY DEF Quiet
  <2>3. k > Len(toDrive)
    BY <2>1, <2>2
  <2> QED BY <2>1, <2>3 DEF Rising
<1>2. MovesInit => MovesInv
  BY MovesInitInv
<1>3. MovesInv /\ [MovesNext]_movesVars => MovesInv'
  BY MovesNextKeeps
<1> QED BY <1>1, <1>2, <1>3, PTL DEF MovesSpec
=============================================================================
