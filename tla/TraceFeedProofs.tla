--------------------------- MODULE TraceFeedProofs ---------------------------
(***************************************************************************)
(* Proofs about TraceFeed, for any contexts, streams and managers, channels *)
(* of any capacity, and any bounds on updates and time.                    *)
(***************************************************************************)
EXTENDS TraceFeed, FiniteSetTheorems, TLAPS

-----------------------------------------------------------------------------
(***************************************************************************)
(* The inductive invariant                                                 *)
(***************************************************************************)

\* The updates of one context follow each other in the order it made them.
Ascending(s) ==
  \A i, j \in DOMAIN s : i < j /\ s[i].by = s[j].by => s[i].id < s[j].id

\* Updates are numbered as they are made.
Numbered ==
  /\ IsFiniteSet(issued)
  /\ \A u \in issued : u.id <= Cardinality(issued)
  /\ \A u, v \in issued : u.id = v.id => u = v

\* The storage and the logs hold updates that were made, in order, and only
\* those are pushed.
Recorded ==
  /\ Ascending(stored) /\ Range(stored) \subseteq issued
  /\ \A m \in Managers : Ascending(log[m]) /\ Range(log[m]) \subseteq issued
  /\ pushed \subseteq issued

\* A manager that is referred to was made, so that no other one takes its place.
\* An update is added by its own three steps.
Referred ==
  /\ registry \in made \cup {NoManager}
  /\ \A c \in Contexts : trace[c] \in made \cup {NoManager}
  /\ \A c \in Contexts : then[c] \notin {"save", "log", "push"}
  /\ \A c \in Contexts : "cancelled" \in {cpc[c], then[c]} => trace[c] \in made

\* The update a context is adding is its latest, and is nowhere yet but where
\* its steps so far have put it.
Adding(c) ==
  /\ upd[c] \in issued /\ upd[c].by = c /\ upd[c] \notin pushed
  /\ trace[c] \in made
  /\ \A v \in issued : v.by = c => v.id <= upd[c].id
  /\ cpc[c] = "save" => upd[c] \notin Range(stored)
  /\ cpc[c] \in {"save", "log"} => upd[c] \notin Range(log[trace[c]])
AddingInv == \A c \in Contexts : cpc[c] \in {"save", "log", "push"} => Adding(c)

WriterInv == Numbered /\ Recorded /\ Referred /\ AddingInv

\* A subscription copies the log once, of a manager that was made.
Placed(r) ==
  /\ hpc[r] \in {"none", "loaded", "stored", "register", "subscribe", "snapshot"}
       => gpc[r] = "off"
  /\ gpc[r] = "off" => sent[r] = <<>> /\ hist[r] = <<>>
  /\ hpc[r] \in {"register", "subscribe", "snapshot"} \/ gpc[r] # "off"
       => mgr[r] \in made

Taken(r) == Range(sent[r]) \cup Range(hist[r])

\* Where the updates of a stream come from: the log, then the subscribers'
\* channel, each in order.
Sourced(r) ==
  /\ Ascending(live[r]) /\ Range(live[r]) \subseteq pushed
  /\ Ascending(hist[r])
  /\ \A v \in Range(hist[r]) : v \in Range(log[mgr[r]])
  /\ \A v \in Range(sent[r]) : v \in pushed \/ v \in Range(log[mgr[r]])
  /\ \A v \in Range(sent[r]), w \in Range(hist[r]) : v.by = w.by => v.id < w.id

\* What was seen was replayed; what was replayed and may still come, or has
\* come, as a live update is seen.
Matched(r) ==
  /\ \A k \in seen[r] : \E v \in Taken(r) : Key(v) = k
  /\ \A u \in Taken(r) :
       Unshared(u) /\ (u \notin pushed \/ u \in Range(live[r])) => Key(u) \in seen[r]

\* A live update that will not be skipped is later than all that were written.
Seam(r) ==
  \A v \in Taken(r), u \in Range(live[r]) :
    /\ u.by = v.by /\ {u, v} \subseteq Range(log[mgr[r]])
    /\ Unshared(u) /\ Unshared(v) /\ Key(u) \notin seen[r]
    => v.id < u.id

\* NoUpdateLost, NoneTwice and InContextOrder of one stream.
Complete(r) ==
  gpc[r] = "on" /\ entry[r] =>
    \A u \in pushed \cap Range(log[mgr[r]]) : Unshared(u) => u \in Where(r)
Once(r) ==
  \A i, j \in DOMAIN sent[r] :
    i # j /\ sent[r][i] = sent[r][j] => ~Unshared(sent[r][i])
InOrder(r) ==
  \A i, j \in DOMAIN sent[r] :
    /\ i < j /\ sent[r][i].by = sent[r][j].by
    /\ {sent[r][i], sent[r][j]} \subseteq Range(log[mgr[r]])
    /\ Unshared(sent[r][i]) /\ Unshared(sent[r][j])
    => sent[r][i].id < sent[r][j].id

StreamInv(r) ==
  /\ Placed(r) /\ Sourced(r) /\ Matched(r) /\ Seam(r)
  /\ Complete(r) /\ Once(r) /\ InOrder(r)

IInv == TypeOK /\ WriterInv /\ \A r \in Readers : StreamInv(r)

-----------------------------------------------------------------------------
(***************************************************************************)
(* Sequences of updates                                                    *)
(***************************************************************************)

LEMMA RangeAppend ==
  ASSUME NEW S, NEW s \in Seq(S), NEW x \in S
  PROVE  Range(Append(s, x)) = Range(s) \cup {x}
<1>1. DOMAIN Append(s, x) = DOMAIN s \cup {Len(s) + 1}
  OBVIOUS
<1>2. /\ \A i \in DOMAIN s : Append(s, x)[i] = s[i]
      /\ Append(s, x)[Len(s) + 1] = x
  OBVIOUS
<1> QED
  BY <1>1, <1>2, Zenon DEF Range

LEMMA RangeTail ==
  ASSUME NEW S, NEW s \in Seq(S), s # <<>>
  PROVE  /\ Head(s) \in S /\ Head(s) \in Range(s) /\ Tail(s) \in Seq(S)
         /\ Range(s) = Range(Tail(s)) \cup {Head(s)}
<1>1. /\ Head(s) = s[1] /\ 1 \in DOMAIN s /\ Head(s) \in S
      /\ Tail(s) \in Seq(S)
  OBVIOUS
<1>2. \A i \in DOMAIN Tail(s) : i + 1 \in DOMAIN s /\ Tail(s)[i] = s[i + 1]
  OBVIOUS
<1>3. \A i \in DOMAIN s : i = 1 \/ (i - 1 \in DOMAIN Tail(s) /\ s[i] = Tail(s)[i - 1])
  OBVIOUS
<1>4. \A i \in DOMAIN s : s[i] \in Range(Tail(s)) \cup {Head(s)}
  BY <1>1, <1>3 DEF Range
<1>5. \A i \in DOMAIN Tail(s) : Tail(s)[i] \in Range(s)
  BY <1>2 DEF Range
<1>6. Head(s) \in Range(s)
  BY <1>1 DEF Range
<1> QED
  BY <1>1, <1>4, <1>5, <1>6, Zenon DEF Range

LEMMA RangeType ==
  ASSUME NEW S, NEW s \in Seq(S)
  PROVE  Range(s) \subseteq S
  BY DEF Range

LEMMA AscendingAppend ==
  ASSUME NEW s \in Seq(Update), NEW x \in Update, Ascending(s),
         \A v \in Range(s) : v.by = x.by => v.id < x.id
  PROVE  Ascending(Append(s, x))
<1> SUFFICES ASSUME NEW i \in DOMAIN Append(s, x), NEW j \in DOMAIN Append(s, x),
                    i < j, Append(s, x)[i].by = Append(s, x)[j].by
             PROVE  Append(s, x)[i].id < Append(s, x)[j].id
  BY DEF Ascending
<1>1. i \in DOMAIN s /\ Append(s, x)[i] = s[i] /\ s[i] \in Range(s)
  BY DEF Range
<1>2. CASE j \in DOMAIN s
  BY <1>1, <1>2 DEF Ascending
<1>3. CASE j \notin DOMAIN s
  <2>1. Append(s, x)[j] = x
    BY <1>3
  <2> QED
    BY <1>1, <2>1
<1> QED
  BY <1>2, <1>3

LEMMA AscendingTail ==
  ASSUME NEW s \in Seq(Update), s # <<>>, Ascending(s)
  PROVE  /\ Ascending(Tail(s))
         /\ \A v \in Range(Tail(s)) : v.by = Head(s).by => Head(s).id < v.id
<1>1. \A i \in DOMAIN Tail(s) : i + 1 \in DOMAIN s /\ Tail(s)[i] = s[i + 1]
  OBVIOUS
<1>2. Head(s) = s[1] /\ 1 \in DOMAIN s /\ \A i \in DOMAIN Tail(s) : i \in Nat /\ 1 < i + 1
  OBVIOUS
<1>3. Ascending(Tail(s))
  BY <1>1, <1>2 DEF Ascending
<1>4. \A i \in DOMAIN Tail(s) :
         Tail(s)[i].by = Head(s).by => Head(s).id < Tail(s)[i].id
  BY <1>1, <1>2 DEF Ascending
<1> QED
  BY <1>3, <1>4 DEF Range

\* A manager that is taken into use is an unused one.
LEMMA FreshOne ==
  ASSUME TypeOK, made # Managers
  PROVE  Fresh \in Managers /\ Fresh \notin made
  BY DEF TypeOK, Fresh

\* What is shared stays shared.
LEMMA UnsharedBefore ==
  ASSUME NEW u, issued \subseteq issued', Unshared(u)'
  PROVE  Unshared(u)
  BY DEF Unshared, Key

LEMMA Inits == Init => IInv
<1> SUFFICES ASSUME Init PROVE IInv
  OBVIOUS
<1> USE DEF Init
<1>0. NoUpdate \in Update
  BY RootAssumption DEF NoUpdate, Update, Stages
<1>1. TypeOK
  <2>1. <<>> \in Seq(Update) /\ 0 \in Nat
    OBVIOUS
  <2>2. /\ cpc \in [Contexts -> CtxSteps] /\ then \in [Contexts -> CtxSteps]
        /\ hpc \in [Readers -> ReqSteps] /\ upd \in [Contexts -> Update]
    BY <1>0 DEF CtxSteps, ReqSteps
  <2>3. /\ clock \in Nat /\ registry \in Managers \cup {NoManager}
        /\ storedInfo \in {"none", "pending", "cancelled"}
        /\ stored \in Seq(Update) /\ rooted \in BOOLEAN
        /\ issued \in SUBSET Update /\ pushed \in SUBSET Update
        /\ log \in [Managers -> Seq(Update)]
        /\ made \subseteq Managers /\ completed \subseteq Managers
        /\ trace \in [Contexts -> Managers \cup {NoManager}]
    BY <2>1
  <2>4. /\ gpc \in [Readers -> {"off", "on", "done"}]
        /\ mgr \in [Readers -> Managers \cup {NoManager}]
        /\ temp \in [Readers -> BOOLEAN]
        /\ entry \in [Readers -> BOOLEAN] /\ shut \in [Readers -> BOOLEAN]
        /\ live \in [Readers -> Seq(Update)] /\ hist \in [Readers -> Seq(Update)]
        /\ seen \in [Readers -> SUBSET (Stages \X Nat)]
        /\ sent \in [Readers -> Seq(Update)] /\ taken \in [Readers -> Nat]
        /\ dropped \in [Readers -> SUBSET Update]
    BY <2>1
  <2> QED
    BY <2>2, <2>3, <2>4 DEF TypeOK
<1>2. Range(<<>>) = {} /\ Ascending(<<>>)
  BY DEF Range, Ascending
<1>3. WriterInv
  BY <1>2, FS_EmptySet DEF WriterInv, Numbered, Recorded, Referred, AddingInv
<1>4. \A r \in Readers : StreamInv(r)
  BY <1>2 DEF StreamInv, Placed, Sourced, Matched, Seam, Complete, Once,
     InOrder, Taken
<1> QED
  BY <1>1, <1>3, <1>4 DEF IInv

-----------------------------------------------------------------------------
(***************************************************************************)
(* Types                                                                   *)
(***************************************************************************)

\* A loaded manager is a manager that was not in use, with a log of updates.
LEMMA LoadTypes ==
  ASSUME TypeOK, LoadManager
  PROVE  /\ log' \in [Managers -> Seq(Update)]
         /\ made' \subseteq Managers /\ completed' \subseteq Managers
         /\ Fresh \in Managers /\ Fresh \in made' /\ Fresh \notin made
  BY FreshOne DEF TypeOK, LoadManager

LEMMA BeginTypes ==
  ASSUME TypeOK, NEW c \in Contexts, NEW tag \in Stages, NEW at \in Nat,
         NEW k \in CtxSteps, IsFiniteSet(issued), Begin(c, tag, at, k)
  PROVE  /\ upd' \in [Contexts -> Update] /\ issued' \in SUBSET Update
         /\ cpc' \in [Contexts -> CtxSteps] /\ then' \in [Contexts -> CtxSteps]
<1> DEFINE u == [id |-> Cardinality(issued) + 1, by |-> c, tag |-> tag, at |-> at]
<1>1. u \in Update
  BY FS_CardinalityType DEF Update
<1> QED
  BY <1>1 DEF TypeOK, Begin, CtxSteps

LEMMA NowType ==
  ASSUME TypeOK, NEW at \in 0..MaxClock, Now(at)
  PROVE  at \in Nat /\ clock' \in Nat
  BY BoundAssumption DEF Now, TypeOK

\* A context that opens the trace, adds an update or ends the trace.
LEMMA OpenTypes ==
  ASSUME TypeOK, IsFiniteSet(issued), NEW c \in Contexts, OpenStep(c)
  PROVE  TypeOK'
<1> USE DEF storage, managers, contexts, streams, Goto, Loaded
<1>1. CASE Open(c)
  BY <1>1 DEF Open, TypeOK, CtxSteps
<1>2. CASE New(c)
  BY <1>2 DEF New, TypeOK, CtxSteps
<1>3. CASE Exists(c)
  <2>1. CASE Loaded \/ storedInfo # "none"
    BY <1>3, <2>1 DEF Exists, TypeOK, CtxSteps
  <2>2. CASE ~(Loaded \/ storedInfo # "none") /\ stored # <<>>
    <3>1. LoadManager /\ UNCHANGED <<clock, issued, upd, registry, storage, pushed, streams>>
          /\ trace' = [trace EXCEPT ![c] = Fresh]
          /\ then' = [then EXCEPT ![c] = "info"] /\ Goto(c, "register")
      BY <1>3, <2>2 DEF Exists
    <3> QED
      BY <3>1, LoadTypes DEF TypeOK, CtxSteps
  <2>3. CASE ~(Loaded \/ storedInfo # "none") /\ stored = <<>>
    <3>1. /\ made # Managers /\ made' = made \cup {Fresh}
          /\ trace' = [trace EXCEPT ![c] = Fresh]
          /\ UNCHANGED <<log, completed, registry, storage, pushed, streams>>
      BY <1>3, <2>3 DEF Exists
    <3>2. PICK at \in 0..MaxClock : Now(at) /\ Begin(c, "init", at, "register")
      BY <1>3, <2>3 DEF Exists
    <3>3. "init" \in Stages /\ "register" \in CtxSteps
      BY DEF Stages, CtxSteps
    <3> QED
      BY <3>1, <3>2, <3>3, NowType, BeginTypes, FreshOne DEF TypeOK
  <2> QED
    BY <2>1, <2>2, <2>3
<1>4. CASE LoadFromStorage(c)
  <2>1. CASE ~Loaded /\ storedInfo # "none"
    <3>1. LoadManager /\ UNCHANGED <<clock, registry, storage, issued, pushed, upd, streams>>
          /\ trace' = [trace EXCEPT ![c] = Fresh]
          /\ then' = [then EXCEPT ![c] = "idle"] /\ Goto(c, "register")
      BY <1>4, <2>1 DEF LoadFromStorage
    <3> QED
      BY <3>1, LoadTypes DEF TypeOK, CtxSteps
  <2>2. CASE ~(~Loaded /\ storedInfo # "none")
    <3>1. /\ Goto(c, "idle") /\ trace' \in {trace, [trace EXCEPT ![c] = registry]}
          /\ UNCHANGED <<managers, then, clock, registry, storage, issued, pushed, upd,
                         streams>>
      BY <1>4, <2>2 DEF LoadFromStorage
    <3>2. cpc' \in [Contexts -> CtxSteps]
      BY <3>1 DEF TypeOK, CtxSteps
    <3>3. trace' \in [Contexts -> Managers \cup {NoManager}]
      BY <3>1 DEF TypeOK
    <3> QED
      BY <3>1, <3>2, <3>3 DEF TypeOK
  <2> QED
    BY <2>1, <2>2
<1>5. CASE Register(c)
  BY <1>5 DEF Register, TypeOK, CtxSteps
<1>6. CASE SaveInfo(c)
  BY <1>6 DEF SaveInfo, TypeOK, CtxSteps
<1> QED
  BY <1>1, <1>2, <1>3, <1>4, <1>5, <1>6 DEF OpenStep

LEMMA UpdateTypes ==
  ASSUME TypeOK, Referred, AddingInv, IsFiniteSet(issued), NEW c \in Contexts,
         UpdateStep(c) \/ \E tag \in Tags[c] : Emit(c, tag)
  PROVE  TypeOK'
<1> USE DEF storage, managers, contexts, streams, Goto
<1>1. CASE Save(c)
  BY <1>1 DEF Save, TypeOK, CtxSteps
<1>2. CASE Log(c)
  <2>1. trace[c] \in Managers /\ upd[c] \in Update
    BY <1>2 DEF Log, AddingInv, Adding, TypeOK
  <2> QED
    BY <1>2, <2>1 DEF Log, TypeOK, CtxSteps
<1>3. CASE Push(c)
  <2>1. /\ live' \in [Readers -> Seq(Update)]
        /\ dropped' \in [Readers -> SUBSET Update]
    BY <1>3 DEF Push, TypeOK
  <2> QED
    BY <1>3, <2>1 DEF Push, TypeOK
<1>4. CASE \E tag \in Tags[c] : Emit(c, tag)
  <2>1. PICK tag \in Tags[c] : Emit(c, tag)
    BY <1>4
  <2>2. PICK at \in 0..MaxClock : Now(at) /\ Begin(c, tag, at, "idle")
    BY <2>1 DEF Emit
  <2>3. tag \in Stages /\ "idle" \in CtxSteps
    BY DEF Stages, CtxSteps
  <2> QED
    BY <2>1, <2>2, <2>3, NowType, BeginTypes DEF TypeOK, Emit
<1> QED
  BY <1>1, <1>2, <1>3, <1>4 DEF UpdateStep

LEMMA CompleteTypes ==
  ASSUME TypeOK, IsFiniteSet(issued), NEW c \in Contexts, NEW k \in CtxSteps,
         MarkComplete(c, k)
  PROVE  TypeOK'
<1> USE DEF storage, managers, contexts, streams, Goto
<1>1. CASE trace[c] \in completed
  BY <1>1 DEF MarkComplete, TypeOK
<1>2. CASE trace[c] \notin completed
  <2>1. PICK at \in 0..MaxClock : Now(at) /\ Begin(c, "complete", at, k)
    BY <1>2 DEF MarkComplete
  <2>2. "complete" \in Stages
    BY DEF Stages
  <2> QED
    BY <1>2, <2>1, <2>2, NowType, BeginTypes DEF TypeOK, MarkComplete
<1> QED
  BY <1>1, <1>2

LEMMA EndTypes ==
  ASSUME TypeOK, Referred, IsFiniteSet(issued), NEW c \in Contexts,
         EndStep(c) \/ MarkCancelled(c)
  PROVE  TypeOK'
<1> USE DEF storage, managers, contexts, streams, Goto, Loaded
<1>1. CASE ReleaseTrace(c)
  BY <1>1 DEF ReleaseTrace, TypeOK, CtxSteps
<1>2. CASE MarkCancelledEnds(c)
  <2>1. upd[c].at \in Nat /\ "complete" \in Stages /\ {"release", "done"} \subseteq CtxSteps
    BY DEF TypeOK, Update, Stages, CtxSteps
  <2>2. CASE storedInfo # "none"
    <3>1. trace[c] \in Managers
      BY <1>2 DEF MarkCancelledEnds, Referred, TypeOK
    <3>2. storedInfo' = "cancelled" /\ completed' = completed \cup {trace[c]}
          /\ Begin(c, "complete", upd[c].at, "release")
      BY <1>2, <2>2 DEF MarkCancelledEnds
    <3> QED
      BY <1>2, <3>1, <3>2, <2>1, BeginTypes DEF MarkCancelledEnds, TypeOK
  <2>3. CASE storedInfo = "none"
    BY <1>2, <2>3, <2>1 DEF MarkCancelledEnds, TypeOK
  <2> QED
    BY <2>2, <2>3
<1>3. CASE MarkCancelled(c)
  <2>1. CASE ~(Loaded /\ rooted)
    BY <1>3, <2>1 DEF MarkCancelled, TypeOK, CtxSteps
  <2>2. CASE Loaded /\ rooted
    <3>1. PICK at \in 0..MaxClock :
            /\ Now(at)
            /\ \/ /\ Goto(c, "cancelled")
                  /\ upd' = [upd EXCEPT ![c].at = at]
                  /\ UNCHANGED <<issued, then>>
               \/ \E tag \in Tags[c] : Begin(c, tag, at, "cancelled")
      BY <1>3, <2>2 DEF MarkCancelled
    <3>2. "cancelled" \in CtxSteps /\ Tags[c] \subseteq Stages /\ at \in Nat /\ clock' \in Nat
      BY <3>1, NowType DEF CtxSteps, Stages
    <3>3. /\ upd' \in [Contexts -> Update] /\ issued' \in SUBSET Update
          /\ cpc' \in [Contexts -> CtxSteps] /\ then' \in [Contexts -> CtxSteps]
      <4>1. CASE \E tag \in Tags[c] : Begin(c, tag, at, "cancelled")
        BY <4>1, <3>2, BeginTypes
      <4>2. CASE Goto(c, "cancelled") /\ upd' = [upd EXCEPT ![c].at = at]
                 /\ UNCHANGED <<issued, then>>
        <5>1. upd[c] \in Update
          BY DEF TypeOK
        <5>2. [upd[c] EXCEPT !.at = at] \in Update
          BY <3>2, <5>1 DEF Update
        <5>3. upd' \in [Contexts -> Update]
          BY <4>2, <5>2 DEF TypeOK
        <5> QED
          BY <3>2, <4>2, <5>3 DEF TypeOK
      <4> QED
        BY <3>1, <4>1, <4>2
    <3> QED
      BY <1>3, <2>2, <3>2, <3>3 DEF MarkCancelled, TypeOK
  <2> QED
    BY <2>1, <2>2
<1> QED
  BY <1>1, <1>2, <1>3 DEF EndStep

\* A stream's handler and its subscription's goroutine.
LEMMA RequestTypes ==
  ASSUME TypeOK, NEW r \in Readers, Placed(r), Request(r) \/ RequestStep(r) \/ ClientGone(r)
  PROVE  TypeOK'
<1> USE DEF storage, managers, contexts, streams, ReqGoto, Loaded
<1>1. CASE Request(r)
  BY <1>1 DEF Request, TypeOK, ReqSteps
<1>2. CASE ReqLoad(r)
  BY <1>2 DEF ReqLoad, TypeOK, ReqSteps
<1>3. CASE ReqLoadStored(r)
  <2>1. CASE Loaded
    BY <1>3, <2>1 DEF ReqLoadStored, TypeOK, ReqSteps
  <2>2. CASE ~Loaded
    <3>1. /\ LoadManager /\ UNCHANGED <<clock, registry, storage, issued, pushed>>
          /\ UNCHANGED <<contexts, gpc, entry, live, shut, hist, seen, sent, taken, dropped>>
          /\ mgr' = [mgr EXCEPT ![r] = Fresh] /\ temp' = [temp EXCEPT ![r] = TRUE]
          /\ hpc' = [hpc EXCEPT ![r] = "register"]
      BY <1>3, <2>2 DEF ReqLoadStored
    <3>2. /\ mgr' \in [Readers -> Managers \cup {NoManager}]
          /\ temp' \in [Readers -> BOOLEAN] /\ hpc' \in [Readers -> ReqSteps]
      BY <3>1, LoadTypes DEF TypeOK, ReqSteps
    <3> QED
      BY <3>1, <3>2, LoadTypes DEF TypeOK
  <2> QED
    BY <2>1, <2>2
<1>4. CASE ReqRegister(r)
  BY <1>4 DEF ReqRegister, TypeOK, ReqSteps
<1>5. CASE Subscribe(r)
  BY <1>5 DEF Subscribe, TypeOK, ReqSteps
<1>6. CASE Take(r)
  <2>1. hpc' = [hpc EXCEPT ![r] = "leave"] \/ UNCHANGED hpc
    BY <1>6 DEF Take
  <2>2. hpc' \in [Readers -> ReqSteps]
    BY <2>1 DEF TypeOK, ReqSteps
  <2>3. taken' \in [Readers -> Nat]
    BY <1>6 DEF Take, TypeOK
  <2> QED
    BY <1>6, <2>2, <2>3 DEF Take, TypeOK
<1>7. CASE Cancel(r)
  BY <1>7 DEF Cancel, Unsubscribe, TypeOK, ReqSteps
<1>8. CASE ReqRelease(r)
  BY <1>8 DEF ReqRelease, TypeOK, ReqSteps
<1>9. CASE ClientGone(r)
  BY <1>9 DEF ClientGone, TypeOK, ReqSteps
<1>10. CASE Snapshot(r)
  <2>1. mgr[r] \in Managers /\ log[mgr[r]] \in Seq(Update)
    BY <1>10 DEF Snapshot, Placed, TypeOK
  <2>2. {Key(log[mgr[r]][i]) : i \in DOMAIN log[mgr[r]]} \subseteq Stages \X Nat
    <3>1. \A i \in DOMAIN log[mgr[r]] : log[mgr[r]][i] \in Update
      BY <2>1
    <3>2. \A u \in Update : Key(u) \in Stages \X Nat
      BY DEF Key, Update
    <3> QED
      BY <3>1, <3>2, Zenon
  <2> QED
    BY <1>10, <2>1, <2>2 DEF Snapshot, TypeOK, ReqSteps
<1> QED
  BY <1>1, <1>2, <1>3, <1>4, <1>5, <1>6, <1>7, <1>8, <1>9, <1>10 DEF RequestStep

LEMMA FeedTypes ==
  ASSUME TypeOK, NEW r \in Readers, FeedStep(r)
  PROVE  TypeOK'
<1> USE DEF storage, managers, contexts, streams
<1>1. CASE Replay(r)
  BY <1>1, RangeTail DEF Replay, TypeOK
<1>2. CASE Skip(r)
  BY <1>2, RangeTail DEF Skip, Following, TypeOK
<1>3. CASE Forward(r)
  <2>1. /\ live' \in [Readers -> Seq(Update)] /\ sent' \in [Readers -> Seq(Update)]
    BY <1>3, RangeTail DEF Forward, Following, TypeOK
  <2>2. /\ gpc' \in [Readers -> {"off", "on", "done"}]
        /\ entry' \in [Readers -> BOOLEAN] /\ shut' \in [Readers -> BOOLEAN]
    BY <1>3 DEF Forward, Unsubscribe, TypeOK
  <2> QED
    BY <1>3, <2>1, <2>2 DEF Forward, TypeOK
<1>4. CASE Drained(r)
  BY <1>4 DEF Drained, TypeOK
<1> QED
  BY <1>1, <1>2, <1>3, <1>4 DEF FeedStep

-----------------------------------------------------------------------------
(***************************************************************************)
(* The updates and their writers                                           *)
(***************************************************************************)

\* The logs of the managers made so far stay; another may be loaded.
LogsKept ==
  /\ made \subseteq made'
  /\ \A m \in Managers : log'[m] = log[m] \/ (m \notin made /\ log'[m] = stored)

\* A step that adds no update keeps what is said of updates, whoever takes it.
LEMMA QuietWriter ==
  ASSUME TypeOK, WriterInv, LogsKept, UNCHANGED <<issued, stored, pushed>>,
         Referred',
         \A d \in Contexts : cpc'[d] \in {"save", "log", "push"} =>
            cpc'[d] = cpc[d] /\ upd'[d] = upd[d] /\ trace'[d] = trace[d]
  PROVE  WriterInv'
<1> USE DEF WriterInv
<1>1. Numbered'
  BY DEF Numbered
<1>2. Recorded'
  BY DEF Recorded, LogsKept, Ascending, Range
<1>3. AddingInv'
  <2> SUFFICES ASSUME NEW d \in Contexts, cpc'[d] \in {"save", "log", "push"}
               PROVE  Adding(d)'
    BY DEF AddingInv
  <2>1. Adding(d) /\ cpc'[d] = cpc[d] /\ upd'[d] = upd[d] /\ trace'[d] = trace[d]
    BY DEF AddingInv
  <2>2. trace[d] \in made' /\ log'[trace[d]] = log[trace[d]]
    BY <2>1 DEF Adding, LogsKept, TypeOK
  <2> QED
    BY <2>1, <2>2 DEF Adding, Range
<1> QED
  BY <1>1, <1>2, <1>3

\* A new update is later than all others, and nowhere yet.
LEMMA BeginWriter ==
  ASSUME TypeOK, WriterInv, NEW c \in Contexts, NEW tag \in Stages, NEW at \in Nat,
         NEW k \in CtxSteps, Begin(c, tag, at, k), UNCHANGED <<stored, log, pushed>>,
         made \subseteq made', trace'[c] \in made', made' \subseteq Managers,
         \A d \in Contexts \ {c} : trace'[d] = trace[d],
         Referred'
  PROVE  WriterInv'
<1> DEFINE u == [id |-> Cardinality(issued) + 1, by |-> c, tag |-> tag, at |-> at]
<1> USE DEF WriterInv
<1>1. /\ upd' = [upd EXCEPT ![c] = u] /\ issued' = issued \cup {u}
      /\ cpc' = [cpc EXCEPT ![c] = "save"]
  BY DEF Begin
<1>2. /\ IsFiniteSet(issued) /\ Cardinality(issued) \in Nat
      /\ \A v \in issued : v.id \in Nat /\ v.id < u.id
  BY FS_CardinalityType DEF Numbered, TypeOK, Update
<1>3. u \notin issued
  BY <1>2
<1>4. IsFiniteSet(issued') /\ Cardinality(issued') = Cardinality(issued) + 1
  BY <1>1, <1>2, <1>3, FS_AddElement
<1>5. Numbered'
  <2>1. \A v \in issued' : v.id <= Cardinality(issued')
    <3> SUFFICES ASSUME NEW v \in issued' PROVE v.id <= Cardinality(issued')
      OBVIOUS
    <3>1. CASE v \in issued
      BY <1>2, <1>4, <3>1
    <3>2. CASE v = u
      BY <1>2, <1>4, <3>2
    <3> QED
      BY <1>1, <3>1, <3>2
  <2>2. \A v, w \in issued' : v.id = w.id => v = w
    <3> SUFFICES ASSUME NEW v \in issued', NEW w \in issued', v.id = w.id
                 PROVE  v = w
      OBVIOUS
    <3>1. CASE v \in issued /\ w \in issued
      BY <3>1 DEF Numbered
    <3>2. CASE v \in issued /\ w = u
      BY <1>2, <3>2
    <3>3. CASE v = u /\ w \in issued
      BY <1>2, <3>3
    <3> QED
      BY <1>1, <3>1, <3>2, <3>3
  <2> QED
    BY <1>4, <2>1, <2>2 DEF Numbered
<1>6. Recorded'
  BY <1>1 DEF Recorded, Ascending, Range
<1>7. AddingInv'
  <2> SUFFICES ASSUME NEW d \in Contexts, cpc'[d] \in {"save", "log", "push"}
               PROVE  Adding(d)'
    BY DEF AddingInv
  <2>1. CASE d = c
    <3>1. upd'[d] = u /\ cpc'[d] = "save" /\ u.by = c
      BY <1>1, <2>1 DEF TypeOK
    <3>2. \A v \in issued' : v.id <= u.id
      <4> SUFFICES ASSUME NEW v \in issued' PROVE v.id <= u.id
        OBVIOUS
      <4>1. CASE v \in issued
        BY <1>2, <4>1
      <4>2. CASE v = u
        BY <1>2, <4>2
      <4> QED
        BY <1>1, <4>1, <4>2
    <3>3. u \notin Range(stored') /\ u \notin pushed' /\ u \in issued'
          /\ \A m \in Managers : u \notin Range(log'[m])
      BY <1>1, <1>3 DEF Recorded
    <3> QED
      BY <2>1, <3>1, <3>2, <3>3 DEF Adding
  <2>2. CASE d # c
    <3>1. upd'[d] = upd[d] /\ cpc'[d] = cpc[d] /\ trace'[d] = trace[d]
      BY <1>1, <2>2 DEF TypeOK
    <3>2. Adding(d)
      BY <3>1 DEF AddingInv
    <3>3. \A v \in issued' : v.by = d => v \in issued
      BY <1>1, <2>2
    <3> QED
      BY <1>1, <3>1, <3>2, <3>3 DEF Adding
  <2> QED
    BY <2>1, <2>2
<1> QED
  BY <1>5, <1>6, <1>7

LEMMA LoadKeeps ==
  ASSUME TypeOK, LoadManager
  PROVE  LogsKept /\ Fresh \in made' /\ Fresh \in Managers
<1>1. Fresh \in Managers /\ Fresh \notin made
  BY FreshOne DEF LoadManager
<1> QED
  BY <1>1 DEF LoadManager, LogsKept, TypeOK

LEMMA OpenWriter ==
  ASSUME TypeOK, WriterInv, NEW c \in Contexts, OpenStep(c)
  PROVE  WriterInv'
<1> USE DEF storage, managers, contexts, streams, Goto, Loaded
<1>0. Referred
  BY DEF WriterInv
<1>1. CASE Open(c)
  <2>1. LogsKept
    BY <1>1 DEF Open, LogsKept
  <2>2. Referred'
    BY <1>0, <1>1 DEF Open, Working, Referred, TypeOK
  <2>3. \A d \in Contexts : cpc'[d] \in {"save", "log", "push"} =>
            cpc'[d] = cpc[d] /\ trace'[d] = trace[d]
    BY <1>1 DEF Open, Working, TypeOK
  <2> QED
    BY <1>1, <2>1, <2>2, <2>3, QuietWriter DEF Open
<1>2. CASE New(c)
  <2>1. LogsKept
    BY <1>2 DEF New, LogsKept
  <2>2. Referred'
    BY <1>0, <1>2 DEF New, Referred, TypeOK
  <2>3. \A d \in Contexts : cpc'[d] \in {"save", "log", "push"} => cpc'[d] = cpc[d]
    BY <1>2 DEF New, TypeOK
  <2> QED
    BY <1>2, <2>1, <2>2, <2>3, QuietWriter DEF New
<1>3. CASE Exists(c)
  <2>1. CASE Loaded \/ storedInfo # "none"
    <3>1. /\ cpc' = [cpc EXCEPT ![c] = "load"]
          /\ UNCHANGED <<issued, log, made, trace, upd, then, stored, pushed, registry>>
      BY <1>3, <2>1 DEF Exists
    <3>2. LogsKept
      BY <3>1 DEF LogsKept
    <3>3. Referred'
      BY <1>0, <3>1 DEF Referred, TypeOK
    <3>4. \A d \in Contexts : cpc'[d] \in {"save", "log", "push"} => cpc'[d] = cpc[d]
      BY <3>1 DEF TypeOK
    <3> QED
      BY <3>1, <3>2, <3>3, <3>4, QuietWriter
  <2>2. CASE ~(Loaded \/ storedInfo # "none") /\ stored # <<>>
    <3>1. /\ LoadManager /\ UNCHANGED <<issued, upd, registry, stored, pushed>>
          /\ trace' = [trace EXCEPT ![c] = Fresh]
          /\ then' = [then EXCEPT ![c] = "info"]
          /\ cpc' = [cpc EXCEPT ![c] = "register"]
      BY <1>3, <2>2 DEF Exists
    <3>2. LogsKept /\ Fresh \in made' /\ made \subseteq made'
      BY <3>1, LoadKeeps DEF LogsKept
    <3>3. Referred'
      BY <1>0, <3>1, <3>2 DEF Referred, TypeOK
    <3>4. \A d \in Contexts : cpc'[d] \in {"save", "log", "push"} =>
            cpc'[d] = cpc[d] /\ trace'[d] = trace[d]
      BY <3>1 DEF TypeOK
    <3> QED
      BY <3>1, <3>2, <3>3, <3>4, QuietWriter
  <2>3. CASE ~(Loaded \/ storedInfo # "none") /\ stored = <<>>
    <3>1. /\ made # Managers /\ made' = made \cup {Fresh}
          /\ trace' = [trace EXCEPT ![c] = Fresh]
          /\ UNCHANGED <<log, registry, stored, pushed>>
      BY <1>3, <2>3 DEF Exists
    <3>2. PICK at \in 0..MaxClock : Now(at) /\ Begin(c, "init", at, "register")
      BY <1>3, <2>3 DEF Exists
    <3>3. "init" \in Stages /\ "register" \in CtxSteps /\ at \in Nat
      BY <3>2, NowType DEF Stages, CtxSteps
    <3>4. made' \subseteq Managers /\ Fresh \in made' /\ Fresh \in Managers
      BY <3>1, FreshOne DEF TypeOK
    <3>5. Referred'
      BY <1>0, <3>1, <3>2, <3>4 DEF Referred, TypeOK, Begin
    <3>6. trace'[c] \in made' /\ \A d \in Contexts \ {c} : trace'[d] = trace[d]
      BY <3>1, <3>4 DEF TypeOK
    <3> QED
      BY <3>1, <3>2, <3>3, <3>4, <3>5, <3>6, BeginWriter
  <2> QED
    BY <2>1, <2>2, <2>3
<1>4. CASE LoadFromStorage(c)
  <2>1. CASE ~Loaded /\ storedInfo # "none"
    <3>1. /\ LoadManager /\ UNCHANGED <<issued, upd, registry, stored, pushed>>
          /\ trace' = [trace EXCEPT ![c] = Fresh]
          /\ then' = [then EXCEPT ![c] = "idle"]
          /\ cpc' = [cpc EXCEPT ![c] = "register"]
      BY <1>4, <2>1 DEF LoadFromStorage
    <3>2. LogsKept /\ Fresh \in made' /\ made \subseteq made'
      BY <3>1, LoadKeeps DEF LogsKept
    <3>3. Referred'
      BY <1>0, <3>1, <3>2 DEF Referred, TypeOK
    <3>4. \A d \in Contexts : cpc'[d] \in {"save", "log", "push"} =>
            cpc'[d] = cpc[d] /\ trace'[d] = trace[d]
      BY <3>1 DEF TypeOK
    <3> QED
      BY <3>1, <3>2, <3>3, <3>4, QuietWriter
  <2>2. CASE ~(~Loaded /\ storedInfo # "none")
    <3>1. /\ cpc' = [cpc EXCEPT ![c] = "idle"]
          /\ UNCHANGED <<issued, log, made, upd, then, stored, pushed, registry>>
          /\ \/ Loaded /\ trace' = [trace EXCEPT ![c] = registry]
             \/ UNCHANGED trace
      BY <1>4, <2>2 DEF LoadFromStorage
    <3>2. LogsKept
      BY <3>1 DEF LogsKept
    <3>3. Referred'
      BY <1>0, <3>1 DEF Referred, TypeOK
    <3>4. \A d \in Contexts : cpc'[d] \in {"save", "log", "push"} =>
            cpc'[d] = cpc[d] /\ trace'[d] = trace[d]
      BY <3>1 DEF TypeOK
    <3> QED
      BY <3>1, <3>2, <3>3, <3>4, QuietWriter
  <2> QED
    BY <2>1, <2>2
<1>5. CASE Register(c)
  <2>1. LogsKept
    BY <1>5 DEF Register, LogsKept
  <2>2. cpc'[c] \notin {"save", "log", "push", "cancelled"} \/ cpc'[c] = then[c]
    BY <1>5 DEF Register, TypeOK
  <2>3. Referred'
    BY <1>0, <1>5, <2>2 DEF Register, Referred, TypeOK
  <2>4. \A d \in Contexts : cpc'[d] \in {"save", "log", "push"} => cpc'[d] = cpc[d]
    BY <1>0, <1>5 DEF Register, Referred, TypeOK
  <2> QED
    BY <1>5, <2>1, <2>3, <2>4, QuietWriter DEF Register
<1>6. CASE SaveInfo(c)
  <2>1. LogsKept
    BY <1>6 DEF SaveInfo, LogsKept
  <2>2. Referred'
    BY <1>0, <1>6 DEF SaveInfo, Referred, TypeOK
  <2>3. \A d \in Contexts : cpc'[d] \in {"save", "log", "push"} => cpc'[d] = cpc[d]
    BY <1>6 DEF SaveInfo, TypeOK
  <2> QED
    BY <1>6, <2>1, <2>2, <2>3, QuietWriter DEF SaveInfo
<1> QED
  BY <1>1, <1>2, <1>3, <1>4, <1>5, <1>6 DEF OpenStep

\* Saving and logging put the update a context is adding in one more place.
LEMMA UpdateWriter ==
  ASSUME TypeOK, WriterInv, NEW c \in Contexts,
         UpdateStep(c) \/ \E tag \in Tags[c] : Emit(c, tag)
  PROVE  WriterInv'
<1> USE DEF storage, managers, contexts, streams, Goto
<1> USE DEF WriterInv
<1>1. CASE Save(c)
  <2>1. /\ cpc[c] = "save" /\ cpc' = [cpc EXCEPT ![c] = "log"]
        /\ stored' = Append(stored, upd[c])
        /\ UNCHANGED <<registry, issued, pushed, log, made, trace, upd, then>>
    BY <1>1 DEF Save
  <2>2. Adding(c) /\ upd[c] \in Update /\ stored \in Seq(Update)
    BY <2>1 DEF AddingInv, TypeOK
  <2>3. Range(stored') = Range(stored) \cup {upd[c]}
    BY <2>1, <2>2, RangeAppend
  <2>4. \A v \in Range(stored) : v.by = upd[c].by => v.id < upd[c].id
    <3> SUFFICES ASSUME NEW v \in Range(stored), v.by = upd[c].by
                 PROVE  v.id < upd[c].id
      OBVIOUS
    <3>1. v \in issued /\ v # upd[c] /\ v.id <= upd[c].id /\ v.id \in Nat /\ upd[c].id \in Nat
      BY <2>1, <2>2 DEF Adding, Recorded, TypeOK, Update
    <3>2. v.id # upd[c].id
      BY <3>1, <2>2 DEF Numbered, Adding
    <3> QED
      BY <3>1, <3>2
  <2>5. Recorded'
    <3>1. Ascending(stored')
      BY <2>1, <2>2, <2>4, AscendingAppend DEF Recorded
    <3>2. Range(stored') \subseteq issued'
      BY <2>1, <2>2, <2>3 DEF Recorded, Adding
    <3>3. \A m \in Managers : Ascending(log'[m]) /\ Range(log'[m]) \subseteq issued'
      BY <2>1 DEF Recorded
    <3> QED
      BY <2>1, <3>1, <3>2, <3>3, Zenon DEF Recorded, Ascending, Range
  <2>6. Referred'
    BY <2>1 DEF Referred, TypeOK
  <2>7. AddingInv'
    <3> SUFFICES ASSUME NEW d \in Contexts, cpc'[d] \in {"save", "log", "push"}
                 PROVE  Adding(d)'
      BY DEF AddingInv
    <3>1. Adding(d) /\ (d # c => upd[d] # upd[c] /\ cpc'[d] = cpc[d])
      BY <2>1, <2>2 DEF AddingInv, Adding, TypeOK
    <3>2. d = c => cpc'[d] = "log"
      BY <2>1 DEF TypeOK
    <3> QED
      BY <2>1, <2>3, <3>1, <3>2 DEF Adding
  <2>8. Numbered'
    BY <2>1 DEF Numbered
  <2> QED
    BY <2>5, <2>6, <2>7, <2>8
<1>2. CASE Log(c)
  <2>1. /\ cpc[c] = "log" /\ cpc' = [cpc EXCEPT ![c] = "push"]
        /\ log' = [log EXCEPT ![trace[c]] = Append(@, upd[c])]
        /\ UNCHANGED <<registry, issued, pushed, stored, made, trace, upd, then>>
    BY <1>2 DEF Log
  <2> DEFINE n == trace[c]
  <2>2. Adding(c) /\ upd[c] \in Update /\ n \in Managers /\ log[n] \in Seq(Update)
    BY <2>1 DEF AddingInv, Adding, TypeOK
  <2>3. /\ log'[n] = Append(log[n], upd[c])
        /\ \A m \in Managers \ {n} : log'[m] = log[m]
    BY <2>1, <2>2 DEF TypeOK
  <2>4. Range(log'[n]) = Range(log[n]) \cup {upd[c]}
    BY <2>2, <2>3, RangeAppend
  <2>5. \A v \in Range(log[n]) : v.by = upd[c].by => v.id < upd[c].id
    <3> SUFFICES ASSUME NEW v \in Range(log[n]), v.by = upd[c].by
                 PROVE  v.id < upd[c].id
      OBVIOUS
    <3>1. v \in issued /\ v # upd[c] /\ v.id <= upd[c].id /\ v.id \in Nat /\ upd[c].id \in Nat
      BY <2>1, <2>2 DEF Adding, Recorded, TypeOK, Update
    <3>2. v.id # upd[c].id
      BY <3>1, <2>2 DEF Numbered, Adding
    <3> QED
      BY <3>1, <3>2
  <2>6. Recorded'
    <3>1. Ascending(log'[n])
      BY <2>2, <2>3, <2>5, AscendingAppend DEF Recorded
    <3>2. Range(log'[n]) \subseteq issued'
      BY <2>1, <2>2, <2>4 DEF Recorded, Adding
    <3>3. \A m \in Managers : Ascending(log'[m]) /\ Range(log'[m]) \subseteq issued'
      BY <2>1, <2>3, <3>1, <3>2 DEF Recorded
    <3>4. Ascending(stored') /\ Range(stored') \subseteq issued' /\ pushed' \subseteq issued'
      BY <2>1 DEF Recorded
    <3> QED
      BY <3>3, <3>4, Zenon DEF Recorded, Ascending, Range
  <2>7. Referred'
    BY <2>1 DEF Referred, TypeOK
  <2>8. AddingInv'
    <3> SUFFICES ASSUME NEW d \in Contexts, cpc'[d] \in {"save", "log", "push"}
                 PROVE  Adding(d)'
      BY DEF AddingInv
    <3>1. Adding(d) /\ (d # c => upd[d] # upd[c] /\ cpc'[d] = cpc[d]) /\ trace[d] \in Managers
      BY <2>1, <2>2 DEF AddingInv, Adding, TypeOK
    <3>2. d = c => cpc'[d] = "push"
      BY <2>1 DEF TypeOK
    <3>3. Range(log'[trace[d]]) = Range(log[trace[d]]) \/ (trace[d] = n)
      BY <2>3, <3>1
    <3> QED
      BY <2>1, <2>4, <3>1, <3>2, <3>3 DEF Adding
  <2>9. Numbered'
    BY <2>1 DEF Numbered
  <2> QED
    BY <2>6, <2>7, <2>8, <2>9
<1>3. CASE Push(c)
  <2>1. /\ cpc[c] = "push" /\ cpc' = [cpc EXCEPT ![c] = then[c]]
        /\ pushed' = pushed \cup {upd[c]}
        /\ UNCHANGED <<registry, issued, stored, log, made, trace, upd, then>>
    BY <1>3 DEF Push
  <2>2. Adding(c)
    BY <2>1 DEF AddingInv
  <2>3. Recorded'
    BY <2>1, <2>2 DEF Recorded, Adding, Ascending, Range
  <2>4. Referred'
    BY <2>1 DEF Referred, TypeOK
  <2>5. AddingInv'
    <3> SUFFICES ASSUME NEW d \in Contexts, cpc'[d] \in {"save", "log", "push"}
                 PROVE  Adding(d)'
      BY DEF AddingInv
    <3>1. d # c /\ cpc'[d] = cpc[d]
      BY <2>1 DEF Referred, TypeOK
    <3>2. Adding(d) /\ upd[d] # upd[c]
      BY <2>2, <3>1 DEF AddingInv, Adding
    <3> QED
      BY <2>1, <3>1, <3>2 DEF Adding
  <2>6. Numbered'
    BY <2>1 DEF Numbered
  <2> QED
    BY <2>3, <2>4, <2>5, <2>6
<1>4. CASE \E tag \in Tags[c] : Emit(c, tag)
  <2>1. PICK tag \in Tags[c] : Emit(c, tag)
    BY <1>4
  <2>2. PICK at \in 0..MaxClock : Now(at) /\ Begin(c, tag, at, "idle")
    BY <2>1 DEF Emit
  <2>3. tag \in Stages /\ "idle" \in CtxSteps /\ at \in Nat
    BY <2>2, NowType DEF Stages, CtxSteps
  <2>4. /\ UNCHANGED <<stored, log, pushed, made, trace, registry>>
        /\ trace[c] # NoManager /\ cpc[c] = "idle"
    BY <2>1 DEF Emit, Working
  <2>5. Referred' /\ trace'[c] \in made'
    BY <2>2, <2>4 DEF Referred, TypeOK, Begin
  <2> QED
    BY <2>2, <2>3, <2>4, <2>5, BeginWriter DEF TypeOK
<1> QED
  BY <1>1, <1>2, <1>3, <1>4 DEF UpdateStep

LEMMA CompleteWriter ==
  ASSUME TypeOK, WriterInv, NEW c \in Contexts, NEW k \in {"idle", "release"},
         MarkComplete(c, k)
  PROVE  WriterInv'
<1> USE DEF storage, managers, contexts, streams, Goto
<1> USE DEF WriterInv
<1>0. /\ UNCHANGED <<registry, stored, pushed, log, made, trace>>
      /\ cpc[c] = "idle" /\ trace[c] # NoManager
  BY DEF MarkComplete, Working
<1>1. CASE trace[c] \in completed
  <2>1. cpc' = [cpc EXCEPT ![c] = k] /\ UNCHANGED <<issued, upd, then>>
    BY <1>1 DEF MarkComplete
  <2>2. LogsKept
    BY <1>0 DEF LogsKept
  <2>3. Referred'
    BY <1>0, <2>1 DEF Referred, TypeOK
  <2>4. \A d \in Contexts : cpc'[d] \in {"save", "log", "push"} => cpc'[d] = cpc[d]
    BY <2>1 DEF TypeOK
  <2> QED
    BY <1>0, <2>1, <2>2, <2>3, <2>4, QuietWriter
<1>2. CASE trace[c] \notin completed
  <2>1. PICK at \in 0..MaxClock : Now(at) /\ Begin(c, "complete", at, k)
    BY <1>2 DEF MarkComplete
  <2>2. "complete" \in Stages /\ k \in CtxSteps /\ at \in Nat
    BY <2>1, NowType DEF Stages, CtxSteps
  <2>3. Referred' /\ trace'[c] \in made'
    BY <1>0, <2>1 DEF Referred, TypeOK, Begin
  <2> QED
    BY <1>0, <2>1, <2>2, <2>3, BeginWriter DEF TypeOK
<1> QED
  BY <1>1, <1>2

LEMMA EndWriter ==
  ASSUME TypeOK, WriterInv, NEW c \in Contexts, EndStep(c) \/ MarkCancelled(c)
  PROVE  WriterInv'
<1> USE DEF storage, managers, contexts, streams, Goto, Loaded
<1> USE DEF WriterInv
<1>1. CASE ReleaseTrace(c)
  <2>1. /\ registry' = NoManager /\ trace' = [trace EXCEPT ![c] = NoManager]
        /\ cpc' = [cpc EXCEPT ![c] = "done"] /\ then' = [then EXCEPT ![c] = "idle"]
        /\ UNCHANGED <<stored, issued, pushed, log, made, upd>>
    BY <1>1 DEF ReleaseTrace
  <2>2. LogsKept
    BY <2>1 DEF LogsKept
  <2>3. Referred'
    BY <2>1 DEF Referred, TypeOK
  <2>4. \A d \in Contexts : cpc'[d] \in {"save", "log", "push"} =>
          cpc'[d] = cpc[d] /\ trace'[d] = trace[d]
    BY <2>1 DEF TypeOK
  <2> QED
    BY <2>1, <2>2, <2>3, <2>4, QuietWriter
<1>2. CASE MarkCancelledEnds(c)
  <2>0. /\ UNCHANGED <<registry, stored, pushed, log, made, trace>>
        /\ trace[c] \in made
    BY <1>2 DEF MarkCancelledEnds, Referred
  <2>1. CASE storedInfo # "none"
    <3>1. Begin(c, "complete", upd[c].at, "release")
      BY <1>2, <2>1 DEF MarkCancelledEnds
    <3>2. upd[c].at \in Nat /\ "complete" \in Stages /\ "release" \in CtxSteps
      BY DEF TypeOK, Update, Stages, CtxSteps
    <3>3. Referred'
      BY <2>0, <3>1 DEF Referred, TypeOK, Begin
    <3> QED
      BY <2>0, <3>1, <3>2, <3>3, BeginWriter DEF TypeOK
  <2>2. CASE storedInfo = "none"
    <3>1. cpc' = [cpc EXCEPT ![c] = "done"] /\ UNCHANGED <<issued, upd, then>>
      BY <1>2, <2>2 DEF MarkCancelledEnds
    <3>2. LogsKept
      BY <2>0 DEF LogsKept
    <3>3. Referred'
      BY <2>0, <3>1 DEF Referred, TypeOK
    <3>4. \A d \in Contexts : cpc'[d] \in {"save", "log", "push"} => cpc'[d] = cpc[d]
      BY <3>1 DEF TypeOK
    <3> QED
      BY <2>0, <3>1, <3>2, <3>3, <3>4, QuietWriter
  <2> QED
    BY <2>1, <2>2
<1>3. CASE MarkCancelled(c)
  <2>0. /\ UNCHANGED <<registry, stored, pushed, log, made>>
        /\ cpc[c] = "idle" /\ trace[c] # NoManager
    BY <1>3 DEF MarkCancelled, Working
  <2>1. LogsKept
    BY <2>0 DEF LogsKept
  <2>2. CASE ~(Loaded /\ rooted)
    <3>1. cpc' = [cpc EXCEPT ![c] = "release"] /\ UNCHANGED <<issued, upd, then, trace>>
      BY <1>3, <2>2 DEF MarkCancelled
    <3>2. Referred'
      BY <2>0, <3>1 DEF Referred, TypeOK
    <3>3. \A d \in Contexts : cpc'[d] \in {"save", "log", "push"} => cpc'[d] = cpc[d]
      BY <3>1 DEF TypeOK
    <3> QED
      BY <2>0, <2>1, <3>1, <3>2, <3>3, QuietWriter
  <2>3. CASE Loaded /\ rooted
    <3>1. /\ trace' = [trace EXCEPT ![c] = registry]
          /\ \E at \in 0..MaxClock :
               /\ Now(at)
               /\ \/ /\ Goto(c, "cancelled")
                     /\ upd' = [upd EXCEPT ![c].at = at]
                     /\ UNCHANGED <<issued, then>>
                  \/ \E tag \in Tags[c] : Begin(c, tag, at, "cancelled")
      BY <1>3, <2>3 DEF MarkCancelled
    <3>2. trace'[c] \in made' /\ \A d \in Contexts \ {c} : trace'[d] = trace[d]
      BY <2>0, <2>3, <3>1 DEF Referred, TypeOK
    <3>3. CASE \E at \in 0..MaxClock : \E tag \in Tags[c] :
                 Now(at) /\ Begin(c, tag, at, "cancelled")
      <4>1. PICK at \in 0..MaxClock, tag \in Tags[c] :
              Now(at) /\ Begin(c, tag, at, "cancelled")
        BY <3>3
      <4>2. tag \in Stages /\ "cancelled" \in CtxSteps /\ at \in Nat
        BY <4>1, NowType DEF Stages, CtxSteps
      <4>3. Referred'
        BY <2>0, <3>2, <4>1 DEF Referred, TypeOK, Begin
      <4> QED
        BY <2>0, <3>2, <4>1, <4>2, <4>3, BeginWriter DEF TypeOK
    <3>4. CASE /\ cpc' = [cpc EXCEPT ![c] = "cancelled"]
               /\ UNCHANGED <<issued, then>>
               /\ \A d \in Contexts \ {c} : upd'[d] = upd[d]
      <4>1. Referred'
        BY <2>0, <3>2, <3>4 DEF Referred, TypeOK
      <4>2. \A d \in Contexts : cpc'[d] \in {"save", "log", "push"} =>
              d # c /\ cpc'[d] = cpc[d]
        BY <3>4 DEF TypeOK
      <4> QED
        BY <2>0, <2>1, <3>2, <3>4, <4>1, <4>2, QuietWriter
    <3> QED
      BY <3>1, <3>3, <3>4 DEF TypeOK
  <2> QED
    BY <2>2, <2>3
<1> QED
  BY <1>1, <1>2, <1>3 DEF EndStep

\* A stream adds nothing: at most it loads, registers or releases a manager.
LEMMA ReaderWriter ==
  ASSUME TypeOK, WriterInv, NEW r \in Readers, Placed(r),
         Request(r) \/ RequestStep(r) \/ FeedStep(r) \/ ClientGone(r)
  PROVE  /\ WriterInv' /\ LogsKept
         /\ UNCHANGED <<issued, pushed, stored>>
<1> USE DEF storage, managers, contexts, streams, ReqGoto, Loaded
<1> USE DEF WriterInv
<1>1. CASE ReqLoadStored(r)
  <2>1. /\ UNCHANGED <<issued, pushed, stored, cpc, trace, upd, then, registry>>
        /\ UNCHANGED <<log, made>> \/ LoadManager
    BY <1>1 DEF ReqLoadStored
  <2>2. LogsKept
    BY <2>1, LoadKeeps DEF LogsKept
  <2>3. Referred'
    BY <2>1, <2>2 DEF Referred, LogsKept
  <2> QED
    BY <2>1, <2>2, <2>3, QuietWriter
<1>2. CASE ~ReqLoadStored(r)
  <2>1. /\ UNCHANGED <<issued, pushed, stored, cpc, trace, upd, then, log, made>>
        /\ \/ registry' \in {registry, NoManager}
           \/ hpc[r] = "register" /\ registry' = mgr[r]
    BY <1>2 DEF Request, RequestStep, FeedStep, ClientGone, ReqLoad,
       ReqRegister, Subscribe, Snapshot, Take, Cancel, ReqRelease, Replay,
       Skip, Forward, Drained, TypeOK
  <2>2. LogsKept
    BY <2>1 DEF LogsKept
  <2>3. Referred'
    BY <2>1 DEF Referred, Placed
  <2> QED
    BY <2>1, <2>2, <2>3, QuietWriter
<1> QED
  BY <1>1, <1>2

-----------------------------------------------------------------------------
(***************************************************************************)
(* The streams                                                             *)
(***************************************************************************)

\* A log that is referred to only grows, by an update not pushed yet.
LogsGrow ==
  /\ made \subseteq made'
  /\ \A m \in made : \/ Range(log'[m]) = Range(log[m])
                     \/ \E u \in issued \ pushed : Range(log'[m]) = Range(log[m]) \cup {u}

\* Sourced and Matched of the next state, spelled out.
LEMMA SourcedNext ==
  ASSUME NEW r \in Readers,
         Ascending(live'[r]), Range(live'[r]) \subseteq pushed', Ascending(hist'[r]),
         \A v \in Range(hist'[r]) : v \in Range(log'[mgr'[r]]),
         \A v \in Range(sent'[r]) : v \in pushed' \/ v \in Range(log'[mgr'[r]]),
         \A v \in Range(sent'[r]), w \in Range(hist'[r]) : v.by = w.by => v.id < w.id
  PROVE  Sourced(r)'
  BY Zenon DEF Sourced, Ascending, Range

LEMMA MatchedNext ==
  ASSUME NEW r \in Readers,
         \A k \in seen'[r] : \E v \in Taken(r)' : Key(v) = k,
         \A u \in Taken(r)' :
           Unshared(u)' /\ (u \notin pushed' \/ u \in Range(live'[r])) => Key(u) \in seen'[r]
  PROVE  Matched(r)'
  BY Zenon DEF Matched, Key, Range

\* What a step that leaves the updates of stream r where they are keeps of it.
LEMMA StreamFrame ==
  ASSUME TypeOK, WriterInv, NEW r \in Readers, StreamInv(r), LogsGrow,
         issued \subseteq issued', UNCHANGED pushed,
         UNCHANGED <<live[r], hist[r], seen[r], sent[r], dropped[r]>>,
         Placed(r)',
         gpc'[r] # "off" => gpc[r] # "off" /\ mgr'[r] = mgr[r],
         gpc'[r] = "on" /\ entry'[r] => gpc[r] = "on" /\ entry[r]
  PROVE  StreamInv(r)'
<1> USE DEF StreamInv
<1>0. /\ Taken(r)' = Taken(r) /\ Where(r)' = Where(r)
      /\ \A u : Unshared(u)' => Unshared(u)
  BY UnsharedBefore DEF Taken, Where, Range
<1>1. Matched(r)'
  <2>1. \A u \in Taken(r) : Unshared(u)' /\ (u \notin pushed \/ u \in Range(live[r]))
            => Key(u) \in seen[r]
    BY <1>0 DEF Matched
  <2> QED
    BY <1>0, <2>1 DEF Matched, Key, Range
<1>2. Once(r)'
  BY <1>0 DEF Once
<1>3. CASE gpc'[r] = "off"
  <2>1. sent[r] = <<>> /\ hist[r] = <<>> /\ Taken(r) = {}
    BY <1>3 DEF Placed, Taken, Range
  <2>2. Sourced(r)'
    <3>1. Range(sent[r]) = {} /\ Range(hist[r]) = {}
      BY <2>1 DEF Range
    <3>2. Ascending(live[r]) /\ Range(live[r]) \subseteq pushed /\ Ascending(hist[r])
      BY DEF Sourced
    <3> QED
      BY <3>1, <3>2, SourcedNext
  <2>3. Seam(r)' /\ InOrder(r)' /\ Complete(r)'
    BY <1>0, <1>3, <2>1 DEF Seam, InOrder, Complete
  <2> QED
    BY <1>1, <1>2, <2>2, <2>3
<1>4. CASE gpc'[r] # "off"
  <2> DEFINE m == mgr[r]
  <2>1. /\ gpc[r] # "off" /\ mgr'[r] = m /\ m \in made
        /\ Range(log[m]) \subseteq Range(log'[m])
    BY <1>4 DEF Placed, LogsGrow
  <2>2. \/ Range(log'[m]) = Range(log[m])
        \/ \E u \in issued \ pushed : Range(log'[m]) = Range(log[m]) \cup {u}
    BY <2>1 DEF LogsGrow
  <2>3. Sourced(r)'
    <3>1. /\ \A v \in Range(hist[r]) : v \in Range(log'[m])
          /\ \A v \in Range(sent[r]) : v \in pushed \/ v \in Range(log'[m])
      BY <2>1 DEF Sourced
    <3> QED
      BY <2>1, <3>1, SourcedNext DEF Sourced
  <2>4. Complete(r)'
    <3> SUFFICES ASSUME gpc'[r] = "on", entry'[r],
                        NEW u \in pushed \cap Range(log'[m]), Unshared(u)'
                 PROVE  u \in Where(r)
      BY <1>0, <2>1 DEF Complete
    <3>1. u \in Range(log[m])
      BY <2>2
    <3> QED
      BY <1>0, <3>1 DEF Complete
  <2>5. \A v \in Taken(r) : v \in Range(log'[m]) => v \in Range(log[m])
    BY <2>2 DEF Taken, Sourced
  <2>6. \A v \in Range(live[r]) : v \in Range(log'[m]) => v \in Range(log[m])
    BY <2>2 DEF Sourced
  <2>7. Seam(r)'
    <3> SUFFICES ASSUME NEW v \in Taken(r), NEW u \in Range(live[r]),
                        u.by = v.by, {u, v} \subseteq Range(log'[m]),
                        Unshared(u)', Unshared(v)', Key(u) \notin seen[r]
                 PROVE  v.id < u.id
      BY <1>0, <2>1 DEF Seam, Range, Key
    <3> QED
      BY <1>0, <2>5, <2>6 DEF Seam
  <2>8. InOrder(r)'
    <3> SUFFICES ASSUME NEW i \in DOMAIN sent[r], NEW j \in DOMAIN sent[r],
                        i < j, sent[r][i].by = sent[r][j].by,
                        {sent[r][i], sent[r][j]} \subseteq Range(log'[m]),
                        Unshared(sent[r][i])', Unshared(sent[r][j])'
                 PROVE  sent[r][i].id < sent[r][j].id
      BY <1>0, <2>1 DEF InOrder
    <3>1. {sent[r][i], sent[r][j]} \subseteq Taken(r)
      BY DEF Taken, Range
    <3> QED
      BY <1>0, <2>5, <3>1 DEF InOrder
  <2> QED
    BY <1>1, <1>2, <2>3, <2>4, <2>7, <2>8
<1> QED
  BY <1>3, <1>4

LEMMA KeptGrow == ASSUME TypeOK, LogsKept PROVE LogsGrow
  BY DEF LogsKept, LogsGrow, TypeOK

LEMMA BeginGrows ==
  ASSUME NEW c, NEW tag, NEW at, NEW k, Begin(c, tag, at, k)
  PROVE  issued \subseteq issued'
  BY DEF Begin

\* The steps of a context but the push leave the streams alone.
LEMMA ContextGrows ==
  ASSUME TypeOK, WriterInv, NEW c \in Contexts,
         \/ OpenStep(c) \/ Save(c) \/ Log(c) \/ EndStep(c) \/ MarkCancelled(c)
         \/ \E tag \in Tags[c] : Emit(c, tag)
         \/ \E k \in {"idle", "release"} : MarkComplete(c, k)
  PROVE  LogsGrow /\ issued \subseteq issued' /\ UNCHANGED <<pushed, streams>>
<1> USE DEF storage, managers, contexts
<1>1. CASE OpenStep(c)
  <2>1. UNCHANGED <<pushed, streams>> /\ issued \subseteq issued'
    BY <1>1, BeginGrows DEF OpenStep, Open, New, Exists, LoadFromStorage, Register, SaveInfo
  <2>2. CASE LoadManager
    BY <2>1, <2>2, LoadKeeps, KeptGrow
  <2>3. CASE ~LoadManager
    <3>1. log' = log /\ made \subseteq made'
      BY <1>1, <2>3 DEF OpenStep, Open, New, Exists, LoadFromStorage, Register, SaveInfo
    <3> QED
      BY <2>1, <3>1 DEF LogsGrow
  <2> QED
    BY <2>2, <2>3
<1>2. CASE Log(c)
  <2>1. /\ cpc[c] = "log" /\ UNCHANGED <<made, issued, pushed, streams>>
        /\ log' = [log EXCEPT ![trace[c]] = Append(@, upd[c])]
    BY <1>2 DEF Log
  <2>2. Adding(c) /\ upd[c] \in Update /\ trace[c] \in Managers
        /\ log[trace[c]] \in Seq(Update)
    BY <2>1 DEF WriterInv, AddingInv, Adding, TypeOK
  <2>3. /\ log'[trace[c]] = Append(log[trace[c]], upd[c])
        /\ \A m \in made \ {trace[c]} : log'[m] = log[m]
    BY <2>1, <2>2 DEF TypeOK
  <2>4. Range(log'[trace[c]]) = Range(log[trace[c]]) \cup {upd[c]}
    BY <2>2, <2>3, RangeAppend
  <2>5. upd[c] \in issued \ pushed
    BY <2>2 DEF Adding
  <2> QED
    BY <2>1, <2>3, <2>4, <2>5 DEF LogsGrow
<1>3. CASE ~OpenStep(c) /\ ~Log(c)
  <2>1. UNCHANGED <<log, made, pushed, streams>> /\ issued \subseteq issued'
    BY <1>3, BeginGrows DEF Save, EndStep, ReleaseTrace, MarkCancelledEnds,
       MarkCancelled, Emit, MarkComplete
  <2> QED
    BY <2>1 DEF LogsGrow
<1> QED
  BY <1>1, <1>2, <1>3

\* The handler of a stream, and the end of its goroutine.
LEMMA HandlerStream ==
  ASSUME TypeOK, WriterInv, NEW r \in Readers, StreamInv(r), LogsGrow,
         \/ Request(r) \/ ReqLoad(r) \/ ReqLoadStored(r) \/ ReqRegister(r)
         \/ Subscribe(r) \/ Take(r) \/ Cancel(r) \/ ReqRelease(r)
         \/ ClientGone(r) \/ Drained(r)
  PROVE  StreamInv(r)'
<1> USE DEF storage, managers, contexts, ReqGoto, Loaded
<1>1. /\ UNCHANGED <<issued, pushed, live, hist, seen, sent, dropped>>
      /\ made \subseteq made'
  BY DEF Request, ReqLoad, ReqLoadStored, ReqRegister, Subscribe, Take, Cancel,
     ReqRelease, ClientGone, Drained, LogsGrow
<1>2. Placed(r)
  BY DEF StreamInv
<1>3. /\ Placed(r)'
      /\ gpc'[r] # "off" => gpc[r] # "off" /\ mgr'[r] = mgr[r]
      /\ gpc'[r] = "on" /\ entry'[r] => gpc[r] = "on" /\ entry[r]
  <2>1. CASE Request(r)
    BY <1>1, <1>2, <2>1 DEF Request, Placed, TypeOK
  <2>2. CASE ReqLoad(r)
    BY <1>1, <1>2, <2>2 DEF ReqLoad, Placed, TypeOK, WriterInv, Referred
  <2>3. CASE ReqLoadStored(r)
    <3>1. CASE Loaded
      BY <1>1, <1>2, <2>3, <3>1 DEF ReqLoadStored, Placed, TypeOK, WriterInv, Referred
    <3>2. CASE ~Loaded
      <4>1. Fresh \in made'
        BY <2>3, <3>2, LoadKeeps DEF ReqLoadStored
      <4> QED
        BY <1>1, <1>2, <2>3, <3>2, <4>1 DEF ReqLoadStored, Placed, TypeOK
    <3> QED
      BY <3>1, <3>2
  <2>4. CASE ReqRegister(r)
    BY <1>1, <1>2, <2>4 DEF ReqRegister, Placed, TypeOK
  <2>5. CASE Subscribe(r)
    BY <1>1, <1>2, <2>5 DEF Subscribe, Placed, TypeOK
  <2>6. CASE Take(r)
    <3>1. hpc'[r] \in {"read", "leave"} /\ UNCHANGED <<gpc, mgr, entry, made>>
      BY <2>6 DEF Take, TypeOK
    <3> QED
      BY <1>1, <1>2, <3>1 DEF Placed
  <2>7. CASE Cancel(r)
    BY <1>1, <1>2, <2>7 DEF Cancel, Unsubscribe, Placed, TypeOK
  <2>8. CASE ReqRelease(r)
    BY <1>1, <1>2, <2>8 DEF ReqRelease, Placed, TypeOK
  <2>9. CASE ClientGone(r)
    BY <1>1, <1>2, <2>9 DEF ClientGone, Placed, TypeOK
  <2>10. CASE Drained(r)
    BY <1>1, <1>2, <2>10 DEF Drained, Placed, TypeOK
  <2> QED
    BY <2>1, <2>2, <2>3, <2>4, <2>5, <2>6, <2>7, <2>8, <2>9, <2>10
<1> QED
  BY <1>1, <1>3, StreamFrame

\* What was replayed or written was issued.
LEMMA TakenIssued ==
  ASSUME TypeOK, WriterInv, NEW r \in Readers, Placed(r), Sourced(r)
  PROVE  Taken(r) \subseteq issued
<1>1. CASE gpc[r] = "off"
  <2>1. Range(sent[r]) = {} /\ Range(hist[r]) = {}
    BY <1>1 DEF Placed, Range
  <2> QED
    BY <2>1 DEF Taken
<1>2. CASE gpc[r] # "off"
  <2>1. mgr[r] \in Managers
    BY <1>2 DEF Placed, TypeOK
  <2>2. Range(log[mgr[r]]) \subseteq issued /\ pushed \subseteq issued
    BY <2>1 DEF WriterInv, Recorded
  <2> QED
    BY <2>2 DEF Sourced, Taken
<1> QED
  BY <1>1, <1>2

\* A push adds the latest update of its context to the channels with room.
LEMMA PushStream ==
  ASSUME TypeOK, WriterInv, NEW r \in Readers, StreamInv(r),
         NEW c \in Contexts, Push(c)
  PROVE  StreamInv(r)'
<1> DEFINE w == upd[c]
<1> USE DEF storage, managers, StreamInv
<1>1. /\ cpc[c] = "push" /\ pushed' = pushed \cup {w}
      /\ UNCHANGED <<issued, log, made, hpc, gpc, mgr, entry, hist, seen, sent>>
  BY DEF Push
<1>2. live'[r] = IF Accepts(r) THEN Append(live[r], w) ELSE live[r]
  BY DEF Push
<1>3. dropped'[r] = IF Full(r) THEN dropped[r] \cup {w} ELSE dropped[r]
  BY DEF Push
<1>4. /\ w \in Update /\ w \in issued /\ w.by = c /\ w \notin pushed
      /\ live[r] \in Seq(Update)
      /\ \A v \in issued : v.by = c => v.id <= w.id
      /\ \A v \in issued : v.by = c /\ v # w => v.id < w.id
  <2>1. Adding(c) /\ w \in Update /\ live[r] \in Seq(Update)
    BY <1>1 DEF WriterInv, AddingInv, TypeOK
  <2>2. \A v \in issued : v.by = c /\ v # w => v.id < w.id
    <3> SUFFICES ASSUME NEW v \in issued, v.by = c, v # w PROVE v.id < w.id
      OBVIOUS
    <3>1. v.id <= w.id /\ v.id # w.id /\ v.id \in Nat /\ w.id \in Nat
      BY <2>1 DEF Adding, WriterInv, Numbered, TypeOK, Update
    <3> QED
      BY <3>1
  <2> QED
    BY <2>1, <2>2 DEF Adding
<1>5. Range(live'[r]) \subseteq Range(live[r]) \cup {w}
      /\ Range(live[r]) \subseteq Range(live'[r])
  BY <1>2, <1>4, RangeAppend
<1>6. entry[r] => w \in Range(live'[r]) \cup dropped'[r]
  <2>1. entry[r] => Accepts(r) \/ Full(r)
    BY <1>4, SizeAssumption DEF Accepts, Full
  <2> QED
    BY <1>2, <1>3, <1>4, <2>1, RangeAppend
<1>7. /\ Taken(r)' = Taken(r) /\ \A u : Unshared(u)' = Unshared(u)
      /\ Taken(r) \subseteq issued
  <2>1. Taken(r)' = Taken(r)
    BY <1>1 DEF Taken, Range
  <2>2. \A u : Unshared(u)' = Unshared(u)
    BY <1>1 DEF Unshared, Key
  <2>3. Taken(r) \subseteq issued
    BY TakenIssued
  <2> QED
    BY <2>1, <2>2, <2>3
<1>8. Placed(r)'
  BY <1>1 DEF Placed
<1>9. Sourced(r)'
  <2>1. Ascending(live'[r])
    <3>1. \A v \in Range(live[r]) : v.by = w.by => v.id < w.id
      BY <1>4 DEF Sourced, WriterInv, Recorded
    <3> QED
      BY <1>2, <1>4, <3>1, AscendingAppend DEF Sourced
  <2>2. Range(live'[r]) \subseteq pushed'
    BY <1>1, <1>5 DEF Sourced
  <2> QED
    BY <1>1, <2>1, <2>2, SourcedNext DEF Sourced
<1>10. Matched(r)'
  <2>1. \A u \in Taken(r) :
          Unshared(u) /\ (u \notin pushed' \/ u \in Range(live'[r])) => Key(u) \in seen[r]
    BY <1>1, <1>4, <1>5 DEF Matched
  <2>2. \A k \in seen[r] : \E v \in Taken(r) : Key(v) = k
    BY DEF Matched
  <2> QED
    BY <1>1, <1>7, <2>1, <2>2, MatchedNext
<1>11. Seam(r)'
  <2> SUFFICES ASSUME NEW v \in Taken(r), NEW u \in Range(live'[r]),
                      u.by = v.by, {u, v} \subseteq Range(log[mgr[r]]),
                      Unshared(u), Unshared(v), Key(u) \notin seen[r]
               PROVE  v.id < u.id
    BY <1>1, <1>7 DEF Seam, Range, Key
  <2>1. CASE u \in Range(live[r])
    BY <2>1 DEF Seam
  <2>2. CASE u = w
    <3>1. v # w
      BY <1>4, <2>2 DEF Matched
    <3> QED
      BY <1>4, <1>7, <2>2, <3>1
  <2> QED
    BY <1>5, <2>1, <2>2
<1>12. Complete(r)'
  <2> SUFFICES ASSUME gpc[r] = "on", entry[r],
                      NEW u \in pushed' \cap Range(log[mgr[r]]), Unshared(u)
               PROVE  u \in Where(r)'
    BY <1>1, <1>7 DEF Complete
  <2>1. Where(r) \subseteq Where(r)'
    <3>1. /\ Range(sent'[r]) = Range(sent[r]) /\ Range(hist'[r]) = Range(hist[r])
          /\ dropped[r] \subseteq dropped'[r]
      BY <1>1, <1>3
    <3>2. Where(r)' = Range(sent'[r]) \cup Range(hist'[r]) \cup Range(live'[r])
                        \cup dropped'[r]
      BY DEF Where, Range
    <3> QED
      BY <1>5, <3>1, <3>2 DEF Where
  <2>2. CASE u \in pushed
    BY <2>1, <2>2 DEF Complete
  <2>3. CASE u = w
    BY <1>6, <2>3 DEF Where, Range
  <2> QED
    BY <1>1, <2>2, <2>3
<1>13. Once(r)' /\ InOrder(r)'
  BY <1>1, <1>7 DEF Once, InOrder
<1> QED
  BY <1>8, <1>9, <1>10, <1>11, <1>12, <1>13

\* The snapshot holds every update of the log, in order.
LEMMA SnapshotStream ==
  ASSUME TypeOK, WriterInv, NEW r \in Readers, StreamInv(r), Snapshot(r)
  PROVE  StreamInv(r)'
<1> DEFINE m == mgr[r]
<1> USE DEF storage, managers, StreamInv
<1>1. /\ hpc[r] = "snapshot"
      /\ hist' = [hist EXCEPT ![r] = log[m]]
      /\ seen' = [seen EXCEPT ![r] = {Key(log[m][i]) : i \in DOMAIN log[m]}]
      /\ gpc' = [gpc EXCEPT ![r] = "on"]
      /\ hpc' = [hpc EXCEPT ![r] = "read"]
      /\ UNCHANGED <<issued, pushed, log, made, mgr, entry, live, sent, dropped>>
  BY DEF Snapshot, ReqGoto
<1>2. m \in made /\ m \in Managers /\ sent[r] = <<>> /\ sent'[r] = <<>>
  BY <1>1 DEF Placed, TypeOK
<1>3. /\ hist'[r] = log[m] /\ seen'[r] = {Key(log[m][i]) : i \in DOMAIN log[m]}
      /\ mgr'[r] = m /\ log'[m] = log[m] /\ live'[r] = live[r] /\ pushed' = pushed
  BY <1>1 DEF TypeOK
<1>4. /\ Taken(r)' = Range(log[m]) /\ Range(sent'[r]) = {}
      /\ \A u : Unshared(u)' = Unshared(u)
  BY <1>1, <1>2, <1>3 DEF Taken, Unshared, Key, Range
<1>5. /\ \A v \in Range(log[m]) : Key(v) \in seen'[r]
      /\ \A k \in seen'[r] : \E v \in Range(log[m]) : Key(v) = k
  BY <1>3 DEF Range
<1>6. Placed(r)'
  BY <1>1, <1>2 DEF Placed, TypeOK
<1>7. Sourced(r)'
  <2>1. Ascending(log[m])
    BY <1>2 DEF WriterInv, Recorded
  <2>2. \A v \in Range(log[m]) : v \in Range(log'[m])
    BY <1>3
  <2> QED
    BY <1>2, <1>3, <1>4, <2>1, <2>2, SourcedNext DEF Sourced
<1>8. Matched(r)'
  <2>1. \A u \in Taken(r)' : Key(u) \in seen'[r]
    BY <1>4, <1>5
  <2>2. \A k \in seen'[r] : \E v \in Taken(r)' : Key(v) = k
    BY <1>4, <1>5
  <2> QED
    BY <2>1, <2>2, Zenon DEF Matched, Key
<1>9. Seam(r)'
  BY <1>3, <1>5 DEF Seam, Key
<1>10. Complete(r)'
  <2>1. Range(log[m]) \subseteq Where(r)'
    BY <1>3 DEF Where, Range
  <2> QED
    BY <1>3, <2>1 DEF Complete
<1>11. Once(r)' /\ InOrder(r)'
  BY <1>2 DEF Once, InOrder
<1> QED
  BY <1>6, <1>7, <1>8, <1>9, <1>10, <1>11

LEMMA AppendAt ==
  ASSUME NEW S, NEW s \in Seq(S), NEW x \in S, NEW i \in DOMAIN Append(s, x)
  PROVE  \/ i \in DOMAIN s /\ Append(s, x)[i] = s[i] /\ s[i] \in Range(s)
         \/ i = Len(s) + 1 /\ Append(s, x)[i] = x
  BY DEF Range

\* Once and InOrder of one more update written to the client.
LEMMA WriteStream ==
  ASSUME TypeOK, NEW r \in Readers, Once(r), InOrder(r), NEW h \in Update,
         sent'[r] = Append(sent[r], h), UNCHANGED <<issued, log, mgr>>,
         \A v \in Range(sent[r]) : Unshared(v) => v # h,
         \A v \in Range(sent[r]) :
            /\ v.by = h.by /\ {v, h} \subseteq Range(log[mgr[r]])
            /\ Unshared(v) /\ Unshared(h)
            => v.id < h.id
  PROVE  Once(r)' /\ InOrder(r)'
<1> DEFINE s == sent[r]
           t == Append(s, h)
<1>1. s \in Seq(Update)
  BY DEF TypeOK
<1>2. \A u : Unshared(u)' = Unshared(u)
  BY DEF Unshared, Key
<1>3. \A i \in DOMAIN t : \/ i \in DOMAIN s /\ t[i] = s[i] /\ s[i] \in Range(s)
                          \/ i = Len(s) + 1 /\ t[i] = h
  BY <1>1, AppendAt
<1>4. Once(r)'
  <2> SUFFICES ASSUME NEW i \in DOMAIN t, NEW j \in DOMAIN t, i # j, t[i] = t[j],
                      Unshared(t[i])
               PROVE  FALSE
    BY <1>2 DEF Once
  <2> QED
    BY <1>3 DEF Once
<1>5. InOrder(r)'
  <2> SUFFICES ASSUME NEW i \in DOMAIN t, NEW j \in DOMAIN t, i < j,
                      t[i].by = t[j].by, {t[i], t[j]} \subseteq Range(log[mgr[r]]),
                      Unshared(t[i]), Unshared(t[j])
               PROVE  t[i].id < t[j].id
    BY <1>2 DEF InOrder
  <2>1. i \in DOMAIN s /\ t[i] = s[i] /\ s[i] \in Range(s)
    <3>1. i # Len(s) + 1
      BY <1>1
    <3> QED
      BY <1>3, <3>1
  <2> QED
    BY <1>3, <2>1 DEF InOrder
<1> QED
  BY <1>4, <1>5

\* The snapshot is written in its order.
LEMMA ReplayStream ==
  ASSUME TypeOK, WriterInv, NEW r \in Readers, StreamInv(r), Replay(r)
  PROVE  StreamInv(r)'
<1> DEFINE h == Head(hist[r])
<1> USE DEF storage, managers, StreamInv
<1>1. /\ gpc[r] = "on" /\ hist[r] # <<>>
      /\ sent' = [sent EXCEPT ![r] = Append(@, h)]
      /\ hist' = [hist EXCEPT ![r] = Tail(@)]
      /\ UNCHANGED <<issued, pushed, log, made, hpc, gpc, mgr, entry, live, seen, dropped>>
  BY DEF Replay
<1>2. sent[r] \in Seq(Update) /\ hist[r] \in Seq(Update)
  BY DEF TypeOK
<1>3. sent'[r] = Append(sent[r], h) /\ hist'[r] = Tail(hist[r])
  BY <1>1 DEF TypeOK
<1>4. /\ h \in Update /\ h \in Range(hist[r])
      /\ Range(hist[r]) = Range(hist'[r]) \cup {h}
      /\ Range(sent'[r]) = Range(sent[r]) \cup {h}
  BY <1>1, <1>2, <1>3, RangeTail, RangeAppend
<1>5. /\ Taken(r)' = Taken(r) /\ Where(r)' = Where(r)
      /\ \A u : Unshared(u)' = Unshared(u)
  BY <1>1, <1>4 DEF Taken, Where, Unshared, Key, Range
<1>6. Placed(r)'
  BY <1>1 DEF Placed
<1>7. Sourced(r)'
  <2>1. /\ Ascending(hist'[r])
        /\ \A v \in Range(hist'[r]) : v.by = h.by => h.id < v.id
    BY <1>1, <1>2, <1>3, AscendingTail DEF Sourced
  <2>2. \A v \in Range(sent'[r]), w \in Range(hist'[r]) : v.by = w.by => v.id < w.id
    BY <1>4, <2>1 DEF Sourced
  <2>3. /\ \A v \in Range(hist'[r]) : v \in Range(log[mgr[r]])
        /\ \A v \in Range(sent'[r]) : v \in pushed \/ v \in Range(log[mgr[r]])
    BY <1>4 DEF Sourced
  <2>4. Ascending(live[r]) /\ Range(live[r]) \subseteq pushed
    BY DEF Sourced
  <2> QED
    BY <1>1, <2>1, <2>2, <2>3, <2>4, SourcedNext DEF Sourced
<1>8. Matched(r)'
  BY <1>1, <1>5 DEF Matched, Key, Range
<1>9. Seam(r)'
  BY <1>1, <1>5 DEF Seam, Key, Range
<1>10. Complete(r)'
  BY <1>1, <1>5 DEF Complete
<1>11. Once(r)' /\ InOrder(r)'
  <2>1. \A v \in Range(sent[r]) : v.by = h.by => v.id < h.id
    BY <1>4 DEF Sourced
  <2>2. \A v \in Range(sent[r]) : v # h
    BY <1>4, <2>1 DEF Update
  <2> QED
    BY <1>1, <1>3, <1>4, <2>1, <2>2, WriteStream
<1> QED
  BY <1>6, <1>7, <1>8, <1>9, <1>10, <1>11

\* A live update whose key no other one shares is skipped only if it was replayed.
LEMMA SkipStream ==
  ASSUME TypeOK, WriterInv, NEW r \in Readers, StreamInv(r), Skip(r)
  PROVE  StreamInv(r)'
<1> DEFINE h == Head(live[r])
<1> USE DEF storage, managers, StreamInv
<1>1. /\ gpc[r] = "on" /\ live[r] # <<>> /\ Key(h) \in seen[r]
      /\ live' = [live EXCEPT ![r] = Tail(@)]
      /\ seen' = [seen EXCEPT ![r] = @ \ {Key(h)}]
      /\ UNCHANGED <<issued, pushed, log, made, hpc, gpc, mgr, entry, hist, sent, dropped>>
  BY DEF Skip, Following, Duplicate
<1>2. /\ live[r] \in Seq(Update) /\ live'[r] = Tail(live[r])
      /\ seen'[r] = seen[r] \ {Key(h)}
  BY <1>1 DEF TypeOK
<1>3. /\ h \in Update /\ h \in Range(live[r])
      /\ Range(live[r]) = Range(live'[r]) \cup {h}
  BY <1>1, <1>2, RangeTail
<1>4. /\ Ascending(live'[r])
      /\ \A v \in Range(live'[r]) : v.by = h.by => h.id < v.id
  BY <1>1, <1>2, AscendingTail DEF Sourced
<1>5. h \notin Range(live'[r])
  BY <1>3, <1>4 DEF Update
<1>6. /\ Taken(r)' = Taken(r) /\ \A u : Unshared(u)' = Unshared(u)
      /\ Taken(r) \subseteq issued /\ h \in issued /\ h \in pushed
  <2>1. Taken(r)' = Taken(r)
    BY <1>1 DEF Taken, Range
  <2>2. \A u : Unshared(u)' = Unshared(u)
    BY <1>1 DEF Unshared, Key
  <2>3. Taken(r) \subseteq issued
    BY TakenIssued
  <2>4. h \in pushed
    BY <1>3 DEF Sourced
  <2>5. h \in issued
    BY <2>4 DEF WriterInv, Recorded
  <2> QED
    BY <2>1, <2>2, <2>3, <2>4, <2>5
<1>7. \A u \in issued : Unshared(u) /\ Key(u) = Key(h) => u = h
  BY <1>6 DEF Unshared
<1>8. Placed(r)'
  BY <1>1 DEF Placed
<1>9. Sourced(r)'
  <2>1. Range(live'[r]) \subseteq pushed
    BY <1>3 DEF Sourced
  <2> QED
    BY <1>1, <1>4, <2>1, SourcedNext DEF Sourced
<1>10. Matched(r)'
  <2>1. \A k \in seen'[r] : \E v \in Taken(r) : Key(v) = k
    BY <1>2 DEF Matched
  <2>2. \A u \in Taken(r) :
          Unshared(u) /\ (u \notin pushed \/ u \in Range(live'[r])) => Key(u) \in seen'[r]
    <3> SUFFICES ASSUME NEW u \in Taken(r), Unshared(u),
                        u \notin pushed \/ u \in Range(live'[r])
                 PROVE  Key(u) \in seen'[r]
      OBVIOUS
    <3>1. Key(u) \in seen[r]
      BY <1>3 DEF Matched
    <3>2. Key(u) # Key(h)
      BY <1>5, <1>6, <1>7
    <3> QED
      BY <1>2, <3>1, <3>2
  <2> QED
    BY <1>1, <1>6, <2>1, <2>2, MatchedNext
<1>11. Seam(r)'
  <2> SUFFICES ASSUME NEW v \in Taken(r), NEW u \in Range(live'[r]),
                      u.by = v.by, {u, v} \subseteq Range(log[mgr[r]]),
                      Unshared(u), Unshared(v), Key(u) \notin seen'[r]
               PROVE  v.id < u.id
    BY <1>1, <1>6 DEF Seam, Range, Key
  <2>1. u \in issued /\ u # h /\ u \in Range(live[r])
    BY <1>3, <1>5 DEF Sourced, WriterInv, Recorded
  <2>2. Key(u) \notin seen[r]
    BY <1>2, <1>7, <2>1
  <2> QED
    BY <2>1, <2>2 DEF Seam
<1>12. Complete(r)'
  <2> SUFFICES ASSUME gpc[r] = "on", entry[r],
                      NEW u \in pushed \cap Range(log[mgr[r]]), Unshared(u)
               PROVE  u \in Where(r)'
    BY <1>1, <1>6 DEF Complete
  <2>1. u \in Where(r) /\ u \in issued
    BY DEF Complete, WriterInv, Recorded
  <2>2. Where(r) \subseteq Where(r)' \cup {h} /\ Taken(r) \subseteq Where(r)'
    BY <1>1, <1>3 DEF Where, Taken, Range
  <2>3. CASE u = h
    <3>1. PICK v \in Taken(r) : Key(v) = Key(h)
      BY <1>1 DEF Matched
    <3>2. v = h
      BY <1>6, <2>3, <3>1 DEF Unshared
    <3> QED
      BY <2>2, <2>3, <3>2
  <2> QED
    BY <2>1, <2>2, <2>3
<1>13. Once(r)' /\ InOrder(r)'
  BY <1>1, <1>6 DEF Once, InOrder
<1> QED
  BY <1>8, <1>9, <1>10, <1>11, <1>12, <1>13

\* A live update that is written was not replayed and is later than what was.
LEMMA ForwardStream ==
  ASSUME TypeOK, WriterInv, NEW r \in Readers, StreamInv(r), Forward(r)
  PROVE  StreamInv(r)'
<1> DEFINE h == Head(live[r])
<1> USE DEF storage, managers, StreamInv
<1>1. /\ gpc[r] = "on" /\ live[r] # <<>> /\ Key(h) \notin seen[r] /\ hist[r] = <<>>
      /\ live' = [live EXCEPT ![r] = Tail(@)]
      /\ sent' = [sent EXCEPT ![r] = Append(@, h)]
      /\ UNCHANGED <<issued, pushed, log, made, hpc, mgr, hist, seen, dropped>>
  BY DEF Forward, Following, Duplicate
<1>2. gpc'[r] \in {"on", "done"} /\ (entry'[r] => entry[r])
  BY <1>1 DEF Forward, Unsubscribe, TypeOK
<1>3. /\ live[r] \in Seq(Update) /\ live'[r] = Tail(live[r])
      /\ sent[r] \in Seq(Update) /\ sent'[r] = Append(sent[r], h)
  BY <1>1 DEF TypeOK
<1>4. /\ h \in Update /\ h \in Range(live[r])
      /\ Range(live[r]) = Range(live'[r]) \cup {h}
      /\ Range(sent'[r]) = Range(sent[r]) \cup {h}
  BY <1>1, <1>3, RangeTail, RangeAppend
<1>5. /\ Ascending(live'[r])
      /\ \A v \in Range(live'[r]) : v.by = h.by => h.id < v.id
  BY <1>1, <1>3, AscendingTail DEF Sourced
<1>6. h \notin Range(live'[r]) /\ h \in pushed
  BY <1>4, <1>5 DEF Update, Sourced
<1>7. /\ Taken(r) = Range(sent[r]) /\ Taken(r)' = Taken(r) \cup {h}
      /\ Where(r)' = Where(r) /\ \A u : Unshared(u)' = Unshared(u)
  <2>1. Range(hist[r]) = {} /\ Range(hist'[r]) = {}
    BY <1>1 DEF Range
  <2>2. Taken(r) = Range(sent[r]) /\ Taken(r)' = Taken(r) \cup {h}
    BY <1>4, <2>1 DEF Taken, Range
  <2>3. Where(r)' = Where(r)
    BY <1>1, <1>4, <2>1 DEF Where, Range
  <2>4. \A u : Unshared(u)' = Unshared(u)
    BY <1>1 DEF Unshared, Key
  <2> QED
    BY <2>2, <2>3, <2>4
<1>8. Placed(r)'
  BY <1>1, <1>2 DEF Placed
<1>9. Sourced(r)'
  <2>1. \A v \in Range(sent'[r]) : v \in pushed \/ v \in Range(log[mgr[r]])
    BY <1>4, <1>6 DEF Sourced
  <2>2. Range(hist'[r]) = {}
    BY <1>1 DEF Range
  <2> QED
    BY <1>1, <1>4, <1>5, <2>1, <2>2, SourcedNext DEF Sourced
<1>10. Matched(r)'
  <2>1. \A k \in seen[r] : \E v \in Taken(r)' : Key(v) = k
    BY <1>7 DEF Matched
  <2>2. \A u \in Taken(r)' :
          Unshared(u) /\ (u \notin pushed \/ u \in Range(live'[r])) => Key(u) \in seen[r]
    BY <1>4, <1>6, <1>7 DEF Matched
  <2> QED
    BY <1>1, <1>7, <2>1, <2>2, MatchedNext
<1>11. Seam(r)'
  <2> SUFFICES ASSUME NEW v \in Taken(r) \cup {h}, NEW u \in Range(live'[r]),
                      u.by = v.by, {u, v} \subseteq Range(log[mgr[r]]),
                      Unshared(u), Unshared(v), Key(u) \notin seen[r]
               PROVE  v.id < u.id
    BY <1>1, <1>7 DEF Seam, Key
  <2>1. CASE v = h
    BY <1>5, <2>1
  <2>2. CASE v \in Taken(r)
    BY <1>4, <2>2 DEF Seam
  <2> QED
    BY <2>1, <2>2
<1>12. Complete(r)'
  BY <1>1, <1>2, <1>7 DEF Complete
<1>13. Once(r)' /\ InOrder(r)'
  <2>1. \A v \in Range(sent[r]) : Unshared(v) => v # h
    BY <1>1, <1>4, <1>7 DEF Matched
  <2>2. \A v \in Range(sent[r]) :
            /\ v.by = h.by /\ {v, h} \subseteq Range(log[mgr[r]])
            /\ Unshared(v) /\ Unshared(h)
            => v.id < h.id
    BY <1>1, <1>4, <1>7 DEF Seam
  <2> QED
    BY <1>1, <1>3, <1>4, <2>1, <2>2, WriteStream
<1> QED
  BY <1>8, <1>9, <1>10, <1>11, <1>12, <1>13

\* A step of one stream leaves the others as they are.
LEMMA OtherStream ==
  ASSUME TypeOK, WriterInv, NEW q \in Readers, StreamInv(q), LogsGrow,
         issued \subseteq issued', UNCHANGED pushed,
         NEW r \in Readers \ {q},
         Request(r) \/ RequestStep(r) \/ FeedStep(r) \/ ClientGone(r)
  PROVE  StreamInv(q)'
<1>1. /\ UNCHANGED <<live[q], hist[q], seen[q], sent[q], dropped[q]>>
      /\ UNCHANGED <<hpc[q], gpc[q], mgr[q], entry[q]>>
  <2>1. CASE Request(r) \/ RequestStep(r) \/ ClientGone(r)
    BY <2>1 DEF Request, RequestStep, ClientGone, ReqLoad, ReqLoadStored,
       ReqRegister, Subscribe, Snapshot, Take, Cancel, Unsubscribe, ReqRelease,
       ReqGoto, TypeOK
  <2>2. CASE FeedStep(r)
    BY <2>2 DEF FeedStep, Replay, Skip, Forward, Drained, Unsubscribe, TypeOK
  <2> QED
    BY <2>1, <2>2
<1>2. Placed(q)'
  BY <1>1 DEF StreamInv, Placed, LogsGrow
<1> QED
  BY <1>1, <1>2, StreamFrame

\* What a step of stream r makes of it.
LEMMA OwnStream ==
  ASSUME TypeOK, WriterInv, NEW r \in Readers, StreamInv(r), LogsGrow,
         Request(r) \/ RequestStep(r) \/ FeedStep(r) \/ ClientGone(r)
  PROVE  StreamInv(r)'
  BY HandlerStream, SnapshotStream, ReplayStream, SkipStream, ForwardStream
     DEF RequestStep, FeedStep

\* What a step of a context, or none, keeps of the streams.
LEMMA ContextStreams ==
  ASSUME TypeOK, WriterInv, NEW r \in Readers, StreamInv(r), LogsGrow,
         issued \subseteq issued', UNCHANGED <<pushed, streams>>
  PROVE  StreamInv(r)'
<1>1. UNCHANGED <<live, hist, seen, sent, dropped, hpc, gpc, mgr, entry>>
  BY DEF streams
<1>2. Placed(r)'
  BY <1>1 DEF StreamInv, Placed, LogsGrow
<1> QED
  BY <1>1, <1>2, StreamFrame

LEMMA Steps == IInv /\ [Next]_vars => IInv'
<1> SUFFICES ASSUME IInv, [Next]_vars PROVE IInv'
  OBVIOUS
<1>0. /\ TypeOK /\ WriterInv /\ \A r \in Readers : StreamInv(r) /\ Placed(r)
      /\ Referred /\ AddingInv /\ IsFiniteSet(issued)
  BY DEF IInv, WriterInv, Numbered, StreamInv
<1>1. ASSUME NEW c \in Contexts,
             \/ OpenStep(c) \/ Save(c) \/ Log(c) \/ EndStep(c) \/ MarkCancelled(c)
             \/ \E tag \in Tags[c] : Emit(c, tag)
             \/ \E k \in {"idle", "release"} : MarkComplete(c, k)
      PROVE  IInv'
  <2>1. {"idle", "release"} \subseteq CtxSteps
    BY DEF CtxSteps
  <2>2. TypeOK'
    BY <1>0, <1>1, <2>1, OpenTypes, UpdateTypes, CompleteTypes, EndTypes DEF UpdateStep
  <2>3. WriterInv'
    BY <1>0, <1>1, OpenWriter, UpdateWriter, CompleteWriter, EndWriter DEF UpdateStep
  <2>4. LogsGrow /\ issued \subseteq issued' /\ UNCHANGED <<pushed, streams>>
    BY <1>0, <1>1, ContextGrows
  <2>5. \A r \in Readers : StreamInv(r)'
    BY <1>0, <2>4, ContextStreams
  <2> QED
    BY <2>2, <2>3, <2>5 DEF IInv
<1>2. ASSUME NEW c \in Contexts, Push(c)
      PROVE  IInv'
  <2>1. TypeOK' /\ WriterInv'
    BY <1>0, <1>2, UpdateTypes, UpdateWriter DEF UpdateStep
  <2>2. \A r \in Readers : StreamInv(r)'
    BY <1>0, <1>2, PushStream
  <2> QED
    BY <2>1, <2>2 DEF IInv
<1>3. ASSUME NEW r \in Readers,
             Request(r) \/ RequestStep(r) \/ FeedStep(r) \/ ClientGone(r)
      PROVE  IInv'
  <2>1. TypeOK'
    BY <1>0, <1>3, RequestTypes, FeedTypes
  <2>2. WriterInv' /\ LogsKept /\ UNCHANGED <<issued, pushed, stored>>
    BY <1>0, <1>3, ReaderWriter
  <2>3. LogsGrow
    BY <1>0, <2>2, KeptGrow
  <2>4. StreamInv(r)'
    BY <1>0, <1>3, <2>3, OwnStream
  <2>5. \A q \in Readers \ {r} : StreamInv(q)'
    BY <1>0, <1>3, <2>2, <2>3, OtherStream
  <2> QED
    BY <2>1, <2>2, <2>4, <2>5 DEF IInv
<1>4. CASE UNCHANGED vars
  <2>1. UNCHANGED <<clock, registry, storedInfo, stored, rooted, issued, pushed,
                    log, made, completed, cpc, trace, upd, then, streams>>
    BY <1>4 DEF vars, storage, managers, contexts
  <2>2. TypeOK'
    BY <1>0, <2>1 DEF TypeOK, streams
  <2>3. Referred' /\ LogsKept
    BY <1>0, <2>1 DEF Referred, LogsKept
  <2>4. WriterInv'
    BY <1>0, <2>1, <2>3, QuietWriter
  <2>5. \A r \in Readers : StreamInv(r)'
    BY <1>0, <2>1, <2>3, KeptGrow, ContextStreams
  <2> QED
    BY <2>2, <2>4, <2>5 DEF IInv
<1> QED
  BY <1>1, <1>2, <1>3, <1>4, RootAssumption DEF Next, UpdateStep, ScriptComplete, Finish

-----------------------------------------------------------------------------
(***************************************************************************)
(* Theorems                                                                *)
(***************************************************************************)

\* The inductive invariant holds in every reachable state.
THEOREM Invariant == Spec => []IInv
  BY Inits, Steps, PTL DEF Spec

\* The registry, the logs and the subscriptions of trace/ keep their types.
THEOREM TypeCorrect == Spec => []TypeOK
<1>1. IInv => TypeOK
  BY DEF IInv
<1> QED
  BY <1>1, Invariant, PTL

\* subscribe registers its channel before it copies the log, so that a pushed
\* update of the log that shares its key with no other is on its way to the
\* client, has been written, or was skipped because the channel was full.
THEOREM NothingLost == Spec => []NoUpdateLost
<1>1. IInv => NoUpdateLost
  BY DEF IInv, StreamInv, Complete, NoUpdateLost
<1> QED
  BY <1>1, Invariant, PTL

\* The keys subscribe remembers keep an update that was replayed from being
\* written again when it comes as a live one, unless another shares its key.
THEOREM WrittenOnce == Spec => []NoneTwice
<1>1. IInv => NoneTwice
  BY DEF IInv, StreamInv, Once, NoneTwice
<1> QED
  BY <1>1, Invariant, PTL

\* The updates of a context reach a client in the order addUpdateAndBroadcast
\* made them, although the log and the live updates of subscribe overlap.
THEOREM OrderKept == Spec => []InContextOrder
<1>1. IInv => InContextOrder
  BY DEF IInv, StreamInv, InOrder, InContextOrder
<1> QED
  BY <1>1, Invariant, PTL
=============================================================================
