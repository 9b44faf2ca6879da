--------------------------- MODULE ServicesProofs ---------------------------
(***************************************************************************)
(* For any number of requests and sends, any life of an entry, and any     *)
(* bounds on what is saved, written and queued: what was saved is what the *)
(* cache serves, a message is taken once, and every variable has its type. *)
(***************************************************************************)
EXTENDS Services, FiniteSetTheorems, SequenceTheorems, TLAPS

-----------------------------------------------------------------------------
(* The cache.                                                              *)

Versions == SUBSET (0 .. MaxWrites)

CacheRequest ==
  [pc : {"idle", "load", "set", "register", "members", "bust"}, value : Versions,
   names : BOOLEAN]

\* With a request alone at work, or none: an entry that is registered is named by its tag
\* for longer than it lives, what is about to be stored is what is saved, and what is
\* about to be busted will be.
Serves(r) ==
  /\ r.pc # "register" /\ entry.value # {} => tag.names /\ tag.left > entry.left
  /\ r.pc = "set" => r.value = {stored}
  /\ r.pc = "bust" => r.names \/ entry.value = {}
  /\ ~missed /\ r.pc \notin {"members", "bust"} => entry.value \in {{}, {stored}}

CacheInv ==
  /\ stored \in 0 .. MaxWrites /\ missed \in BOOLEAN
  /\ entry \in [value : Versions, left : 0 .. Life]
  /\ tag \in [names : BOOLEAN, left : 0 .. Life + 1]
  /\ req \in [Procs -> CacheRequest]
  /\ width = 1 =>
       /\ \A p, q \in Procs : req[p].pc # "idle" /\ req[q].pc # "idle" => p = q
       /\ \A p \in Procs : req[p].pc # "idle" => Serves(req[p])
       /\ (\A p \in Procs : req[p].pc = "idle") => Serves(C!Idle)

\* A request that is put back to idle, and nothing in the cache, are of their types.
LEMMA CacheIdle ==
  /\ C!Idle \in CacheRequest /\ C!Idle.pc = "idle"
  /\ C!NoEntry \in [value : Versions, left : 0 .. Life] /\ C!NoEntry.value = {}
  /\ C!NoTag \in [names : BOOLEAN, left : 0 .. Life + 1]
<1>1. C!Idle \in CacheRequest /\ C!Idle.pc = "idle"
  BY DEF C!Idle, CacheRequest, Versions
<1>2. 0 \in 0 .. Life /\ 0 \in 0 .. Life + 1
  BY BoundsAssumption
<1> QED
  BY <1>1, <1>2 DEF C!NoEntry, C!NoTag, Versions

\* Nothing is cached yet.
LEMMA InitCache == Init => CacheInv
<1> SUFFICES ASSUME Init PROVE CacheInv
  OBVIOUS
<1>1. /\ stored = 0 /\ entry = C!NoEntry /\ tag = C!NoTag /\ missed = FALSE
      /\ req = [p \in Procs |-> C!Idle]
  BY DEF Init, C!Init
<1>2. \A p \in Procs : req[p] = C!Idle
  BY <1>1
<1>3. Serves(C!Idle)
  BY <1>1, CacheIdle DEF Serves
<1>4. stored \in 0 .. MaxWrites
  BY <1>1, BoundsAssumption
<1> QED
  BY <1>1, <1>2, <1>3, <1>4, CacheIdle DEF CacheInv

\* One at a time, a request begins when none is under way, and one that is under way is
\* so alone.
LEMMA CacheAlone ==
  ASSUME CacheInv, NEW p \in Procs, C!Free(p) \/ req[p].pc # "idle", width = 1
  PROVE  /\ \A q \in Procs \ {p} : req[q].pc = "idle"
         /\ Serves(req[p])
<1>1. CASE C!Free(p)
  <2> DEFINE busy == {q \in Procs : req[q].pc # "idle"}
  <2>1. C!Cardinality(busy) = Cardinality(busy)
    BY DEF C!Cardinality, Cardinality
  <2>2. Cardinality(busy) < 1 /\ req[p].pc = "idle"
    BY <1>1, <2>1 DEF C!Free
  <2>3. IsFiniteSet(busy)
    BY ProcsAssumption, FS_Subset
  <2>4. busy = {}
    <3> HIDE DEF busy
    <3>1. Cardinality(busy) = 0
      BY <2>2, <2>3, FS_CardinalityType
    <3> QED
      BY <2>3, <3>1, FS_EmptySet
  <2>5. Serves(C!Idle)
    BY <2>4 DEF CacheInv
  <2> QED
    BY <2>2, <2>4, <2>5, CacheIdle DEF Serves
<1>2. CASE req[p].pc # "idle"
  BY <1>2 DEF CacheInv
<1> QED
  BY <1>1, <1>2

\* A request that runs alone, where that is asked, becomes r.
LEMMA CacheStep ==
  ASSUME CacheInv, NEW p \in Procs, NEW r \in CacheRequest, req' = [req EXCEPT ![p] = r],
         C!Free(p) \/ req[p].pc # "idle",
         stored' \in 0 .. MaxWrites, missed' \in BOOLEAN,
         entry' \in [value : Versions, left : 0 .. Life],
         tag' \in [names : BOOLEAN, left : 0 .. Life + 1],
         UNCHANGED width, width = 1 => Serves(r)'
  PROVE  CacheInv'
<1>1. req' \in [Procs -> CacheRequest] /\ req'[p] = r
      /\ \A q \in Procs \ {p} : req'[q] = req[q]
  BY DEF CacheInv
<1>2. ASSUME width = 1
      PROVE  /\ \A q \in Procs \ {p} : req'[q].pc = "idle"
             /\ Serves(req[p])'
             /\ r.pc = "idle" => Serves(C!Idle)'
  <2>1. \A q \in Procs \ {p} : req'[q].pc = "idle"
    BY <1>1, <1>2, CacheAlone
  <2>2. Serves(r)'
    BY <1>2
  <2>3. Serves(req[p])'
    BY <1>1, <2>2 DEF Serves
  <2>4. r.pc = "idle" => Serves(C!Idle)'
    BY <2>2, CacheIdle DEF Serves
  <2> QED
    BY <2>1, <2>3, <2>4
<1> QED
  BY <1>1, <1>2 DEF CacheInv

\* What Redis holds runs down, the tag after the entry.
LEMMA CacheTick ==
  ASSUME CacheInv, C!Tick
  PROVE  CacheInv'
<1>1. /\ stored' = stored /\ missed' = missed /\ req' = req /\ width' = width
      /\ entry' = IF entry.left > 1 THEN [entry EXCEPT !.left = entry.left - 1] ELSE C!NoEntry
      /\ tag' = IF tag.left > 1 THEN [tag EXCEPT !.left = tag.left - 1] ELSE C!NoTag
  BY DEF C!Tick
<1>2. /\ entry \in [value : Versions, left : 0 .. Life] /\ entry.left \in 0 .. Life
      /\ tag \in [names : BOOLEAN, left : 0 .. Life + 1] /\ tag.left \in 0 .. Life + 1
  BY DEF CacheInv
<1>3. /\ entry.left > 1 => entry.left - 1 \in 0 .. Life
      /\ tag.left > 1 => tag.left - 1 \in 0 .. Life + 1
  BY <1>2, BoundsAssumption
<1>4. entry' \in [value : Versions, left : 0 .. Life]
  BY <1>1, <1>2, <1>3, CacheIdle
<1>5. tag' \in [names : BOOLEAN, left : 0 .. Life + 1]
  BY <1>1, <1>2, <1>3, CacheIdle
<1>6. ASSUME NEW r, Serves(r) PROVE Serves(r)'
  <2>1. CASE entry.left > 1
    <3>1. entry'.value = entry.value /\ entry'.left = entry.left - 1
      BY <1>1, <1>2, <2>1
    <3>2. tag.left > 1 => tag'.names = tag.names /\ tag'.left = tag.left - 1
      BY <1>1, <1>2
    <3>3. tag.left > entry.left => tag.left > 1 /\ tag.left - 1 > entry.left - 1
      BY <1>2, <2>1, BoundsAssumption
    <3> QED
      BY <1>1, <1>6, <3>1, <3>2, <3>3 DEF Serves
  <2>2. CASE ~(entry.left > 1)
    <3>1. entry'.value = {}
      BY <1>1, <2>2, CacheIdle
    <3> QED
      BY <1>1, <1>6, <3>1 DEF Serves
  <2> QED
    BY <2>1, <2>2
<1>7. \A p \in Procs : Serves(req[p]) => Serves(req[p])'
  <2> SUFFICES ASSUME NEW p \in Procs, Serves(req[p]) PROVE Serves(req[p])'
    OBVIOUS
  <2>1. PICK r : r = req[p]
    OBVIOUS
  <2>2. Serves(r)'
    BY <1>6, <2>1
  <2> QED
    BY <1>1, <2>1, <2>2 DEF Serves
<1>8. Serves(C!Idle) => Serves(C!Idle)'
  <2>1. PICK r : r = C!Idle
    OBVIOUS
  <2> QED
    BY <1>6, <2>1 DEF Serves, C!Idle
<1> QED
  BY <1>1, <1>4, <1>5, <1>7, <1>8 DEF CacheInv

\* A request with a new place to go is a request.
LEMMA CacheGoto ==
  ASSUME NEW x \in CacheRequest, NEW pc \in {"load", "register", "members"}
  PROVE  [x EXCEPT !.pc = pc] \in CacheRequest /\ [x EXCEPT !.pc = pc].pc = pc
BY DEF CacheRequest

\* And so is one that has been told what the tag names.
LEMMA CacheNames ==
  ASSUME NEW x \in CacheRequest, NEW b \in BOOLEAN
  PROVE  LET r == [x EXCEPT !.pc = "bust", !.names = b]
         IN r \in CacheRequest /\ r.pc = "bust" /\ r.names = b
BY DEF CacheRequest

\* A hit and a miss, and the load of what is saved.
LEMMA CacheReads ==
  ASSUME CacheInv, NEW p \in Procs, C!Hit(p) \/ C!Miss(p) \/ C!Load(p)
  PROVE  CacheInv'
<1>1. CASE C!Hit(p)
  BY <1>1 DEF CacheInv, Serves, C!Hit, C!AfterHit
<1>2. CASE C!Miss(p)
  <2> DEFINE r == [req[p] EXCEPT !.pc = "load"]
  <2>1. r \in CacheRequest /\ r.pc = "load"
    BY CacheGoto DEF CacheInv
  <2>2. req' = [req EXCEPT ![p] = r] /\ UNCHANGED <<stored, entry, tag, missed, width>>
        /\ C!Free(p)
    BY <1>2 DEF C!Miss, C!Goto
  <2>3. PICK s : s = r
    OBVIOUS
  <2>4. req[p].pc = "idle"
    BY <2>2 DEF C!Free
  <2> HIDE DEF r
  <2>5. width = 1 => Serves(s)'
    <3>1. width = 1 => Serves(req[p])
      BY <2>2, CacheAlone
    <3> QED
      BY <2>1, <2>2, <2>3, <2>4, <3>1 DEF Serves
  <2>6. s \in CacheRequest /\ req' = [req EXCEPT ![p] = s]
    BY <2>1, <2>2, <2>3
  <2> QED
    BY <2>2, <2>5, <2>6, CacheStep DEF CacheInv
<1>3. CASE C!Load(p)
  <2>1. req' = [req EXCEPT ![p] = [C!Idle EXCEPT !.pc = "set", !.value = {stored}]]
        /\ UNCHANGED <<stored, entry, tag, missed, width>> /\ req[p].pc = "load"
    BY <1>3 DEF C!Load, C!At
  <2>2. PICK s : s = [C!Idle EXCEPT !.pc = "set", !.value = {stored}]
    OBVIOUS
  <2>3. s \in CacheRequest /\ s.pc = "set" /\ s.value = {stored}
    BY <2>2 DEF CacheInv, CacheRequest, Versions, C!Idle
  <2>4. width = 1 => Serves(s)'
    <3>1. width = 1 => Serves(req[p])
      BY <2>1, CacheAlone
    <3> QED
      BY <2>1, <2>3, <3>1 DEF Serves
  <2> QED
    BY <2>1, <2>2, <2>3, <2>4, CacheStep DEF CacheInv
<1> QED
  BY <1>1, <1>2, <1>3

\* The entry is stored, and then registered under its tag.
LEMMA CacheSets ==
  ASSUME CacheInv, NEW p \in Procs, C!SetEntry(p) \/ C!Register(p)
  PROVE  CacheInv'
<1>1. CASE C!SetEntry(p)
  <2>1. /\ req' = [req EXCEPT ![p] = [req[p] EXCEPT !.pc = "register"]]
        /\ entry' = [value |-> req[p].value, left |-> Life]
        /\ UNCHANGED <<stored, tag, missed, width>> /\ req[p].pc = "set"
    BY <1>1 DEF C!SetEntry, C!At, C!Goto
  <2>2. PICK s : s = [req[p] EXCEPT !.pc = "register"]
    OBVIOUS
  <2>3. s \in CacheRequest /\ s.pc = "register" /\ req[p].value \in Versions
    BY <2>2, CacheGoto DEF CacheInv, CacheRequest
  <2>4. Life \in 0 .. Life
    BY BoundsAssumption
  <2>5. entry' \in [value : Versions, left : 0 .. Life] /\ entry'.value = req[p].value
    BY <2>1, <2>3, <2>4
  <2>6. width = 1 => Serves(s)'
    <3>1. width = 1 => Serves(req[p])
      BY <2>1, CacheAlone
    <3> QED
      BY <2>1, <2>3, <2>5, <3>1 DEF Serves
  <2> QED
    BY <2>1, <2>2, <2>3, <2>5, <2>6, CacheStep DEF CacheInv
<1>2. CASE C!Register(p)
  <2>1. /\ req' = [req EXCEPT ![p] = C!Idle] /\ req[p].pc = "register"
        /\ tag' = [names |-> TRUE, left |-> Life + 1]
        /\ UNCHANGED <<stored, entry, missed, width>>
    BY <1>2 DEF C!Register, C!Done, C!At, C!TagLife
  <2>2. Life + 1 \in 0 .. Life + 1 /\ entry.left \in 0 .. Life
    BY BoundsAssumption DEF CacheInv
  <2>3. tag' \in [names : BOOLEAN, left : 0 .. Life + 1] /\ tag'.names
        /\ tag'.left = Life + 1 /\ Life + 1 > entry.left
    BY <2>1, <2>2, BoundsAssumption
  <2>4. width = 1 => Serves(C!Idle)'
    <3>1. width = 1 => Serves(req[p])
      BY <2>1, CacheAlone
    <3> QED
      BY <2>1, <2>3, <3>1, CacheIdle DEF Serves
  <2> QED
    BY <2>1, <2>3, <2>4, CacheIdle, CacheStep DEF CacheInv
<1> QED
  BY <1>1, <1>2

\* Something is saved, and the tag is asked what it names.
LEMMA CacheSaves ==
  ASSUME CacheInv, NEW p \in Procs, C!Save(p) \/ C!Members(p)
  PROVE  CacheInv'
<1>1. CASE C!Save(p)
  <2>1. /\ req' = [req EXCEPT ![p] = [req[p] EXCEPT !.pc = "members"]]
        /\ stored' = stored + 1 /\ stored < MaxWrites
        /\ UNCHANGED <<entry, tag, missed, width>> /\ C!Free(p)
    BY <1>1 DEF C!Save, C!Goto
  <2>2. PICK s : s = [req[p] EXCEPT !.pc = "members"]
    OBVIOUS
  <2>3. s \in CacheRequest /\ s.pc = "members"
    BY <2>2, CacheGoto DEF CacheInv
  <2>4. stored' \in 0 .. MaxWrites
    BY <2>1, BoundsAssumption DEF CacheInv
  <2>5. width = 1 => Serves(s)'
    <3>1. width = 1 => Serves(req[p])
      BY <2>1, CacheAlone
    <3>2. req[p].pc = "idle"
      BY <2>1 DEF C!Free
    <3> QED
      BY <2>1, <2>3, <3>1, <3>2 DEF Serves
  <2> QED
    BY <2>1, <2>2, <2>3, <2>4, <2>5, CacheStep DEF CacheInv
<1>2. CASE C!Members(p)
  <2>1. /\ req' = [req EXCEPT ![p] = [req[p] EXCEPT !.pc = "bust", !.names = tag.names]]
        /\ UNCHANGED <<stored, entry, tag, missed, width>> /\ req[p].pc = "members"
    BY <1>2 DEF C!Members, C!At
  <2>2. PICK s : s = [req[p] EXCEPT !.pc = "bust", !.names = tag.names]
    OBVIOUS
  <2>3. s \in CacheRequest /\ s.pc = "bust" /\ s.names = tag.names
    <3>1. req[p] \in CacheRequest /\ tag.names \in BOOLEAN
      BY DEF CacheInv
    <3> QED
      BY <2>2, <3>1, CacheNames
  <2>4. width = 1 => Serves(s)'
    <3>1. width = 1 => Serves(req[p])
      BY <2>1, CacheAlone
    <3> QED
      BY <2>1, <2>3, <3>1 DEF Serves
  <2> QED
    BY <2>1, <2>2, <2>3, <2>4, CacheStep DEF CacheInv
<1> QED
  BY <1>1, <1>2

\* What the tag named is busted, or Redis fails.
LEMMA CacheEnds ==
  ASSUME CacheInv, NEW p \in Procs, C!Bust(p) \/ C!Fails(p)
  PROVE  CacheInv'
<1>1. req' = [req EXCEPT ![p] = C!Idle] /\ UNCHANGED <<stored, width>> /\ req[p].pc # "idle"
  BY DEF C!Bust, C!Fails, C!Done, C!At
<1>2. width = 1 => Serves(req[p])
  BY <1>1, CacheAlone
<1>3. CASE C!Bust(p)
  <2>1. /\ req[p].names => entry' = C!NoEntry
        /\ ~req[p].names => entry' = entry
        /\ tag' = C!NoTag /\ missed' = FALSE /\ req[p].pc = "bust"
    BY <1>3 DEF C!Bust, C!At
  <2>2. entry' \in [value : Versions, left : 0 .. Life]
    BY <2>1, CacheIdle DEF CacheInv
  <2>3. width = 1 => entry'.value = {}
    BY <1>2, <2>1, CacheIdle DEF Serves
  <2>4. width = 1 => Serves(C!Idle)'
    BY <2>3, CacheIdle DEF Serves
  <2> QED
    BY <1>1, <2>1, <2>2, <2>4, CacheIdle, CacheStep DEF CacheInv
<1>4. CASE C!Fails(p)
  <2>1. /\ UNCHANGED <<entry, tag>> /\ (width # 1 \/ req[p].pc # "register")
        /\ missed' = (missed \/ req[p].pc \in {"members", "bust"})
    BY <1>4 DEF C!Fails, C!At
  <2>2. width = 1 => Serves(C!Idle)'
    BY <1>1, <1>2, <2>1, CacheIdle DEF Serves
  <2>3. missed' \in BOOLEAN
    BY <2>1
  <2> QED
    BY <1>1, <2>1, <2>2, <2>3, CacheIdle, CacheStep DEF CacheInv
<1> QED
  BY <1>3, <1>4

\* No step leaves the invariant of the cache.
LEMMA NextCache == CacheInv /\ [Next]_vars => CacheInv'
<1> SUFFICES ASSUME CacheInv, [Next]_vars PROVE CacheInv'
  OBVIOUS
<1>1. C!Next \/ UNCHANGED C_vars
  BY DEF Next, vars
<1>2. CASE C!Next
  BY <1>2, CacheTick, CacheReads, CacheSets, CacheSaves, CacheEnds DEF C!Next, C!Step
<1>3. CASE UNCHANGED C_vars
  BY <1>3 DEF C_vars, CacheInv, Serves
<1> QED
  BY <1>1, <1>2, <1>3

\* One request at a time: what was saved is what the cache serves, unless the bust of
\* its tag failed (cache.service.ts, remember and invalidateTags).
THEOREM SavedServed == Spec => []SavedIsServed
<1>1. CacheInv => SavedIsServed
  <2> SUFFICES ASSUME CacheInv, width = 1, ~missed, \A p \in Procs : C!At(p, "idle")
               PROVE  ~C!Stale
    BY DEF SavedIsServed, C!SavedIsServed
  <2>1. Serves(C!Idle)
    BY DEF CacheInv, C!At
  <2> QED
    BY <2>1, CacheIdle DEF Serves, C!Stale
<1> QED
  BY <1>1, InitCache, NextCache, PTL DEF Spec

-----------------------------------------------------------------------------
(* Messages.                                                               *)

Message  == [status : O!COMMUNICATION_STATUS, kind : Kinds]
SendPc   == {"none", "retrying", "building", "calling", "accepted", "refused"}
Sending  == [message : Nat, pc : SendPc]

\* The four sequences run together.
OutboxTyped ==
  /\ messages \in Seq(Message)
  /\ accepted \in Seq(Nat) /\ Len(accepted) = Len(messages)
  /\ unclear \in Seq(Nat) /\ Len(unclear) = Len(messages)
  /\ attempts \in Seq(0 .. MaxAttempts) /\ Len(attempts) = Len(messages)
  /\ sends \in [Procs -> Sending]
  /\ \A p \in Procs : IF sends[p].pc = "none" THEN sends[p].message = 0
                      ELSE sends[p].message \in DOMAIN messages
  /\ stranded \subseteq DOMAIN messages

\* What says sent, or is about to, the provider has taken.
SentIsTaken ==
  /\ \A m \in DOMAIN messages : messages[m].status = "sent" => accepted[m] > 0
  /\ \A p \in Procs : sends[p].pc = "accepted" => accepted[sends[p].message] > 0

\* In the well-behaved run a message has one send at most, which has not said sent yet;
\* and it was taken no oftener than answers were lost, until it is known to be taken.
TakenOnce ==
  /\ \A p, q \in Procs :
       sends[p].pc # "none" /\ sends[p].message = sends[q].message => p = q
  /\ \A p \in Procs : sends[p].pc # "none" => messages[sends[p].message].status # "sent"
  /\ \A m \in DOMAIN messages :
       \/ accepted[m] <= unclear[m]
       \/ /\ accepted[m] <= 1 + unclear[m]
          /\ \/ messages[m].status = "sent"
             \/ \E p \in Procs : sends[p].message = m /\ sends[p].pc = "accepted"

OutboxInv ==
  /\ OutboxTyped
  /\ SentIsTaken
  /\ calm => TakenOnce

\* No send is of no message.
LEMMA NoSendIsNone == O!NoSend \in Sending /\ O!NoSend.pc = "none" /\ O!NoSend.message = 0
BY DEF O!NoSend, Sending, SendPc

\* No message is written yet.
LEMMA InitOutbox == Init => OutboxInv
<1> SUFFICES ASSUME Init PROVE OutboxInv
  OBVIOUS
<1>1. /\ messages = <<>> /\ accepted = <<>> /\ unclear = <<>> /\ attempts = <<>>
      /\ sends = [p \in Procs |-> O!NoSend] /\ stranded = {}
  BY DEF Init, O!Init
<1>2. \A p \in Procs : sends[p] = O!NoSend
  BY <1>1
<1>3. OutboxTyped
  BY <1>1, <1>2, NoSendIsNone DEF OutboxTyped
<1>4. SentIsTaken /\ TakenOnce
  BY <1>1, <1>2, NoSendIsNone DEF SentIsTaken, TakenOnce
<1> QED
  BY <1>3, <1>4 DEF OutboxInv

\* Every message has its counts.
LEMMA OutboxDomains ==
  ASSUME OutboxTyped
  PROVE  /\ DOMAIN accepted = DOMAIN messages /\ DOMAIN unclear = DOMAIN messages
         /\ DOMAIN attempts = DOMAIN messages
         /\ \A m \in DOMAIN messages :
              /\ m \in Nat \ {0} /\ accepted[m] \in Nat /\ unclear[m] \in Nat
              /\ attempts[m] \in 0 .. MaxAttempts
<1>1. /\ DOMAIN messages = 1 .. Len(messages) /\ DOMAIN accepted = 1 .. Len(messages)
      /\ DOMAIN unclear = 1 .. Len(messages) /\ DOMAIN attempts = 1 .. Len(messages)
  BY DEF OutboxTyped
<1>2. ASSUME NEW m \in DOMAIN messages PROVE m \in Nat \ {0}
  BY <1>1, <1>2 DEF OutboxTyped
<1>3. ASSUME NEW m \in DOMAIN messages
      PROVE  accepted[m] \in Nat /\ unclear[m] \in Nat /\ attempts[m] \in 0 .. MaxAttempts
  <2>1. m \in 1 .. Len(accepted) /\ m \in 1 .. Len(unclear) /\ m \in 1 .. Len(attempts)
    BY <1>1, <1>3 DEF OutboxTyped
  <2>2. accepted \in Seq(Nat) /\ unclear \in Seq(Nat) /\ attempts \in Seq(0 .. MaxAttempts)
    BY DEF OutboxTyped
  <2>3. accepted[m] \in Nat
    BY <2>1, <2>2, ElementOfSeq
  <2>4. unclear[m] \in Nat
    BY <2>1, <2>2, ElementOfSeq
  <2>5. attempts[m] \in 0 .. MaxAttempts
    BY <2>1, <2>2, ElementOfSeq
  <2> QED
    BY <2>3, <2>4, <2>5
<1> QED
  BY <1>1, <1>2, <1>3

\* One count is set.
LEMMA CountSet ==
  ASSUME NEW counts \in Seq(Nat), NEW m \in DOMAIN counts, NEW n \in Nat
  PROVE  LET after == [counts EXCEPT ![m] = n]
         IN /\ after \in Seq(Nat) /\ Len(after) = Len(counts) /\ after[m] = n
            /\ \A l \in DOMAIN counts \ {m} : after[l] = counts[l]
OBVIOUS

\* A message is written: it says queued, and nobody has taken it.
LEMMA MessageWritten ==
  ASSUME OutboxInv, NEW k \in Kinds, NEW n \in {0, 1}, O!Written(k, n)
  PROVE  /\ messages' \in Seq(Message) /\ Len(messages') = Len(messages) + 1
         /\ accepted' \in Seq(Nat) /\ Len(accepted') = Len(messages')
         /\ unclear' \in Seq(Nat) /\ Len(unclear') = Len(messages')
         /\ attempts' \in Seq(0 .. MaxAttempts) /\ Len(attempts') = Len(messages')
         /\ \A m \in DOMAIN messages :
              /\ messages'[m] = messages[m] /\ accepted'[m] = accepted[m]
              /\ unclear'[m] = unclear[m]
         /\ LET m == Len(messages) + 1
            IN /\ DOMAIN messages' = DOMAIN messages \cup {m} /\ m \notin DOMAIN messages
               /\ m \in Nat \ {0}
               /\ messages'[m].status = "queued" /\ accepted'[m] = 0 /\ unclear'[m] = 0
<1> DEFINE row == [status |-> "queued", kind |-> k]
<1>1. row \in Message /\ row.status = "queued"
  BY DEF Message, O!COMMUNICATION_STATUS
<1> HIDE DEF row
<1>2. /\ messages' = Append(messages, row)
      /\ accepted' = Append(accepted, 0) /\ unclear' = Append(unclear, 0)
      /\ attempts' = Append(attempts, n)
  BY DEF O!Written, row
<1>3. /\ messages \in Seq(Message) /\ accepted \in Seq(Nat) /\ unclear \in Seq(Nat)
      /\ attempts \in Seq(0 .. MaxAttempts) /\ Len(messages) \in Nat
      /\ Len(accepted) = Len(messages) /\ Len(unclear) = Len(messages)
      /\ Len(attempts) = Len(messages)
  BY DEF OutboxInv, OutboxTyped
<1>4. n \in 0 .. MaxAttempts
  BY BoundsAssumption
<1>5. /\ messages' \in Seq(Message) /\ Len(messages') = Len(messages) + 1
      /\ messages'[Len(messages) + 1] = row
      /\ \A m \in 1 .. Len(messages) : messages'[m] = messages[m]
  BY <1>1, <1>2, <1>3
<1>6. /\ accepted' \in Seq(Nat) /\ Len(accepted') = Len(messages) + 1
      /\ accepted'[Len(messages) + 1] = 0
      /\ \A m \in 1 .. Len(messages) : accepted'[m] = accepted[m]
  BY <1>2, <1>3
<1>7. /\ unclear' \in Seq(Nat) /\ Len(unclear') = Len(messages) + 1
      /\ unclear'[Len(messages) + 1] = 0
      /\ \A m \in 1 .. Len(messages) : unclear'[m] = unclear[m]
  BY <1>2, <1>3
<1>8. attempts' \in Seq(0 .. MaxAttempts) /\ Len(attempts') = Len(messages) + 1
  BY <1>2, <1>3, <1>4
<1>9. DOMAIN messages = 1 .. Len(messages) /\ DOMAIN messages' = 1 .. Len(messages) + 1
  BY <1>3, <1>5
<1>10. ASSUME NEW m \in DOMAIN messages
       PROVE  /\ messages'[m] = messages[m] /\ accepted'[m] = accepted[m]
              /\ unclear'[m] = unclear[m]
  BY ONLY <1>5, <1>6, <1>7, <1>9, <1>10
<1>11. LET m == Len(messages) + 1
       IN /\ DOMAIN messages' = DOMAIN messages \cup {m} /\ m \notin DOMAIN messages
          /\ m \in Nat \ {0}
  BY ONLY <1>3, <1>9
<1>12. LET m == Len(messages) + 1
       IN messages'[m].status = "queued" /\ accepted'[m] = 0 /\ unclear'[m] = 0
  BY ONLY <1>1, <1>5, <1>6, <1>7
<1>13. /\ Len(accepted') = Len(messages') /\ Len(unclear') = Len(messages')
       /\ Len(attempts') = Len(messages')
  BY ONLY <1>5, <1>6, <1>7, <1>8
<1> QED
  BY <1>5, <1>6, <1>7, <1>8, <1>10, <1>11, <1>12, <1>13

\* A message is written, and its send begins or does not.
LEMMA OutboxWrites ==
  ASSUME OutboxInv,
         \/ O!Link
         \/ O!SendDies
         \/ \E p \in Procs : O!Send(p)
  PROVE  OutboxInv'
<1>1. \E k \in Kinds : \E n \in {0, 1} : O!Written(k, n)
  BY DEF O!Link, O!SendDies, O!Send
<1>2. /\ messages' \in Seq(Message) /\ Len(messages') = Len(messages) + 1
      /\ accepted' \in Seq(Nat) /\ Len(accepted') = Len(messages')
      /\ unclear' \in Seq(Nat) /\ Len(unclear') = Len(messages')
      /\ attempts' \in Seq(0 .. MaxAttempts) /\ Len(attempts') = Len(messages')
      /\ \A m \in DOMAIN messages :
           /\ messages'[m] = messages[m] /\ accepted'[m] = accepted[m]
           /\ unclear'[m] = unclear[m]
  BY <1>1, MessageWritten
<1> DEFINE new == Len(messages) + 1
<1>3. /\ DOMAIN messages' = DOMAIN messages \cup {new} /\ new \notin DOMAIN messages
      /\ new \in Nat \ {0}
      /\ messages'[new].status = "queued" /\ accepted'[new] = 0 /\ unclear'[new] = 0
  BY <1>1, MessageWritten
<1>4. calm' = calm /\ stranded' = stranded
  BY <1>1 DEF O!Written
<1>5. /\ sends \in [Procs -> Sending] /\ stranded \subseteq DOMAIN messages
      /\ \A p \in Procs : IF sends[p].pc = "none" THEN sends[p].message = 0
                          ELSE sends[p].message \in DOMAIN messages
  BY DEF OutboxInv, OutboxTyped
<1>6. \/ sends' = sends
      \/ \E p \in Procs : /\ sends[p].pc = "none"
                          /\ sends' = [sends EXCEPT ![p] = [message |-> new, pc |-> "calling"]]
  BY DEF O!Link, O!SendDies, O!Send, O!Goes, O!At
<1> HIDE DEF new
<1>7. CASE sends' = sends
  <2>1. OutboxTyped'
    BY <1>2, <1>3, <1>4, <1>5, <1>7 DEF OutboxTyped
  <2>2. SentIsTaken'
    BY <1>2, <1>3, <1>5, <1>7 DEF OutboxInv, SentIsTaken
  <2>3. ASSUME calm PROVE TakenOnce'
    <3>1. TakenOnce
      BY <2>3 DEF OutboxInv
    <3>2. \A q, r \in Procs :
            sends'[q].pc # "none" /\ sends'[q].message = sends'[r].message => q = r
      BY <1>7, <3>1 DEF TakenOnce
    <3>3. \A q \in Procs : sends'[q].pc # "none" => messages'[sends'[q].message].status # "sent"
      BY <1>2, <1>5, <1>7, <3>1 DEF TakenOnce
    <3>4. ASSUME NEW m \in DOMAIN messages'
          PROVE  \/ accepted'[m] <= unclear'[m]
                 \/ /\ accepted'[m] <= 1 + unclear'[m]
                    /\ \/ messages'[m].status = "sent"
                       \/ \E q \in Procs : sends'[q].message = m /\ sends'[q].pc = "accepted"
      <4>1. CASE m = new
        BY <1>3, <4>1
      <4>2. CASE m \in DOMAIN messages
        BY <1>2, <1>7, <3>1, <4>2 DEF TakenOnce
      <4> QED
        BY <1>3, <4>1, <4>2
    <3> QED
      BY <3>2, <3>3, <3>4 DEF TakenOnce
  <2> QED
    BY <1>4, <2>1, <2>2, <2>3 DEF OutboxInv
<1>8. ASSUME NEW p \in Procs, sends[p].pc = "none",
             sends' = [sends EXCEPT ![p] = [message |-> new, pc |-> "calling"]]
      PROVE  OutboxInv'
  <2>1. [message |-> new, pc |-> "calling"] \in Sending
    BY <1>3 DEF Sending, SendPc
  <2>2. /\ sends' \in [Procs -> Sending]
        /\ sends'[p].message = new /\ sends'[p].pc = "calling"
        /\ \A q \in Procs \ {p} : sends'[q] = sends[q]
    BY <1>5, <1>8, <2>1
  <2>3. OutboxTyped'
    <3>1. stranded' \subseteq DOMAIN messages'
      BY <1>3, <1>4, <1>5
    <3>2. \A q \in Procs : IF sends'[q].pc = "none" THEN sends'[q].message = 0
                          ELSE sends'[q].message \in DOMAIN messages'
      BY <1>3, <1>5, <2>2
    <3> QED
      BY <1>2, <2>2, <3>1, <3>2 DEF OutboxTyped
  <2>4. SentIsTaken'
    BY <1>2, <1>3, <1>5, <2>2 DEF OutboxInv, SentIsTaken
  <2>5. ASSUME calm PROVE TakenOnce'
    <3>1. TakenOnce
      BY <2>5 DEF OutboxInv
    <3>2. \A q \in Procs \ {p} : sends[q].message # new
      BY <1>3, <1>5
    <3>3. \A q, r \in Procs :
            sends'[q].pc # "none" /\ sends'[q].message = sends'[r].message => q = r
      BY <1>3, <2>2, <3>1, <3>2 DEF TakenOnce
    <3>4. \A q \in Procs : sends'[q].pc # "none" => messages'[sends'[q].message].status # "sent"
      BY <1>2, <1>3, <1>5, <2>2, <3>1 DEF TakenOnce
    <3>5. \A m \in DOMAIN messages :
            (\E q \in Procs : sends[q].message = m /\ sends[q].pc = "accepted")
              => \E q \in Procs : sends'[q].message = m /\ sends'[q].pc = "accepted"
      BY <1>8, <2>2
    <3>6. ASSUME NEW m \in DOMAIN messages'
          PROVE  \/ accepted'[m] <= unclear'[m]
                 \/ /\ accepted'[m] <= 1 + unclear'[m]
                    /\ \/ messages'[m].status = "sent"
                       \/ \E q \in Procs : sends'[q].message = m /\ sends'[q].pc = "accepted"
      <4>1. CASE m = new
        BY <1>3, <4>1
      <4>2. CASE m \in DOMAIN messages
        BY <1>2, <3>1, <3>5, <4>2 DEF TakenOnce
      <4> QED
        BY <1>3, <4>1, <4>2
    <3> QED
      BY <3>3, <3>4, <3>6 DEF TakenOnce
  <2> QED
    BY <1>4, <2>3, <2>4, <2>5 DEF OutboxInv
<1> QED
  BY <1>6, <1>7, <1>8

\* A message's status is set, and nothing else of the messages changes.
LEMMA StatusSet ==
  ASSUME OutboxInv, NEW m \in DOMAIN messages, NEW s \in O!COMMUNICATION_STATUS,
         O!SetStatus(m, s)
  PROVE  /\ messages' \in Seq(Message) /\ Len(messages') = Len(messages)
         /\ DOMAIN messages' = DOMAIN messages
         /\ messages'[m].status = s
         /\ \A l \in DOMAIN messages \ {m} : messages'[l] = messages[l]
<1> DEFINE row == [messages[m] EXCEPT !.status = s]
<1>1. messages \in Seq(Message) /\ messages[m] \in Message
  BY DEF OutboxInv, OutboxTyped
<1>2. row \in Message /\ row.status = s
  BY <1>1 DEF Message
<1>3. messages' = [messages EXCEPT ![m] = row]
  BY DEF O!SetStatus
<1> HIDE DEF row
<1> QED
  BY <1>1, <1>2, <1>3

\* A message is marked as sent by hand.
LEMMA OutboxMarks ==
  ASSUME OutboxInv, NEW m \in DOMAIN messages, O!MarkSent(m)
  PROVE  OutboxInv'
<1>1. /\ O!SetStatus(m, "marked_sent")
      /\ UNCHANGED <<sends, accepted, unclear, stranded, attempts, calm>>
      /\ (calm => messages[m].status = "queued")
  BY DEF O!MarkSent
<1>2. /\ messages' \in Seq(Message) /\ Len(messages') = Len(messages)
      /\ DOMAIN messages' = DOMAIN messages
      /\ messages'[m].status = "marked_sent"
      /\ \A l \in DOMAIN messages \ {m} : messages'[l] = messages[l]
  BY <1>1, StatusSet DEF O!COMMUNICATION_STATUS
<1>3. OutboxTyped'
  BY <1>1, <1>2 DEF OutboxInv, OutboxTyped
<1>4. SentIsTaken'
  BY <1>1, <1>2 DEF OutboxInv, SentIsTaken
<1>5. ASSUME calm PROVE TakenOnce'
  <2>1. TakenOnce /\ messages[m].status = "queued"
    BY <1>1, <1>5 DEF OutboxInv
  <2>2. \A p \in Procs : sends[p].pc # "none" => sends[p].message \in DOMAIN messages
    BY DEF OutboxInv, OutboxTyped
  <2>3. \A p \in Procs : sends[p].pc # "none" => messages'[sends[p].message].status # "sent"
    BY <1>2, <2>1, <2>2 DEF TakenOnce
  <2>4. \A l \in DOMAIN messages : messages[l].status = "sent" => messages'[l].status = "sent"
    BY <1>2, <2>1
  <2> QED
    BY <1>1, <1>2, <2>1, <2>3, <2>4 DEF TakenOnce
<1> QED
  BY <1>1, <1>3, <1>4, <1>5 DEF OutboxInv

\* A retry begins for a message that is not sent.
LEMMA OutboxRetries ==
  ASSUME OutboxInv, NEW p \in Procs, NEW m \in DOMAIN messages, O!RetryRead(p, m)
  PROVE  OutboxInv'
<1>1. /\ UNCHANGED <<messages, accepted, unclear, stranded, calm>>
      /\ messages[m].status # "sent"
      /\ (calm => \A q \in Procs : sends[q].message # m)
      /\ sends[p].pc = "none"
      /\ sends' = [sends EXCEPT ![p] = [message |-> m, pc |-> "retrying"]]
      /\ attempts[m] < MaxAttempts /\ attempts' = [attempts EXCEPT ![m] = attempts[m] + 1]
  BY DEF O!RetryRead, O!Goes, O!At, O!Retryable, O!Under
<1>2. sends \in [Procs -> Sending] /\ m \in Nat
      /\ \A q \in Procs : IF sends[q].pc = "none" THEN sends[q].message = 0
                          ELSE sends[q].message \in DOMAIN messages
  BY DEF OutboxInv, OutboxTyped
<1>3. attempts' \in Seq(0 .. MaxAttempts) /\ Len(attempts') = Len(messages')
  <2>1. attempts \in Seq(0 .. MaxAttempts) /\ Len(attempts) = Len(messages)
        /\ m \in DOMAIN attempts /\ attempts[m] \in 0 .. MaxAttempts
    BY OutboxDomains DEF OutboxInv, OutboxTyped
  <2>2. attempts[m] + 1 \in 0 .. MaxAttempts
    BY <1>1, <2>1, BoundsAssumption
  <2> QED
    BY <1>1, <2>1, <2>2
<1>4. [message |-> m, pc |-> "retrying"] \in Sending
  BY <1>2 DEF Sending, SendPc
<1>5. /\ sends' \in [Procs -> Sending]
      /\ sends'[p].message = m /\ sends'[p].pc = "retrying"
      /\ \A q \in Procs \ {p} : sends'[q] = sends[q]
  BY <1>1, <1>2, <1>4
<1>6. OutboxTyped'
  BY <1>1, <1>2, <1>3, <1>5 DEF OutboxInv, OutboxTyped
<1>7. SentIsTaken'
  BY <1>1, <1>5 DEF OutboxInv, SentIsTaken
<1>8. ASSUME calm PROVE TakenOnce'
  <2>1. TakenOnce /\ \A q \in Procs : sends[q].message # m
    BY <1>1, <1>8 DEF OutboxInv
  <2>2. \A q, r \in Procs :
          sends'[q].pc # "none" /\ sends'[q].message = sends'[r].message => q = r
    BY <1>5, <2>1 DEF TakenOnce
  <2>3. \A q \in Procs : sends'[q].pc # "none" => messages'[sends'[q].message].status # "sent"
    BY <1>1, <1>2, <1>5, <2>1 DEF TakenOnce
  <2>4. \A l \in DOMAIN messages :
          (\E q \in Procs : sends[q].message = l /\ sends[q].pc = "accepted")
            => \E q \in Procs : sends'[q].message = l /\ sends'[q].pc = "accepted"
    BY <1>1, <1>5
  <2>5. \A l \in DOMAIN messages :
          \/ accepted[l] <= unclear[l]
          \/ /\ accepted[l] <= 1 + unclear[l]
             /\ \/ messages[l].status = "sent"
                \/ \E q \in Procs : sends[q].message = l /\ sends[q].pc = "accepted"
    BY <2>1 DEF TakenOnce
  <2>6. \A l \in DOMAIN messages :
          \/ accepted[l] <= unclear[l]
          \/ /\ accepted[l] <= 1 + unclear[l]
             /\ \/ messages'[l].status = "sent"
                \/ \E q \in Procs : sends'[q].message = l /\ sends'[q].pc = "accepted"
    BY <1>1, <2>4, <2>5
  <2> QED
    BY <1>1, <2>2, <2>3, <2>6 DEF TakenOnce
<1> QED
  BY <1>1, <1>6, <1>7, <1>8 DEF OutboxInv

\* A send is known to be at some place.
LEMMA SendGoes ==
  ASSUME NEW x \in Sending, NEW pc \in SendPc
  PROVE  LET r == [x EXCEPT !.pc = pc]
         IN r \in Sending /\ r.pc = pc /\ r.message = x.message
BY DEF Sending

\* The provider takes the message or refuses it, and of what it took the answer may be
\* lost.
LEMMA OutboxCalls ==
  ASSUME OutboxInv, NEW p \in Procs, O!Accept(p) \/ O!Refuse(p)
  PROVE  OutboxInv'
<1> DEFINE m == sends[p].message
<1>1. sends[p].pc = "calling" /\ UNCHANGED <<messages, stranded, attempts, calm>>
  BY DEF O!Accept, O!Refuse, O!At
<1>2. /\ sends \in [Procs -> Sending] /\ sends[p] \in Sending /\ m \in DOMAIN messages
      /\ \A q \in Procs : IF sends[q].pc = "none" THEN sends[q].message = 0
                          ELSE sends[q].message \in DOMAIN messages
  BY <1>1 DEF OutboxInv, OutboxTyped
<1>3. /\ accepted \in Seq(Nat) /\ Len(accepted) = Len(messages) /\ accepted[m] \in Nat
      /\ unclear \in Seq(Nat) /\ Len(unclear) = Len(messages) /\ unclear[m] \in Nat
      /\ DOMAIN accepted = DOMAIN messages /\ DOMAIN unclear = DOMAIN messages
      /\ \A l \in DOMAIN messages : accepted[l] \in Nat /\ unclear[l] \in Nat
  <2> HIDE DEF m
  <2> QED
    BY <1>2, OutboxDomains DEF OutboxInv, OutboxTyped
<1>4. PICK pc \in {"accepted", "refused"} :
        /\ sends' = [sends EXCEPT ![p] = [sends[p] EXCEPT !.pc = pc]]
        /\ \/ pc = "accepted" /\ accepted' = [accepted EXCEPT ![m] = accepted[m] + 1]
              /\ unclear' = unclear
           \/ pc = "refused" /\ accepted' = [accepted EXCEPT ![m] = accepted[m] + 1]
              /\ unclear' = [unclear EXCEPT ![m] = unclear[m] + 1]
           \/ pc = "refused" /\ accepted' = accepted /\ unclear' = unclear
  BY DEF O!Accept, O!Refuse
<1> HIDE DEF m
<1>5. /\ sends' \in [Procs -> Sending] /\ sends'[p].pc = pc /\ sends'[p].message = m
      /\ \A q \in Procs \ {p} : sends'[q] = sends[q]
  <2>1. PICK r : r = [sends[p] EXCEPT !.pc = pc]
    OBVIOUS
  <2>2. r \in Sending /\ r.pc = pc /\ r.message = m
    <3>1. pc \in SendPc
      BY DEF SendPc
    <3> QED
      BY <1>2, <2>1, <3>1, SendGoes DEF m
  <2> QED
    BY <1>2, <1>4, <2>1, <2>2
<1>6. accepted[m] + 1 \in Nat /\ unclear[m] + 1 \in Nat
  BY <1>3
<1>7. /\ accepted' \in Seq(Nat) /\ Len(accepted') = Len(messages)
      /\ unclear' \in Seq(Nat) /\ Len(unclear') = Len(messages)
      /\ \A l \in DOMAIN messages \ {m} : accepted'[l] = accepted[l] /\ unclear'[l] = unclear[l]
      /\ accepted'[m] \in Nat /\ unclear'[m] \in Nat
      /\ \/ pc = "accepted" /\ accepted'[m] = accepted[m] + 1 /\ unclear'[m] = unclear[m]
         \/ pc = "refused" /\ accepted'[m] = accepted[m] + 1 /\ unclear'[m] = unclear[m] + 1
         \/ pc = "refused" /\ accepted'[m] = accepted[m] /\ unclear'[m] = unclear[m]
  <2>1. CASE accepted' = accepted /\ unclear' = unclear
    BY <1>2, <1>3, <1>4, <2>1
  <2>2. CASE accepted' = [accepted EXCEPT ![m] = accepted[m] + 1] /\ unclear' = unclear
             /\ pc = "accepted"
    <3>1. m \in DOMAIN accepted
      BY <1>2, <1>3
    <3> QED
      BY <1>3, <1>6, <2>2, <3>1, CountSet
  <2>3. CASE accepted' = [accepted EXCEPT ![m] = accepted[m] + 1]
             /\ unclear' = [unclear EXCEPT ![m] = unclear[m] + 1] /\ pc = "refused"
    <3>1. m \in DOMAIN accepted /\ m \in DOMAIN unclear
      BY <1>2, <1>3
    <3> QED
      BY <1>3, <1>6, <2>3, <3>1, CountSet
  <2> QED
    BY <1>4, <2>1, <2>2, <2>3
<1>8. OutboxTyped'
  BY <1>1, <1>2, <1>4, <1>5, <1>7 DEF OutboxInv, OutboxTyped
<1>9. SentIsTaken'
  <2>1. \A l \in DOMAIN messages : accepted[l] > 0 => accepted'[l] > 0
    <3>1. accepted[m] > 0 => accepted'[m] > 0
      BY <1>3, <1>7
    <3> QED
      BY <1>7, <3>1
  <2>2. pc = "accepted" => accepted'[m] > 0
    BY <1>3, <1>7
  <2>3. \A l \in DOMAIN messages : messages'[l].status = "sent" => accepted'[l] > 0
    BY <1>1, <2>1 DEF OutboxInv, SentIsTaken
  <2>4. \A q \in Procs \ {p} : sends[q].pc = "accepted" => accepted'[sends[q].message] > 0
    BY <1>2, <2>1 DEF OutboxInv, SentIsTaken
  <2> QED
    BY <1>1, <1>5, <2>2, <2>3, <2>4 DEF SentIsTaken
<1>10. ASSUME calm PROVE TakenOnce'
  <2>1. TakenOnce
    BY <1>10 DEF OutboxInv
  <2>2. \A q, r \in Procs :
          sends'[q].pc # "none" /\ sends'[q].message = sends'[r].message => q = r
    BY <1>1, <1>4, <1>5, <2>1 DEF TakenOnce, m
  <2>3. \A q \in Procs : sends'[q].pc # "none" => messages'[sends'[q].message].status # "sent"
    BY <1>1, <1>5, <2>1 DEF TakenOnce, m
  <2>4. accepted[m] <= unclear[m]
    BY <1>1, <1>2, <2>1 DEF TakenOnce, m
  <2>5. \/ accepted'[m] <= unclear'[m]
        \/ accepted'[m] <= 1 + unclear'[m] /\ pc = "accepted"
    BY <1>3, <1>7, <2>4
  <2>6. \A l \in DOMAIN messages \ {m} :
          (\E q \in Procs : sends[q].message = l /\ sends[q].pc = "accepted")
            => \E q \in Procs : sends'[q].message = l /\ sends'[q].pc = "accepted"
    BY <1>5 DEF m
  <2>7. \A l \in DOMAIN messages \ {m} :
          \/ accepted[l] <= unclear[l]
          \/ /\ accepted[l] <= 1 + unclear[l]
             /\ \/ messages[l].status = "sent"
                \/ \E q \in Procs : sends'[q].message = l /\ sends'[q].pc = "accepted"
    BY <2>1, <2>6 DEF TakenOnce
  <2>8. ASSUME NEW l \in DOMAIN messages
        PROVE  \/ accepted'[l] <= unclear'[l]
               \/ /\ accepted'[l] <= 1 + unclear'[l]
                  /\ \/ messages[l].status = "sent"
                     \/ \E q \in Procs : sends'[q].message = l /\ sends'[q].pc = "accepted"
    <3>1. CASE l = m
      BY <1>5, <2>5, <3>1
    <3>2. CASE l # m
      BY <1>7, <2>7, <3>2
    <3> QED
      BY <3>1, <3>2
  <2> QED
    BY <1>1, <2>2, <2>3, <2>8 DEF TakenOnce
<1> QED
  BY <1>1, <1>8, <1>9, <1>10 DEF OutboxInv

\* A retry goes on: the row is queued, or the email is built; the send has the message
\* it had, and comes to the call or to the building of the email.
LEMMA OutboxRetryGoesOn ==
  ASSUME OutboxInv, NEW p \in Procs, O!RetryQueue(p) \/ O!Build(p)
  PROVE  OutboxInv'
<1> DEFINE m == sends[p].message
<1>1. /\ sends[p].pc \in {"retrying", "building"} /\ stranded' \subseteq stranded
      /\ UNCHANGED <<accepted, unclear, attempts, calm>>
      /\ messages' = messages \/ O!SetStatus(m, "queued")
  BY DEF O!RetryQueue, O!Build, O!At
<1>2. /\ sends \in [Procs -> Sending] /\ sends[p] \in Sending
      /\ m \in DOMAIN messages /\ m \in Nat
      /\ \A q \in Procs : IF sends[q].pc = "none" THEN sends[q].message = 0
                          ELSE sends[q].message \in DOMAIN messages
  BY <1>1 DEF OutboxInv, OutboxTyped
<1>3. \E pc \in {"building", "calling"} :
        sends' = [sends EXCEPT ![p] = [message |-> m, pc |-> pc]]
  <2>1. CASE O!RetryQueue(p)
    BY <2>1 DEF O!RetryQueue, O!Goes
  <2>2. CASE O!Build(p)
    <3>1. [sends[p] EXCEPT !.pc = "calling"] = [message |-> m, pc |-> "calling"]
      BY <1>2 DEF Sending
    <3> QED
      BY <2>2, <3>1 DEF O!Build
  <2> QED
    BY <2>1, <2>2
<1>4. /\ sends' \in [Procs -> Sending]
      /\ sends'[p].message = m /\ sends'[p].pc \in {"building", "calling"}
      /\ \A q \in Procs \ {p} : sends'[q] = sends[q]
  <2>1. \A pc \in {"building", "calling"} : [message |-> m, pc |-> pc] \in Sending
    BY <1>2 DEF Sending, SendPc
  <2> QED
    BY <1>2, <1>3, <2>1
<1>5. /\ messages' \in Seq(Message) /\ Len(messages') = Len(messages)
      /\ DOMAIN messages' = DOMAIN messages
      /\ messages'[m].status \in {"queued", messages[m].status}
      /\ \A l \in DOMAIN messages \ {m} : messages'[l] = messages[l]
  <2>1. CASE messages' = messages
    BY <2>1 DEF OutboxInv, OutboxTyped
  <2>2. CASE O!SetStatus(m, "queued")
    BY <1>2, <2>2, StatusSet DEF O!COMMUNICATION_STATUS
  <2> QED
    BY <1>1, <2>1, <2>2
<1> HIDE DEF m
<1>6. OutboxTyped'
  BY <1>1, <1>2, <1>4, <1>5 DEF OutboxInv, OutboxTyped
<1>7. SentIsTaken'
  BY <1>1, <1>2, <1>4, <1>5 DEF OutboxInv, SentIsTaken
<1>8. ASSUME calm PROVE TakenOnce'
  <2>1. TakenOnce
    BY <1>8 DEF OutboxInv
  <2>2. messages[m].status # "sent" /\ messages'[m].status # "sent"
    BY <1>1, <1>5, <2>1 DEF TakenOnce, m
  <2>3. \A q, r \in Procs :
          sends'[q].pc # "none" /\ sends'[q].message = sends'[r].message => q = r
    BY <1>1, <1>4, <2>1 DEF TakenOnce, m
  <2>4. \A q \in Procs : sends'[q].pc # "none" => messages'[sends'[q].message].status # "sent"
    BY <1>2, <1>4, <1>5, <2>1, <2>2 DEF TakenOnce
  <2>5. \A l \in DOMAIN messages :
          (\E q \in Procs : sends[q].message = l /\ sends[q].pc = "accepted")
            => \E q \in Procs : sends'[q].message = l /\ sends'[q].pc = "accepted"
    BY <1>1, <1>4
  <2>6. \A l \in DOMAIN messages : messages[l].status = "sent" => messages'[l].status = "sent"
    BY <1>5, <2>2
  <2>7. \A l \in DOMAIN messages :
          \/ accepted[l] <= unclear[l]
          \/ /\ accepted[l] <= 1 + unclear[l]
             /\ \/ messages'[l].status = "sent"
                \/ \E q \in Procs : sends'[q].message = l /\ sends'[q].pc = "accepted"
    BY <2>1, <2>5, <2>6 DEF TakenOnce
  <2> QED
    BY <1>1, <1>5, <2>3, <2>4, <2>7 DEF TakenOnce
<1> QED
  BY <1>1, <1>6, <1>7, <1>8 DEF OutboxInv

\* A retry gives up, or what a send was refused is not recorded: it ends, and the row
\* stays as it is.
LEMMA OutboxGivesUp ==
  ASSUME OutboxInv, NEW p \in Procs, O!RetryFails(p) \/ O!RecordFails(p)
  PROVE  OutboxInv'
<1> DEFINE m == sends[p].message
<1>1. /\ sends[p].pc \in {"retrying", "building", "refused"}
      /\ sends' = [sends EXCEPT ![p] = O!NoSend] /\ stranded' \subseteq stranded \cup {m}
      /\ UNCHANGED <<messages, accepted, unclear, attempts, calm>>
  BY DEF O!RetryFails, O!RecordFails, O!Ends, O!At
<1>2. /\ sends \in [Procs -> Sending] /\ m \in DOMAIN messages
      /\ \A q \in Procs : IF sends[q].pc = "none" THEN sends[q].message = 0
                          ELSE sends[q].message \in DOMAIN messages
  BY <1>1 DEF OutboxInv, OutboxTyped
<1>3. /\ sends' \in [Procs -> Sending] /\ sends'[p].pc = "none" /\ sends'[p].message = 0
      /\ \A q \in Procs \ {p} : sends'[q] = sends[q]
  BY <1>1, <1>2, NoSendIsNone
<1>4. OutboxTyped'
  BY <1>1, <1>2, <1>3 DEF OutboxInv, OutboxTyped
<1>5. SentIsTaken'
  BY <1>1, <1>3 DEF OutboxInv, SentIsTaken
<1>6. ASSUME calm PROVE TakenOnce'
  <2>1. TakenOnce
    BY <1>6 DEF OutboxInv
  <2>2. \A q, r \in Procs :
          sends'[q].pc # "none" /\ sends'[q].message = sends'[r].message => q = r
    <3>1. 0 \notin DOMAIN messages
      BY OutboxDomains DEF OutboxInv
    <3> QED
      BY <1>2, <1>3, <2>1, <3>1 DEF TakenOnce
  <2>3. \A q \in Procs : sends'[q].pc # "none" => messages'[sends'[q].message].status # "sent"
    BY <1>1, <1>3, <2>1 DEF TakenOnce
  <2>4. \A l \in DOMAIN messages :
          (\E q \in Procs : sends[q].message = l /\ sends[q].pc = "accepted")
            => \E q \in Procs : sends'[q].message = l /\ sends'[q].pc = "accepted"
    BY <1>1, <1>3
  <2> QED
    BY <1>1, <2>1, <2>2, <2>3, <2>4 DEF TakenOnce
<1> QED
  BY <1>1, <1>4, <1>5, <1>6 DEF OutboxInv

\* A message that was taken is not recorded as sent, and counts as one that is unclear.
LEMMA OutboxUnsaid ==
  ASSUME OutboxInv, NEW p \in Procs, O!SentNotRecorded(p)
  PROVE  OutboxInv'
<1> DEFINE m == sends[p].message
<1>1. /\ sends[p].pc = "accepted"
      /\ sends' = [sends EXCEPT ![p] = [sends[p] EXCEPT !.pc = "refused"]]
      /\ unclear' = [unclear EXCEPT ![m] = unclear[m] + 1]
      /\ UNCHANGED <<messages, accepted, stranded, attempts, calm>>
  BY DEF O!SentNotRecorded, O!At
<1>2. /\ sends \in [Procs -> Sending] /\ sends[p] \in Sending /\ m \in DOMAIN messages
      /\ \A q \in Procs : IF sends[q].pc = "none" THEN sends[q].message = 0
                          ELSE sends[q].message \in DOMAIN messages
  BY <1>1 DEF OutboxInv, OutboxTyped
<1>3. /\ unclear \in Seq(Nat) /\ Len(unclear) = Len(messages)
      /\ DOMAIN unclear = DOMAIN messages
      /\ \A l \in DOMAIN messages : accepted[l] \in Nat /\ unclear[l] \in Nat
  BY OutboxDomains DEF OutboxInv, OutboxTyped
<1> HIDE DEF m
<1>4. /\ sends' \in [Procs -> Sending] /\ sends'[p].pc = "refused" /\ sends'[p].message = m
      /\ \A q \in Procs \ {p} : sends'[q] = sends[q]
  <2>1. PICK r : r = [sends[p] EXCEPT !.pc = "refused"]
    OBVIOUS
  <2>2. r \in Sending /\ r.pc = "refused" /\ r.message = m
    BY <1>2, <2>1, SendGoes DEF m, SendPc
  <2> QED
    BY <1>1, <1>2, <2>1, <2>2
<1>5. /\ unclear' \in Seq(Nat) /\ Len(unclear') = Len(messages)
      /\ unclear'[m] = unclear[m] + 1
      /\ \A l \in DOMAIN messages \ {m} : unclear'[l] = unclear[l]
  <2>1. unclear[m] + 1 \in Nat /\ m \in DOMAIN unclear
    BY <1>2, <1>3
  <2> QED
    BY <1>1, <1>3, <2>1, CountSet
<1>6. OutboxTyped'
  BY <1>1, <1>2, <1>4, <1>5 DEF OutboxInv, OutboxTyped
<1>7. SentIsTaken'
  BY <1>1, <1>4 DEF OutboxInv, SentIsTaken
<1>8. ASSUME calm PROVE TakenOnce'
  <2>1. TakenOnce
    BY <1>8 DEF OutboxInv
  <2>2. \A q, r \in Procs :
          sends'[q].pc # "none" /\ sends'[q].message = sends'[r].message => q = r
    BY <1>1, <1>4, <2>1 DEF TakenOnce, m
  <2>3. \A q \in Procs : sends'[q].pc # "none" => messages'[sends'[q].message].status # "sent"
    BY <1>1, <1>4, <2>1 DEF TakenOnce, m
  <2>4. accepted[m] <= 1 + unclear[m]
    BY <1>2, <1>3, <2>1 DEF TakenOnce
  <2>5. accepted'[m] <= unclear'[m]
    BY <1>1, <1>2, <1>3, <1>5, <2>4
  <2>6. \A l \in DOMAIN messages \ {m} :
          (\E q \in Procs : sends[q].message = l /\ sends[q].pc = "accepted")
            => \E q \in Procs : sends'[q].message = l /\ sends'[q].pc = "accepted"
    BY <1>4 DEF m
  <2>7. ASSUME NEW l \in DOMAIN messages
        PROVE  \/ accepted'[l] <= unclear'[l]
               \/ /\ accepted'[l] <= 1 + unclear'[l]
                  /\ \/ messages[l].status = "sent"
                     \/ \E q \in Procs : sends'[q].message = l /\ sends'[q].pc = "accepted"
    <3>1. CASE l = m
      BY <2>5, <3>1
    <3>2. CASE l # m
      BY <1>1, <1>5, <2>1, <2>6, <3>2 DEF TakenOnce
    <3> QED
      BY <3>1, <3>2
  <2> QED
    BY <1>1, <2>2, <2>3, <2>7 DEF TakenOnce
<1> QED
  BY <1>1, <1>6, <1>7, <1>8 DEF OutboxInv

\* A send records how it ended.
LEMMA OutboxRecords ==
  ASSUME OutboxInv, NEW p \in Procs, O!Record(p)
  PROVE  OutboxInv'
<1> DEFINE m == sends[p].message
           s == IF sends[p].pc = "accepted" THEN "sent" ELSE "failed"
<1>1. /\ sends[p].pc \in {"accepted", "refused"} /\ O!SetStatus(m, s)
      /\ sends' = [sends EXCEPT ![p] = O!NoSend]
      /\ UNCHANGED <<accepted, unclear, stranded, attempts, calm>>
  BY DEF O!Record, O!Ends, O!Outcome
<1>2. /\ sends \in [Procs -> Sending] /\ m \in DOMAIN messages
      /\ \A q \in Procs : IF sends[q].pc = "none" THEN sends[q].message = 0
                          ELSE sends[q].message \in DOMAIN messages
  BY <1>1 DEF OutboxInv, OutboxTyped
<1>3. /\ messages' \in Seq(Message) /\ Len(messages') = Len(messages)
      /\ DOMAIN messages' = DOMAIN messages
      /\ messages'[m].status = s
      /\ \A l \in DOMAIN messages \ {m} : messages'[l] = messages[l]
  BY <1>1, <1>2, StatusSet DEF O!COMMUNICATION_STATUS
<1>4. /\ sends' \in [Procs -> Sending] /\ sends'[p].pc = "none" /\ sends'[p].message = 0
      /\ \A q \in Procs \ {p} : sends'[q] = sends[q]
  BY <1>1, <1>2, NoSendIsNone
<1>5. OutboxTyped'
  BY <1>1, <1>2, <1>3, <1>4 DEF OutboxInv, OutboxTyped
<1>6. SentIsTaken'
  BY <1>1, <1>2, <1>3, <1>4 DEF OutboxInv, SentIsTaken
<1>7. ASSUME calm PROVE TakenOnce'
  <2>1. TakenOnce
    BY <1>7 DEF OutboxInv
  <2>2. \A q, r \in Procs :
          sends'[q].pc # "none" /\ sends'[q].message = sends'[r].message => q = r
    <3>1. 0 \notin DOMAIN messages
      BY OutboxDomains DEF OutboxInv
    <3> QED
      BY <1>2, <1>4, <2>1, <3>1 DEF TakenOnce
  <2>3. \A q \in Procs \ {p} : sends[q].pc # "none" => sends[q].message # m
    BY <2>1 DEF TakenOnce
  <2>4. \A q \in Procs : sends'[q].pc # "none" => messages'[sends'[q].message].status # "sent"
    BY <1>2, <1>3, <1>4, <2>1, <2>3 DEF TakenOnce
  <2>5. \A l \in DOMAIN messages \ {m} :
          (\E q \in Procs : sends[q].message = l /\ sends[q].pc = "accepted")
            => \E q \in Procs : sends'[q].message = l /\ sends'[q].pc = "accepted"
    BY <1>4
  <2>6. \A l \in DOMAIN messages \ {m} :
          \/ accepted[l] <= unclear[l]
          \/ /\ accepted[l] <= 1 + unclear[l]
             /\ \/ messages'[l].status = "sent"
                \/ \E q \in Procs : sends'[q].message = l /\ sends'[q].pc = "accepted"
    BY <1>3, <2>1, <2>5 DEF TakenOnce
  <2>7. \/ accepted[m] <= unclear[m]
        \/ accepted[m] <= 1 + unclear[m] /\ messages'[m].status = "sent"
    <3>1. CASE sends[p].pc = "accepted"
      BY <1>2, <1>3, <2>1, <3>1 DEF TakenOnce
    <3>2. CASE sends[p].pc = "refused"
      BY <1>2, <2>1, <3>2 DEF TakenOnce
    <3> QED
      BY <1>1, <3>1, <3>2
  <2>8. \A l \in DOMAIN messages :
          \/ accepted[l] <= unclear[l]
          \/ /\ accepted[l] <= 1 + unclear[l]
             /\ \/ messages'[l].status = "sent"
                \/ \E q \in Procs : sends'[q].message = l /\ sends'[q].pc = "accepted"
    BY <2>6, <2>7
  <2> QED
    BY <1>1, <1>3, <2>2, <2>4, <2>8 DEF TakenOnce
<1> QED
  BY <1>1, <1>5, <1>6, <1>7 DEF OutboxInv

\* No step leaves the invariant of the messages.
LEMMA NextOutbox == OutboxInv /\ [Next]_vars => OutboxInv'
<1> SUFFICES ASSUME OutboxInv, [Next]_vars PROVE OutboxInv'
  OBVIOUS
<1>1. O!Next \/ UNCHANGED O_vars
  BY DEF Next, vars
<1>2. CASE O!Crash
  <2>1. /\ ~calm /\ sends' = [p \in Procs |-> O!NoSend]
        /\ UNCHANGED <<messages, accepted, unclear, stranded, attempts, calm>>
    BY <1>2 DEF O!Crash
  <2>2. sends' \in [Procs -> Sending] /\ \A p \in Procs : sends'[p] = O!NoSend
    BY <2>1, NoSendIsNone
  <2> QED
    BY <2>1, <2>2, NoSendIsNone DEF OutboxInv, OutboxTyped, SentIsTaken
<1>3. CASE O!Next
  BY <1>2, <1>3, OutboxWrites, OutboxMarks, OutboxRetries, OutboxRetryGoesOn, OutboxGivesUp,
     OutboxCalls, OutboxUnsaid, OutboxRecords
     DEF O!Next, O!RetryGoesOn, O!Called, O!Told
<1>4. CASE UNCHANGED O_vars
  BY <1>4 DEF O_vars, OutboxInv, OutboxTyped, SentIsTaken, TakenOnce
<1> QED
  BY <1>1, <1>3, <1>4

\* No message says sent that the provider has not taken; and in the well-behaved run
\* none is taken twice, but for answers that were lost (communications.service.ts,
\* deliver and retry).
THEOREM TakenNoTwice == Spec => []AcceptedOnce
<1>1. OutboxInv => AcceptedOnce
  <2> SUFFICES ASSUME OutboxInv, NEW m \in DOMAIN messages
               PROVE  /\ messages[m].status = "sent" => accepted[m] > 0
                      /\ calm => accepted[m] <= 1 + unclear[m]
    BY DEF AcceptedOnce, O!AcceptedOnce
  <2>1. accepted[m] \in Nat /\ unclear[m] \in Nat
    BY DEF OutboxInv, OutboxTyped
  <2> QED
    BY <2>1 DEF OutboxInv, SentIsTaken, TakenOnce
<1> QED
  BY <1>1, InitOutbox, NextOutbox, PTL DEF Spec

-----------------------------------------------------------------------------
(* Exports.                                                                *)

Job == [status : {"queued", "running", "completed", "failed"}, key : BOOLEAN, due : BOOLEAN]

WorkerPc == {"start", "put", "complete", "notify", "ended"}

\* A job whose rendering is over and whose file it came to name.
Claimed(j) == worker[j] \in {"notify", "ended"} /\ j \notin unclaimed

\* A file the sweep may take is one some row named; and a file that no row came to name,
\* or may yet, is in the bucket.
FilesNamed ==
  /\ \A j \in E!Jobs : jobs[j].key \/ j \in sweep.list \cup sweep.gone => Claimed(j)
  /\ \A j \in unclaimed : j \in objects /\ worker[j] = "ended"
  /\ \A j \in E!Jobs : worker[j] = "complete" => j \in objects

ExportsInv ==
  /\ jobs \in Seq(Job) /\ worker \in Seq(WorkerPc) /\ Len(worker) = Len(jobs)
  /\ objects \subseteq E!Jobs /\ unclaimed \subseteq E!Jobs
  /\ sweep \in [list : SUBSET E!Jobs, gone : SUBSET E!Jobs]
  /\ FilesNamed

\* A sweep that is not at work holds no file.
LEMMA NoSweepYet ==
  ASSUME NEW S
  PROVE  E!NoSweep \in [list : SUBSET S, gone : SUBSET S] /\ E!NoSweep.list = {}
         /\ E!NoSweep.gone = {}
BY DEF E!NoSweep

\* Nothing is queued yet.
LEMMA InitExports == Init => ExportsInv
<1> SUFFICES ASSUME Init PROVE ExportsInv
  OBVIOUS
<1>1. jobs = <<>> /\ worker = <<>> /\ objects = {} /\ sweep = E!NoSweep /\ unclaimed = {}
  BY DEF Init, E!Init
<1>2. E!Jobs = {}
  BY <1>1 DEF E!Jobs
<1> QED
  BY <1>1, <1>2, NoSweepYet DEF ExportsInv, FilesNamed

\* A job is queued.
LEMMA ExportQueued ==
  ASSUME ExportsInv, E!Queue
  PROVE  ExportsInv'
<1> DEFINE row == [status |-> "queued", key |-> FALSE, due |-> FALSE]
           new == Len(jobs) + 1
<1>1. row \in Job /\ ~row.key
  BY DEF Job
<1>2. jobs' = Append(jobs, row) /\ worker' = Append(worker, "start")
      /\ UNCHANGED objects /\ UNCHANGED sweep /\ UNCHANGED unclaimed
  BY DEF E!Queue
<1>3. jobs \in Seq(Job) /\ worker \in Seq(WorkerPc) /\ Len(worker) = Len(jobs)
  BY DEF ExportsInv
<1> HIDE DEF row
<1>4. /\ jobs' \in Seq(Job) /\ jobs'[new] = row /\ \A j \in DOMAIN jobs : jobs'[j] = jobs[j]
      /\ DOMAIN jobs' = DOMAIN jobs \cup {new} /\ new \notin DOMAIN jobs
      /\ Len(jobs') = new
  BY <1>1, <1>2, <1>3
<1>5. /\ worker' \in Seq(WorkerPc) /\ worker'[new] = "start" /\ Len(worker') = Len(jobs')
      /\ \A j \in DOMAIN jobs : worker'[j] = worker[j]
  <2>1. "start" \in WorkerPc
    BY DEF WorkerPc
  <2> QED
    BY <1>2, <1>3, <1>4, <2>1
<1> HIDE DEF new
<1>6. sweep' \in [list : SUBSET E!Jobs', gone : SUBSET E!Jobs']
      /\ objects \subseteq E!Jobs' /\ unclaimed \subseteq E!Jobs'
  BY <1>2, <1>4 DEF ExportsInv, E!Jobs
<1>7. new \notin sweep.list \cup sweep.gone \cup unclaimed
  BY <1>4 DEF ExportsInv, E!Jobs
<1>8. FilesNamed'
  BY <1>1, <1>2, <1>4, <1>5, <1>7 DEF ExportsInv, FilesNamed, Claimed, E!Jobs
<1> QED
  BY <1>2, <1>4, <1>5, <1>6, <1>8 DEF ExportsInv

\* A job's row changes, and how far its rendering is.
LEMMA ExportStep ==
  ASSUME ExportsInv, NEW j \in E!Jobs, NEW row \in Job, NEW pc \in WorkerPc,
         jobs' = [jobs EXCEPT ![j] = row], worker' = [worker EXCEPT ![j] = pc]
  PROVE  /\ jobs' \in Seq(Job) /\ worker' \in Seq(WorkerPc) /\ Len(worker') = Len(jobs')
         /\ E!Jobs' = E!Jobs /\ jobs'[j] = row /\ worker'[j] = pc
         /\ \A i \in E!Jobs \ {j} : jobs'[i] = jobs[i] /\ worker'[i] = worker[i]
<1>1. /\ jobs \in Seq(Job) /\ worker \in Seq(WorkerPc) /\ Len(worker) = Len(jobs)
      /\ DOMAIN jobs = 1 .. Len(jobs) /\ DOMAIN worker = 1 .. Len(jobs)
  BY DEF ExportsInv
<1>2. j \in DOMAIN jobs /\ j \in DOMAIN worker
  BY <1>1 DEF E!Jobs
<1>3. /\ jobs' \in Seq(Job) /\ Len(jobs') = Len(jobs) /\ DOMAIN jobs' = DOMAIN jobs
      /\ jobs'[j] = row /\ \A i \in DOMAIN jobs \ {j} : jobs'[i] = jobs[i]
  BY <1>1, <1>2
<1>4. /\ worker' \in Seq(WorkerPc) /\ Len(worker') = Len(worker)
      /\ worker'[j] = pc /\ \A i \in DOMAIN worker \ {j} : worker'[i] = worker[i]
  BY <1>1, <1>2
<1> QED
  BY <1>1, <1>3, <1>4 DEF E!Jobs

\* A row of a job that is at some status, with a key or without.
LEMMA ExportRow ==
  ASSUME ExportsInv, NEW j \in E!Jobs
  PROVE  /\ jobs[j] \in Job /\ worker[j] \in WorkerPc
         /\ \A s \in {"queued", "running", "completed", "failed"}, b \in BOOLEAN :
              [jobs[j] EXCEPT !.status = s, !.key = b] \in Job
         /\ [jobs[j] EXCEPT !.due = TRUE] \in Job
         /\ [jobs[j] EXCEPT !.key = FALSE] \in Job
         /\ \A s \in {"queued", "running", "completed", "failed"} :
              [jobs[j] EXCEPT !.status = s] \in Job
<1>1. /\ jobs \in Seq(Job) /\ worker \in Seq(WorkerPc)
      /\ j \in 1 .. Len(jobs) /\ j \in 1 .. Len(worker)
  BY DEF ExportsInv, E!Jobs
<1>2. jobs[j] \in Job
  BY <1>1, ElementOfSeq
<1>3. worker[j] \in WorkerPc
  BY <1>1, ElementOfSeq
<1> QED
  BY <1>2, <1>3 DEF Job

\* What a job renders, from its start to the notice, or to where it fails.
LEMMA ExportRendered ==
  ASSUME ExportsInv, NEW j \in E!Jobs,
         \/ E!Start(j) \/ E!Put(j) \/ E!Complete(j) \/ E!Notify(j) \/ E!JobFails(j)
  PROVE  ExportsInv'
<1> DEFINE x == jobs[j]
<1>1. /\ x \in Job /\ worker[j] \in WorkerPc
      /\ [x EXCEPT !.status = "running"] \in Job /\ [x EXCEPT !.status = "failed"] \in Job
      /\ [x EXCEPT !.status = "completed", !.key = TRUE] \in Job
  BY ExportRow
<1>2. FilesNamed /\ unclaimed \subseteq E!Jobs /\ objects \subseteq E!Jobs
      /\ sweep \in [list : SUBSET E!Jobs, gone : SUBSET E!Jobs]
  BY DEF ExportsInv
<1>3. jobs' \in Seq(Job) /\ worker' \in Seq(WorkerPc) /\ Len(worker') = Len(jobs')
      /\ E!Jobs' = E!Jobs
      /\ \A i \in E!Jobs \ {j} : jobs'[i] = jobs[i] /\ worker'[i] = worker[i]
  <2>1. jobs = [jobs EXCEPT ![j] = x]
    BY DEF ExportsInv, E!Jobs
  <2>2. PICK row \in Job, pc \in WorkerPc :
          jobs' = [jobs EXCEPT ![j] = row] /\ worker' = [worker EXCEPT ![j] = pc]
    <3>1. CASE E!Start(j)
      BY <1>1, <3>1 DEF E!Start, E!Goto, WorkerPc
    <3>2. CASE E!Put(j)
      BY <1>1, <2>1, <3>2 DEF E!Put, E!Goto, WorkerPc
    <3>3. CASE E!Complete(j)
      BY <1>1, <3>3 DEF E!Complete, E!Completed, E!Goto, WorkerPc
    <3>4. CASE E!Notify(j)
      BY <1>1, <2>1, <3>4 DEF E!Notify, E!Goto, WorkerPc
    <3>5. CASE E!JobFails(j)
      BY <1>1, <3>5 DEF E!JobFails, E!Goto, WorkerPc
    <3> QED
      BY <3>1, <3>2, <3>3, <3>4, <3>5
  <2> QED
    BY <2>2, ExportStep
<1>4. j \in DOMAIN worker /\ j \in DOMAIN jobs
  BY DEF ExportsInv, E!Jobs
<1>5. sweep' = sweep
  BY DEF E!Start, E!Put, E!Complete, E!Notify, E!JobFails
<1>6. CASE E!Start(j) \/ E!Put(j)
  <2>1. /\ jobs'[j].key = jobs[j].key /\ worker[j] \in {"start", "put"}
        /\ unclaimed' = unclaimed /\ objects \subseteq objects' /\ objects' \subseteq E!Jobs
        /\ worker'[j] \in {"put", "complete"} /\ (worker'[j] = "complete" => j \in objects')
    BY <1>1, <1>2, <1>4, <1>6 DEF E!Start, E!Put, E!Goto, Job
  <2>2. FilesNamed'
    BY <1>2, <1>3, <1>5, <2>1 DEF FilesNamed, Claimed
  <2> QED
    BY <1>2, <1>3, <1>5, <2>1, <2>2 DEF ExportsInv
<1>7. CASE E!Complete(j) \/ E!Notify(j)
  <2>1. /\ worker[j] \in {"complete", "notify"} /\ worker'[j] \in {"notify", "ended"}
        /\ unclaimed' = unclaimed /\ objects' = objects
    BY <1>4, <1>7 DEF E!Complete, E!Notify, E!Goto
  <2>2. FilesNamed'
    BY <1>2, <1>3, <1>5, <2>1 DEF FilesNamed, Claimed
  <2> QED
    BY <1>2, <1>3, <1>5, <2>1, <2>2 DEF ExportsInv
<1>8. CASE E!JobFails(j)
  <2>1. /\ worker[j] = "complete" => unclaimed' = unclaimed \cup {j}
        /\ worker[j] # "complete" => unclaimed' = unclaimed
        /\ objects' = objects /\ worker'[j] = "ended" /\ jobs'[j].key = jobs[j].key
    BY <1>1, <1>4, <1>8 DEF E!JobFails, E!Goto, Job
  <2>2. FilesNamed'
    BY <1>2, <1>3, <1>5, <2>1 DEF FilesNamed, Claimed
  <2>3. unclaimed' \subseteq E!Jobs
    BY <1>2, <2>1
  <2> QED
    BY <1>2, <1>3, <1>5, <2>1, <2>2, <2>3 DEF ExportsInv
<1> QED
  BY <1>6, <1>7, <1>8

\* A day passes, and the sweep takes what rows name.
LEMMA ExportSwept ==
  ASSUME ExportsInv, NEW j \in E!Jobs, E!Expire(j) \/ E!SweepDelete(j) \/ E!SweepMark(j)
  PROVE  ExportsInv'
<1>1. FilesNamed /\ unclaimed \subseteq E!Jobs /\ objects \subseteq E!Jobs
      /\ sweep \in [list : SUBSET E!Jobs, gone : SUBSET E!Jobs]
      /\ jobs \in Seq(Job) /\ worker \in Seq(WorkerPc) /\ Len(worker) = Len(jobs)
  BY DEF ExportsInv
<1>2. worker' = worker /\ unclaimed' = unclaimed
  BY DEF E!Expire, E!SweepDelete, E!SweepMark
<1>3. CASE E!SweepDelete(j)
  <2>1. /\ jobs' = jobs /\ objects' = objects \ {j} /\ j \in sweep.list
        /\ sweep'.list \subseteq sweep.list /\ sweep'.gone = {j}
        /\ sweep' \in [list : SUBSET E!Jobs, gone : SUBSET E!Jobs]
    BY <1>1, <1>3 DEF E!SweepDelete
  <2>2. Claimed(j)
    BY <1>1, <2>1 DEF FilesNamed
  <2>3. FilesNamed'
    BY <1>1, <1>2, <2>1, <2>2 DEF FilesNamed, Claimed, E!Jobs
  <2> QED
    BY <1>1, <1>2, <2>1, <2>3 DEF ExportsInv, E!Jobs
<1>4. CASE E!Expire(j) \/ E!SweepMark(j)
  <2>1. [jobs[j] EXCEPT !.due = TRUE] \in Job /\ [jobs[j] EXCEPT !.key = FALSE] \in Job
        /\ jobs[j] \in Job
    BY ExportRow
  <2>2. PICK row \in Job : jobs' = [jobs EXCEPT ![j] = row] /\ (row.key => jobs[j].key)
    BY <1>4, <2>1 DEF E!Expire, E!SweepMark, Job
  <2>3. j \in DOMAIN jobs
    BY DEF E!Jobs
  <2>4. /\ jobs' \in Seq(Job) /\ Len(jobs') = Len(jobs) /\ DOMAIN jobs' = DOMAIN jobs
        /\ \A i \in E!Jobs : jobs'[i].key => jobs[i].key
    BY <1>1, <2>2, <2>3 DEF E!Jobs
  <2>5. /\ objects' = objects /\ sweep'.list = sweep.list /\ sweep'.gone \subseteq sweep.gone
        /\ sweep' \in [list : SUBSET E!Jobs, gone : SUBSET E!Jobs]
    BY <1>1, <1>4 DEF E!Expire, E!SweepMark
  <2>6. FilesNamed'
    BY <1>1, <1>2, <2>4, <2>5 DEF FilesNamed, Claimed, E!Jobs
  <2> QED
    BY <1>1, <1>2, <2>4, <2>5, <2>6 DEF ExportsInv, E!Jobs
<1> QED
  BY <1>3, <1>4

\* The sweep reads what it may take, or is broken off; the process dies.
LEMMA ExportEnds ==
  ASSUME ExportsInv, E!SweepRead \/ E!SweepFails \/ E!Crash
  PROVE  ExportsInv'
<1>1. FilesNamed /\ unclaimed \subseteq E!Jobs /\ objects \subseteq E!Jobs
      /\ jobs \in Seq(Job) /\ worker \in Seq(WorkerPc) /\ Len(worker) = Len(jobs)
      /\ jobs' = jobs /\ objects' = objects
  BY DEF ExportsInv, E!SweepRead, E!SweepFails, E!Crash
<1>2. E!Jobs' = E!Jobs
  BY <1>1 DEF E!Jobs
<1>3. CASE E!SweepRead
  <2>1. /\ sweep'.list = {j \in E!Jobs : E!Sweepable(j)} /\ sweep'.gone = {}
        /\ sweep' \in [list : SUBSET E!Jobs, gone : SUBSET E!Jobs]
        /\ worker' = worker /\ unclaimed' = unclaimed
    BY <1>3 DEF E!SweepRead
  <2>2. FilesNamed'
    BY <1>1, <1>2, <2>1 DEF FilesNamed, Claimed, E!Sweepable
  <2> QED
    BY <1>1, <1>2, <2>1, <2>2 DEF ExportsInv
<1>4. CASE E!SweepFails
  <2>1. sweep' = E!NoSweep /\ worker' = worker /\ unclaimed' = unclaimed
    BY <1>4 DEF E!SweepFails
  <2>2. FilesNamed'
    BY <1>1, <1>2, <2>1, NoSweepYet DEF FilesNamed, Claimed
  <2> QED
    BY <1>1, <1>2, <2>1, <2>2, NoSweepYet DEF ExportsInv
<1>5. CASE E!Crash
  <2>1. /\ sweep' = E!NoSweep /\ worker' = [j \in E!Jobs |-> "ended"]
        /\ unclaimed' = unclaimed \cup {j \in E!Jobs : worker[j] = "complete"}
    BY <1>5 DEF E!Crash
  <2>2. worker' \in [1 .. Len(jobs) -> WorkerPc] /\ Len(jobs) \in Nat
    BY <1>1, <2>1 DEF E!Jobs, WorkerPc
  <2>3. worker' \in Seq(WorkerPc) /\ Len(worker') = Len(jobs)
    BY <2>2, SeqDef
  <2>4. \A j \in E!Jobs : worker'[j] = "ended"
    BY <2>1
  <2>5. FilesNamed'
    BY <1>1, <1>2, <2>1, <2>4, NoSweepYet DEF FilesNamed, Claimed
  <2> QED
    BY <1>1, <1>2, <2>1, <2>3, <2>5, NoSweepYet DEF ExportsInv
<1> QED
  BY <1>3, <1>4, <1>5

\* No step leaves the invariant of the exports.
LEMMA NextExports == ExportsInv /\ [Next]_vars => ExportsInv'
<1> SUFFICES ASSUME ExportsInv, [Next]_vars PROVE ExportsInv'
  OBVIOUS
<1>1. E!Next \/ UNCHANGED E_vars
  BY DEF Next, vars
<1>2. CASE E!Next
  BY <1>2, ExportQueued, ExportRendered, ExportSwept, ExportEnds DEF E!Next
<1>3. CASE UNCHANGED E_vars
  BY <1>3 DEF E_vars, ExportsInv, FilesNamed, Claimed, E!Jobs
<1> QED
  BY <1>1, <1>2, <1>3

\* The type of every variable.
THEOREM TypeCorrect == Spec => []TypeOK
<1> DEFINE ServiceOK == service \in {"cache", "outbox", "exports"}
           Inv == ServiceOK /\ CacheInv /\ OutboxInv /\ ExportsInv
<1>1. Init => Inv
  BY InitCache, InitOutbox, InitExports DEF Init
<1>2. Inv /\ [Next]_vars => Inv'
  <2>1. ServiceOK /\ [Next]_vars => ServiceOK'
    BY DEF Next, vars
  <2> QED
    BY <2>1, NextCache, NextOutbox, NextExports
<1>3. Inv => TypeOK
  <2> SUFFICES ASSUME Inv PROVE C!TypeOK /\ O!TypeOK /\ E!TypeOK
    BY DEF TypeOK
  <2>1. C!TypeOK
    BY DEF CacheInv, CacheRequest, Versions, C!TypeOK
  <2>2. O!TypeOK
    <3>1. /\ DOMAIN accepted = DOMAIN messages /\ DOMAIN unclear = DOMAIN messages
          /\ \A m \in DOMAIN attempts : attempts[m] \in 0 .. MaxAttempts
      BY OutboxDomains DEF OutboxInv
    <3>2. \A m \in DOMAIN messages : messages[m] \in Message
      BY DEF OutboxInv, OutboxTyped
    <3>3. \A p \in Procs : sends[p].message \in 0 .. Len(messages)
      BY DEF OutboxInv, OutboxTyped
    <3> QED
      BY <3>1, <3>2, <3>3 DEF O!TypeOK, Message, OutboxInv, OutboxTyped
  <2>3. E!TypeOK
    <3>1. \A j \in E!Jobs : jobs[j] \in Job /\ worker[j] \in WorkerPc
      BY ExportRow
    <3> QED
      BY <3>1 DEF ExportsInv, FilesNamed, E!TypeOK, Job, WorkerPc
  <2> QED
    BY <2>1, <2>2, <2>3
<1> QED
  BY <1>1, <1>2, <1>3, PTL DEF Spec
=============================================================================
