-------------------------- MODULE AgentLoop_proofs ---------------------------
(***************************************************************************)
(* Proofs about the loop of an agent, for any plan, any tools and tasks,   *)
(* any ceiling, and any number of failed commands and log entries.         *)
(***************************************************************************)
EXTENDS AgentLoop, FiniteSetTheorems, WellFoundedInduction, TLAPS

-----------------------------------------------------------------------------
(* The least-number principle, for the CHOOSE of Mark and First. *)
LEMMA Least ==
  ASSUME NEW P \in SUBSET Nat, P # {}
  PROVE  \E i \in P : \A j \in P : i <= j
<1>1. PICK i \in P : \A j \in P : ~ (<<j, i>> \in OpToRel(<, Nat))
  BY NatLessThanWellFounded, WFMin
<1>2. ASSUME NEW j \in P PROVE i <= j
  <2>1. <<j, i>> \in OpToRel(<, Nat) <=> j < i
    BY DEF OpToRel
  <2>2. ~ (j < i)
    BY <1>1, <2>1, Zenon
  <2>3. i \in Nat /\ j \in Nat
    OBVIOUS
  <2>4. QED
    BY <2>2, <2>3
<1>3. QED
  BY <1>2

(* Mark changes the status of one entry, of that identifier. *)
MarkedAt(s, i, st) == [s EXCEPT ![i].status = st]

LEMMA MarkOne ==
  ASSUME NEW s \in Seq(Task), NEW id, NEW st \in Status, Places(s, id) # {}
  PROVE  \E i \in DOMAIN s : s[i].id = id /\ Mark(s, id, st) = MarkedAt(s, i, st)
<1>1. Places(s, id) \in SUBSET Nat
  BY DEF Places
<1>2. \E i \in Places(s, id) : \A j \in Places(s, id) : i <= j
  BY <1>1, Least
<1>3. QED
  BY <1>2 DEF Mark, MarkedAt, Places

LEMMA FirstOne ==
  ASSUME NEW s \in Seq(Task), NEW st
  PROVE  /\ First(s, st) = NoTask => \A i \in DOMAIN s : s[i].status # st
         /\ First(s, st) # NoTask => \E i \in DOMAIN s : First(s, st) = s[i] /\ s[i].status = st
<1> DEFINE P == {i \in DOMAIN s : s[i].status = st}
<1>1. CASE P = {}
  BY <1>1 DEF First
<1>2. CASE P # {}
  <2>1. P \in SUBSET Nat
    OBVIOUS
  <2>2. \E i \in P : \A j \in P : i <= j
    BY <1>2, <2>1, Least
  <2>3. \E i \in P : First(s, st) = s[i]
    BY <1>2, <2>2 DEF First
  <2>4. \A i \in P : s[i] # NoTask
    BY LoopAssumption DEF LoopAssumption
  <2>5. QED
    BY <2>3, <2>4
<1>3. QED
  BY <1>1, <1>2

-----------------------------------------------------------------------------
(* The accesses to the working memory, for any set G of lists of tasks that*)
(* what they do to a list does not leave: a memory of lists of G becomes   *)
(* one, and a list that is returned is one.                                *)
Mem(G, l) == [redis : G \cup {Nothing}, copy : G, outages : 0 .. MaxOutages, losses : l .. MaxAuditFaults]
Out(G, l) == [mem : Mem(G, l), got : G \cup {Nothing}]

LEMMA MemParts ==
  ASSUME NEW G, NEW l, NEW m \in Mem(G, l), NEW s \in G
  PROVE  /\ [m EXCEPT !.copy = s] \in Mem(G, l)
         /\ [m EXCEPT !.redis = s] \in Mem(G, l)
         /\ [m EXCEPT !.redis = s, !.copy = s] \in Mem(G, l)
         /\ m.copy \in G /\ m.redis \in G \cup {Nothing}
BY DEF Mem

LEMMA DownMem ==
  ASSUME NEW G, NEW l \in Nat, NEW m \in Mem(G, l), NEW n \in Down(m)
  PROVE  n \in Mem(G, l) /\ n.redis = m.redis /\ n.copy = m.copy
<1>1. m.outages \in 0 .. MaxOutages /\ m.outages < MaxOutages /\ n = [m EXCEPT !.outages = m.outages + 1]
  BY DEF Down, Mem
<1>2. m.outages + 1 \in 0 .. MaxOutages
  BY <1>1, LoopAssumption DEF LoopAssumption
<1>3. QED
  BY <1>1, <1>2 DEF Mem

LEMMA UnloggedMem ==
  ASSUME NEW G, NEW l \in Nat, NEW m \in Mem(G, l), NEW n \in Unlogged(m)
  PROVE  n \in Mem(G, l) /\ n.losses > 0
<1>1. m.losses \in l .. MaxAuditFaults /\ m.losses < MaxAuditFaults /\ n = [m EXCEPT !.losses = m.losses + 1]
  BY DEF Unlogged, Mem
<1>2. m.losses + 1 \in l .. MaxAuditFaults /\ m.losses + 1 > 0
  BY <1>1, LoopAssumption DEF LoopAssumption
<1>3. QED
  BY <1>1, <1>2 DEF Mem

LEMMA OutIs ==
  ASSUME NEW G, NEW l, NEW m \in Mem(G, l)
  PROVE  /\ Fails(m) \in Out(G, l) /\ Fails(m).mem = m /\ Fails(m).got = Broken
         /\ \A s \in G : Outcome(m, s) \in Out(G, l)
         /\ \A s : Outcome(m, s).mem = m /\ Outcome(m, s).got = s
BY DEF Out, Fails, Outcome, Broken

LEMMA AuditedOut ==
  ASSUME NEW G, NEW l \in Nat, NEW O \in SUBSET Out(G, l)
  PROVE  /\ Audited(O) \subseteq Out(G, l)
         /\ \A o \in Audited(O) : o \in O \/ (o.got = Broken /\ o.mem.losses > 0)
         /\ \A o \in Audited(O) : o \in O \/ \E p \in O : o.mem \in Unlogged(p.mem)
<1>1. ASSUME NEW o \in Audited(O), o \notin O
      PROVE  \E p \in O : \E n \in Unlogged(p.mem) : o = Fails(n)
  BY <1>1 DEF Audited
<1>2. ASSUME NEW o \in Audited(O), o \notin O
      PROVE  o \in Out(G, l) /\ o.got = Broken /\ o.mem.losses > 0 /\ \E p \in O : o.mem \in Unlogged(p.mem)
  <2>1. PICK p \in O : \E n \in Unlogged(p.mem) : o = Fails(n)
    BY <1>1, <1>2
  <2>2. PICK n \in Unlogged(p.mem) : o = Fails(n)
    BY <2>1
  <2>3. p.mem \in Mem(G, l)
    BY DEF Out
  <2>4. n \in Mem(G, l) /\ n.losses > 0
    BY <2>2, <2>3, UnloggedMem
  <2>5. QED
    BY <2>2, <2>4, OutIs
<1>3. QED
  BY <1>2

LEMMA GetStateOut ==
  ASSUME NEW G \in SUBSET Seq(Task), NEW l \in Nat, NEW m \in Mem(G, l)
  PROVE  /\ GetState(m) \subseteq Out(G, l)
         /\ \A o \in GetState(m) : o.got = Broken => o.mem.losses > 0
<1> DEFINE O == {Outcome(m, IF m.redis = Nothing THEN m.copy ELSE m.redis)} \cup {Outcome(n, n.copy) : n \in Down(m)}
<1>1. m.copy \in G /\ m.redis \in G \cup {Nothing} /\ Nothing \notin G
  BY MemParts, LoopAssumption DEF Mem, LoopAssumption
<1>2. ASSUME NEW o \in O PROVE o \in Out(G, l) /\ o.got # Broken
  <2>1. CASE o = Outcome(m, IF m.redis = Nothing THEN m.copy ELSE m.redis)
    BY <1>1, <2>1, OutIs DEF Broken
  <2>2. ASSUME NEW n \in Down(m), o = Outcome(n, n.copy) PROVE o \in Out(G, l) /\ o.got # Broken
    <3>1. n \in Mem(G, l) /\ n.copy \in G
      BY <1>1, <2>2, DownMem
    <3>2. QED
      BY <1>1, <2>2, <3>1, OutIs DEF Broken
  <2>3. QED
    BY <2>1, <2>2
<1>3. GetState(m) = Audited(O)
  BY DEF GetState
<1>4. O \in SUBSET Out(G, l)
  BY <1>2
<1> HIDE DEF O
<1>5. QED
  BY <1>2, <1>3, <1>4, AuditedOut

LEMMA SetBothOut ==
  ASSUME NEW G \in SUBSET Seq(Task), NEW l \in Nat, NEW m \in Mem(G, l), NEW s \in G
  PROVE  SetBoth(m, s) \subseteq Out(G, l)
<1> DEFINE k == [m EXCEPT !.copy = s]
<1>1. k \in Mem(G, l) /\ [k EXCEPT !.redis = s] \in Mem(G, l)
  BY DEF Mem
<1>2. \A n \in Down(k) : n \in Mem(G, l)
  BY <1>1, DownMem
<1>3. \A n \in Down(k) : [n EXCEPT !.redis = s] \in Mem(G, l)
  BY <1>2, MemParts
<1>4. SetBoth(m, s) = {Outcome([k EXCEPT !.redis = s], s)}
         \cup {Fails(n) : n \in Down(k)} \cup {Fails([n EXCEPT !.redis = s]) : n \in Down(k)}
  BY DEF SetBoth
<1> HIDE DEF k
<1>5. ASSUME NEW n \in Down(k) PROVE Fails(n) \in Out(G, l) /\ Fails([n EXCEPT !.redis = s]) \in Out(G, l)
  BY <1>2, <1>3, OutIs
<1>6. Outcome([k EXCEPT !.redis = s], s) \in Out(G, l)
  BY <1>1, OutIs
<1>7. QED
  BY <1>4, <1>5, <1>6

LEMMA GetStateSame ==
  ASSUME NEW G \in SUBSET Seq(Task), NEW l \in Nat, NEW m \in Mem(G, l), NEW o \in GetState(m)
  PROVE  /\ o.mem.redis = m.redis /\ o.mem.copy = m.copy /\ o.mem \in Mem(G, l)
         /\ o.got \in {Nothing, m.copy, m.redis}
<1> DEFINE O == {Outcome(m, IF m.redis = Nothing THEN m.copy ELSE m.redis)} \cup {Outcome(n, n.copy) : n \in Down(m)}
<1>1. m.copy \in G
  BY DEF Mem
<1>2. ASSUME NEW p \in O
      PROVE  p \in Out(G, l) /\ p.mem.redis = m.redis /\ p.mem.copy = m.copy /\ p.got \in {m.copy, m.redis}
  <2>1. CASE p = Outcome(m, IF m.redis = Nothing THEN m.copy ELSE m.redis)
    BY <1>1, <2>1 DEF Out, Outcome, Mem
  <2>2. ASSUME NEW n \in Down(m), p = Outcome(n, n.copy)
        PROVE  p \in Out(G, l) /\ p.mem.redis = m.redis /\ p.mem.copy = m.copy /\ p.got \in {m.copy, m.redis}
    <3>1. n \in Mem(G, l) /\ n.copy = m.copy /\ n.redis = m.redis
      BY <2>2, DownMem
    <3>2. QED
      BY <1>1, <2>2, <3>1, OutIs
  <2>3. QED
    BY <2>1, <2>2
<1>3. GetState(m) = Audited(O)
  BY DEF GetState
<1>4. O \in SUBSET Out(G, l)
  BY <1>2
<1> HIDE DEF O
<1>5. CASE o \in O
  BY <1>2, <1>5 DEF Out
<1>6. CASE o \notin O
  <2>1. o \in Out(G, l) /\ o.got = Broken /\ \E p \in O : o.mem \in Unlogged(p.mem)
    BY <1>3, <1>4, <1>6, AuditedOut
  <2>2. PICK p \in O : o.mem \in Unlogged(p.mem)
    BY <2>1
  <2>3. p.mem \in Mem(G, l) /\ o.mem = [p.mem EXCEPT !.losses = @ + 1]
    BY <1>4, <2>2 DEF Out, Unlogged
  <2>4. o.mem.redis = p.mem.redis /\ o.mem.copy = p.mem.copy
    BY <2>3 DEF Mem
  <2>5. QED
    BY <1>2, <2>1, <2>4 DEF Out, Broken
<1>7. QED
  BY <1>5, <1>6

LEMMA SetBothSame ==
  ASSUME NEW G \in SUBSET Seq(Task), NEW l \in Nat, NEW m \in Mem(G, l), NEW s \in G, NEW o \in SetBoth(m, s)
  PROVE  o.mem \in Mem(G, l) /\ o.mem.copy = s /\ o.mem.redis \in {m.redis, s}
<1> DEFINE k == [m EXCEPT !.copy = s]
<1>1. k \in Mem(G, l) /\ k.copy = s /\ k.redis = m.redis /\ [k EXCEPT !.redis = s] \in Mem(G, l)
      /\ [k EXCEPT !.redis = s].copy = s /\ [k EXCEPT !.redis = s].redis = s
  BY DEF Mem
<1>2. SetBoth(m, s) = {Outcome([k EXCEPT !.redis = s], s)}
         \cup {Fails(n) : n \in Down(k)} \cup {Fails([n EXCEPT !.redis = s]) : n \in Down(k)}
  BY DEF SetBoth
<1> HIDE DEF k
<1>3. ASSUME NEW n \in Down(k)
      PROVE  /\ n \in Mem(G, l) /\ n.copy = s /\ n.redis = m.redis
             /\ [n EXCEPT !.redis = s] \in Mem(G, l) /\ [n EXCEPT !.redis = s].copy = s
             /\ [n EXCEPT !.redis = s].redis = s
  <2>1. n \in Mem(G, l) /\ n.copy = s /\ n.redis = m.redis
    BY <1>1, <1>3, DownMem
  <2>2. QED
    BY <2>1 DEF Mem
<1>4. CASE o = Outcome([k EXCEPT !.redis = s], s)
  <2>1. o.mem = [k EXCEPT !.redis = s]
    BY <1>4 DEF Outcome
  <2>2. QED
    BY <1>1, <2>1
<1>5. ASSUME NEW n \in Down(k), o = Fails(n) \/ o = Fails([n EXCEPT !.redis = s])
      PROVE  o.mem \in Mem(G, l) /\ o.mem.copy = s /\ o.mem.redis \in {m.redis, s}
  <2>1. o.mem = n \/ o.mem = [n EXCEPT !.redis = s]
    BY <1>3, <1>5, OutIs
  <2>2. QED
    BY <1>3, <2>1
<1>6. QED
  BY <1>2, <1>4, <1>5

(* G is kept by marking the tasks of an identifier. *)
Marks(G, id, st) == \A s \in G : Places(s, id) # {} => Mark(s, id, st) \in G

LEMMA LegacyOut ==
  ASSUME NEW G \in SUBSET Seq(Task), NEW l \in Nat, NEW m \in Mem(G, l), NEW id, NEW st, Marks(G, id, st)
  PROVE  LegacyUpdateTask(m, id, st) \subseteq Out(G, l)
<1>1. ASSUME NEW o \in GetState(m)
      PROVE  (IF o.got = Broken \/ Places(o.got, id) = {} THEN {Fails(o.mem)}
              ELSE SetBoth(o.mem, Mark(o.got, id, st))) \subseteq Out(G, l)
  <2>1. o.mem \in Mem(G, l) /\ o.got \in G \cup {Nothing}
    BY <1>1, GetStateOut DEF Out
  <2>2. CASE o.got = Broken \/ Places(o.got, id) = {}
    BY <2>1, <2>2, OutIs
  <2>3. CASE ~(o.got = Broken \/ Places(o.got, id) = {})
    <3>1. Mark(o.got, id, st) \in G
      BY <2>1, <2>3 DEF Marks, Broken
    <3>2. SetBoth(o.mem, Mark(o.got, id, st)) \subseteq Out(G, l)
      BY <2>1, <3>1, SetBothOut
    <3>3. QED
      BY <2>3, <3>2
  <2>4. QED
    BY <2>2, <2>3
<1>2. QED
  BY <1>1 DEF LegacyUpdateTask

LEMMA UpdateTaskOut ==
  ASSUME NEW G \in SUBSET Seq(Task), NEW l \in Nat, NEW m \in Mem(G, l), NEW id, NEW st, Marks(G, id, st)
  PROVE  UpdateTask(m, id, st) \subseteq Out(G, l)
<1> DEFINE known == m.redis # Nothing /\ Places(m.redis, id) # {}
           s == Mark(m.redis, id, st)
           Twice(n) == UNION {IF o.got = Broken THEN LegacyUpdateTask(o.mem, id, st) ELSE {o} :
                                o \in LegacyUpdateTask(n, id, st)}
           A == IF known THEN {Outcome([m EXCEPT !.redis = s, !.copy = s], s)} ELSE Twice(m)
           B == UNION {LegacyUpdateTask(n, id, st) : n \in Down(m)}
           C == IF known THEN UNION {LegacyUpdateTask([n EXCEPT !.redis = s], id, st) : n \in Down(m)} ELSE {}
<1>1. known => s \in G
  BY MemParts DEF Marks, Mem
<1>2. Twice(m) \subseteq Out(G, l)
  <2>1. ASSUME NEW o \in LegacyUpdateTask(m, id, st)
        PROVE  (IF o.got = Broken THEN LegacyUpdateTask(o.mem, id, st) ELSE {o}) \subseteq Out(G, l)
    <3>1. o \in Out(G, l) /\ o.mem \in Mem(G, l)
      BY <2>1, LegacyOut DEF Out
    <3>2. LegacyUpdateTask(o.mem, id, st) \subseteq Out(G, l)
      BY <3>1, LegacyOut
    <3>3. QED
      BY <3>1, <3>2
  <2>2. QED
    BY <2>1
<1>3. A \subseteq Out(G, l)
  <2>1. ASSUME known PROVE Outcome([m EXCEPT !.redis = s, !.copy = s], s) \in Out(G, l)
    <3>1. [m EXCEPT !.redis = s, !.copy = s] \in Mem(G, l)
      BY <1>1, <2>1, MemParts
    <3>2. QED
      BY <1>1, <2>1, <3>1, OutIs
  <2>2. QED
    BY <1>2, <2>1
<1>4. B \subseteq Out(G, l)
  <2>1. ASSUME NEW n \in Down(m) PROVE LegacyUpdateTask(n, id, st) \subseteq Out(G, l)
    <3>1. n \in Mem(G, l)
      BY <2>1, DownMem
    <3>2. QED
      BY <3>1, LegacyOut
  <2>2. QED
    BY <2>1
<1>5. C \subseteq Out(G, l)
  <2>1. ASSUME known, NEW n \in Down(m) PROVE LegacyUpdateTask([n EXCEPT !.redis = s], id, st) \subseteq Out(G, l)
    <3>1. n \in Mem(G, l)
      BY <2>1, DownMem
    <3>2. [n EXCEPT !.redis = s] \in Mem(G, l)
      BY <1>1, <2>1, <3>1, MemParts
    <3>3. QED
      BY <3>2, LegacyOut
  <2>2. QED
    BY <2>1
<1>6. UpdateTask(m, id, st) = Audited(A \cup B \cup C)
  BY DEF UpdateTask
<1>7. A \cup B \cup C \in SUBSET Out(G, l)
  BY <1>3, <1>4, <1>5
<1> HIDE DEF A, B, C
<1>8. QED
  BY <1>6, <1>7, AuditedOut

LEMMA UpdateStateSets ==
  ASSUME NEW G \in SUBSET Seq(Task), NEW l \in Nat, NEW m \in Mem(G, l), NEW s \in G
  PROVE  UpdateState(m, s) \subseteq Out(G, l)
<1> DEFINE Legacy(n) == UNION {IF o.got = Broken THEN {o} ELSE SetBoth(o.mem, s) : o \in GetState(n)}
           A == {Outcome([m EXCEPT !.redis = s, !.copy = s], s)}
           B == UNION {Legacy(n) \cup Legacy([n EXCEPT !.redis = s]) : n \in Down(m)}
<1>1. s # Nothing
  BY LoopAssumption DEF LoopAssumption
<1>2. ASSUME NEW n \in Mem(G, l) PROVE Legacy(n) \subseteq Out(G, l)
  <2>1. ASSUME NEW o \in GetState(n) PROVE o \in Out(G, l) /\ SetBoth(o.mem, s) \subseteq Out(G, l)
    <3>1. o \in Out(G, l) /\ o.mem \in Mem(G, l)
      BY <2>1, GetStateOut DEF Out
    <3>2. QED
      BY <3>1, SetBothOut
  <2>2. QED
    BY <2>1
<1>3. UpdateState(m, s) = Audited(A \cup B)
  BY <1>1 DEF UpdateState
<1>4. A \subseteq Out(G, l)
  <2>1. [m EXCEPT !.redis = s, !.copy = s] \in Mem(G, l)
    BY MemParts
  <2>2. QED
    BY <2>1, OutIs
<1>5. B \subseteq Out(G, l)
  <2>1. ASSUME NEW n \in Down(m) PROVE Legacy(n) \cup Legacy([n EXCEPT !.redis = s]) \subseteq Out(G, l)
    <3>1. n \in Mem(G, l)
      BY <2>1, DownMem
    <3>2. [n EXCEPT !.redis = s] \in Mem(G, l)
      BY <3>1, MemParts
    <3>3. QED
      BY <1>2, <3>1, <3>2
  <2> HIDE DEF Legacy
  <2>2. QED
    BY <2>1
<1> HIDE DEF A, B
<1>6. A \cup B \in SUBSET Out(G, l)
  BY <1>4, <1>5
<1>7. QED
  BY <1>3, <1>6, AuditedOut

(* The other update of the state leaves the tasks alone, or makes a record *)
(* without tasks where there is none.                                      *)
LEMMA UpdateStateKeeps ==
  ASSUME NEW G \in SUBSET Seq(Task), NEW l \in Nat, NEW m \in Mem(G, l), NEW o \in UpdateState(m, Nothing)
  PROVE  /\ o.mem \in Mem(G \cup {<<>>}, l)
         /\ o.mem \in Mem(G, l) \/ (m.redis = Nothing /\ o.mem.redis = <<>>)
         /\ o.got \in G \cup {<<>>, Nothing}
<1> DEFINE H == G \cup {<<>>}
           s == IF m.redis = Nothing THEN <<>> ELSE m.redis
           Legacy(n) == UNION {IF p.got = Broken THEN {p} ELSE SetBoth(p.mem, p.got) : p \in GetState(n)}
           A == {Outcome([m EXCEPT !.redis = s, !.copy = s], s)}
           B == UNION {Legacy(n) \cup Legacy([n EXCEPT !.redis = s]) : n \in Down(m)}
           Kept(p) == p.mem \in Mem(G, l) \/ (m.redis = Nothing /\ p.mem.redis = <<>>)
<1>0. H \in SUBSET Seq(Task) /\ s \in H /\ <<>> \in H /\ G \subseteq H /\ (m.redis # Nothing => s \in G)
  <2>1. m.redis \in G \cup {Nothing}
    BY DEF Mem
  <2>2. <<>> \in Seq(Task)
    OBVIOUS
  <2>3. QED
    BY <2>1, <2>2
<1>1. \A n \in Mem(G, l) : n \in Mem(H, l)
  BY DEF Mem
<1>2. ASSUME NEW K \in SUBSET Seq(Task), NEW n \in Mem(K, l) PROVE Legacy(n) \subseteq Out(K, l)
  <2>1. ASSUME NEW p \in GetState(n)
        PROVE  p \in Out(K, l) /\ (p.got # Broken => SetBoth(p.mem, p.got) \subseteq Out(K, l))
    <3>1. p \in Out(K, l) /\ p.mem \in Mem(K, l) /\ p.got \in K \cup {Nothing}
      BY <2>1, GetStateOut DEF Out
    <3>2. ASSUME p.got # Broken PROVE SetBoth(p.mem, p.got) \subseteq Out(K, l)
      <4>1. p.got \in K
        BY <3>1, <3>2 DEF Broken
      <4>2. QED
        BY <3>1, <4>1, SetBothOut
    <3>3. QED
      BY <3>1, <3>2
  <2>2. QED
    BY <2>1
<1>3. UpdateState(m, Nothing) = Audited(A \cup B)
  BY DEF UpdateState
<1>4. A \subseteq Out(H, l) /\ \A p \in A : Kept(p)
  <2>1. m \in Mem(H, l)
    BY <1>1
  <2>2. [m EXCEPT !.redis = s, !.copy = s] \in Mem(H, l) /\ [m EXCEPT !.redis = s, !.copy = s].redis = s
    BY <1>0, <2>1, MemParts DEF Mem
  <2>3. m.redis # Nothing => [m EXCEPT !.redis = s, !.copy = s] \in Mem(G, l)
    BY <1>0, MemParts
  <2>4. Outcome([m EXCEPT !.redis = s, !.copy = s], s) \in Out(H, l)
        /\ Outcome([m EXCEPT !.redis = s, !.copy = s], s).mem = [m EXCEPT !.redis = s, !.copy = s]
    BY <1>0, <2>2, OutIs
  <2>5. CASE m.redis = Nothing
    BY <2>2, <2>4, <2>5
  <2>6. CASE m.redis # Nothing
    BY <2>3, <2>4, <2>6
  <2>7. QED
    BY <2>4, <2>5, <2>6
<1>5. ASSUME NEW n \in Down(m)
      PROVE  /\ Legacy(n) \cup Legacy([n EXCEPT !.redis = s]) \subseteq Out(H, l)
             /\ \A p \in Legacy(n) \cup Legacy([n EXCEPT !.redis = s]) : Kept(p)
  <2> DEFINE k == [n EXCEPT !.redis = s]
  <2>1. n \in Mem(G, l) /\ n \in Mem(H, l) /\ n.copy \in G
    <3>1. n \in Mem(G, l)
      BY <1>5, DownMem
    <3>2. n.copy \in G
      BY <3>1 DEF Mem
    <3>3. QED
      BY <1>1, <3>1, <3>2
  <2>2. k \in Mem(H, l) /\ k.redis = s /\ k.copy = n.copy /\ (m.redis # Nothing => k \in Mem(G, l))
    BY <1>0, <2>1 DEF Mem
  <2>3. Legacy(n) \subseteq Out(G, l) /\ Legacy(k) \subseteq Out(H, l)
        /\ (m.redis # Nothing => Legacy(k) \subseteq Out(G, l))
    BY <1>0, <1>2, <2>1, <2>2
  <2>4. Out(G, l) \subseteq Out(H, l) /\ \A p \in Out(G, l) : p.mem \in Mem(G, l)
    BY DEF Out, Mem
  <2> HIDE DEF k, H
  <2>5. ASSUME m.redis = Nothing, NEW q \in Legacy(k) PROVE Kept(q)
    <3>1. PICK p \in GetState(k) : q \in (IF p.got = Broken THEN {p} ELSE SetBoth(p.mem, p.got))
      BY <2>5
    <3>2. p.mem.redis = <<>> /\ p.mem \in Mem(H, l) /\ p.got \in {Nothing, <<>>, n.copy}
      <4>1. p.mem.redis = k.redis /\ p.mem \in Mem(H, l) /\ p.got \in {Nothing, k.copy, k.redis}
        BY <1>0, <2>2, <3>1, GetStateSame
      <4>2. k.redis = <<>> /\ k.copy = n.copy
        BY <2>2, <2>5
      <4>3. QED
        BY <4>1, <4>2
    <3>3. CASE p.got = Broken
      BY <2>5, <3>1, <3>2, <3>3
    <3>4. CASE p.got # Broken
      <4>1. p.got \in {<<>>, n.copy} /\ q \in SetBoth(p.mem, p.got) /\ p.got \in H
        BY <1>0, <2>1, <3>1, <3>2, <3>4 DEF Broken
      <4>2. q.mem \in Mem(H, l) /\ q.mem.copy = p.got /\ q.mem.redis \in {<<>>, p.got}
        BY <1>0, <3>2, <4>1, SetBothSame
      <4>3. CASE q.mem.redis = <<>>
        BY <2>5, <4>3
      <4>4. CASE q.mem.redis # <<>>
        <5>1. q.mem.redis = n.copy /\ q.mem.copy = n.copy
          BY <4>1, <4>2, <4>4
        <5>2. q.mem \in Mem(G, l)
          BY <2>1, <4>2, <5>1 DEF Mem
        <5>3. QED
          BY <5>2
      <4>5. QED
        BY <4>3, <4>4
    <3>5. QED
      BY <3>3, <3>4
  <2> HIDE DEF Legacy
  <2>6. \A p \in Legacy(n) : Kept(p)
    BY <2>3, <2>4
  <2>7. \A p \in Legacy(k) : Kept(p)
    BY <2>3, <2>4, <2>5
  <2>8. Legacy(n) \cup Legacy(k) \subseteq Out(H, l) /\ \A p \in Legacy(n) \cup Legacy(k) : Kept(p)
    BY <2>3, <2>4, <2>6, <2>7
  <2>9. QED
    BY <2>8 DEF k
<1>6. B \subseteq Out(H, l) /\ \A p \in B : Kept(p)
  <2> HIDE DEF Legacy, Kept
  <2>1. QED
    BY <1>5
<1>7. A \cup B \in SUBSET Out(H, l) /\ \A p \in A \cup B : Kept(p)
  BY <1>4, <1>6
<1> HIDE DEF A, B
<1>8. o \in Out(H, l) /\ (o \in A \cup B \/ \E p \in A \cup B : o.mem \in Unlogged(p.mem))
  BY <1>0, <1>3, <1>7, AuditedOut
<1>9. Kept(o)
  <2>1. ASSUME NEW p \in A \cup B, o.mem \in Unlogged(p.mem) PROVE Kept(o)
    <3>1. o.mem = [p.mem EXCEPT !.losses = @ + 1]
      BY <2>1 DEF Unlogged
    <3>2. p.mem \in Mem(H, l) /\ Kept(p)
      BY <1>7 DEF Out
    <3>3. o.mem.redis = p.mem.redis
      BY <3>1, <3>2 DEF Mem
    <3>4. p.mem \in Mem(G, l) => o.mem \in Mem(G, l)
      BY <2>1, UnloggedMem
    <3>5. QED
      BY <3>2, <3>3, <3>4
  <2>2. QED
    BY <1>7, <1>8, <2>1
<1>10. QED
  BY <1>8, <1>9 DEF Out

LEMMA CreateTaskOut ==
  ASSUME NEW G \in SUBSET Seq(Task), NEW l \in Nat, NEW m \in Mem(G, l), NEW task,
         \A x \in G : Append(x, task) \in G
  PROVE  CreateTask(m, task) \subseteq Out(G, l)
<1> DEFINE s == Append(m.redis, task)
           Fallback(n) == UNION {IF o.got = Broken THEN {o} ELSE UpdateState(o.mem, Append(o.got, task)) :
                                   o \in GetState(n)}
           A == IF m.redis = Nothing THEN Fallback(m) ELSE {Outcome([m EXCEPT !.redis = s, !.copy = s], s)}
           B == UNION {Fallback(n) : n \in Down(m)}
           C == IF m.redis = Nothing THEN {} ELSE UNION {Fallback([n EXCEPT !.redis = s]) : n \in Down(m)}
<1>1. m.redis # Nothing => s \in G
  BY DEF Mem
<1>2. ASSUME NEW n \in Mem(G, l) PROVE Fallback(n) \subseteq Out(G, l)
  <2>1. ASSUME NEW o \in GetState(n)
        PROVE  (IF o.got = Broken THEN {o} ELSE UpdateState(o.mem, Append(o.got, task))) \subseteq Out(G, l)
    <3>1. o \in Out(G, l) /\ o.mem \in Mem(G, l) /\ o.got \in G \cup {Nothing}
      BY <2>1, GetStateOut DEF Out
    <3>2. CASE o.got = Broken
      BY <3>1, <3>2
    <3>3. CASE o.got # Broken
      <4>1. Append(o.got, task) \in G
        BY <3>1, <3>3 DEF Broken
      <4>2. UpdateState(o.mem, Append(o.got, task)) \subseteq Out(G, l)
        BY <3>1, <4>1, UpdateStateSets
      <4>3. QED
        BY <3>3, <4>2
    <3>4. QED
      BY <3>2, <3>3
  <2>2. QED
    BY <2>1
<1>3. A \subseteq Out(G, l)
  <2>1. ASSUME m.redis # Nothing PROVE Outcome([m EXCEPT !.redis = s, !.copy = s], s) \in Out(G, l)
    <3>1. [m EXCEPT !.redis = s, !.copy = s] \in Mem(G, l)
      BY <1>1, <2>1, MemParts
    <3>2. QED
      BY <1>1, <2>1, <3>1, OutIs
  <2>2. QED
    BY <1>2, <2>1
<1>4. B \subseteq Out(G, l)
  <2>1. ASSUME NEW n \in Down(m) PROVE Fallback(n) \subseteq Out(G, l)
    BY <1>2, <2>1, DownMem
  <2> HIDE DEF Fallback
  <2>2. QED
    BY <2>1
<1>5. C \subseteq Out(G, l)
  <2>1. ASSUME m.redis # Nothing, NEW n \in Down(m) PROVE Fallback([n EXCEPT !.redis = s]) \subseteq Out(G, l)
    <3>1. n \in Mem(G, l)
      BY <2>1, DownMem
    <3>2. [n EXCEPT !.redis = s] \in Mem(G, l)
      BY <1>1, <2>1, <3>1, MemParts
    <3>3. QED
      BY <1>2, <3>2
  <2> HIDE DEF Fallback
  <2>2. QED
    BY <2>1
<1>6. CreateTask(m, task) = A \cup B \cup C
  BY DEF CreateTask
<1> HIDE DEF A, B, C
<1>7. QED
  BY <1>3, <1>4, <1>5, <1>6

LEMMA SavedAgainMem ==
  ASSUME NEW G \in SUBSET Seq(Task), NEW l \in Nat, NEW m \in Mem(G, l)
  PROVE  SavedAgain(m) \subseteq Mem(G, l)
<1>1. ASSUME NEW o \in GetState(m)
      PROVE  (IF o.got = Broken THEN {o.mem} ELSE {p.mem : p \in SetBoth(o.mem, o.got)}) \subseteq Mem(G, l)
  <2>1. o.mem \in Mem(G, l) /\ o.got \in G \cup {Nothing}
    BY <1>1, GetStateOut DEF Out
  <2>2. CASE o.got = Broken
    BY <2>1, <2>2
  <2>3. CASE o.got # Broken
    <3>1. SetBoth(o.mem, o.got) \subseteq Out(G, l)
      BY <2>1, <2>3, SetBothOut DEF Broken
    <3>2. \A p \in Out(G, l) : p.mem \in Mem(G, l)
      BY DEF Out
    <3>3. QED
      BY <2>3, <3>1, <3>2
  <2>4. QED
    BY <2>2, <2>3
<1>2. QED
  BY <1>1 DEF SavedAgain

LEMMA CompleteInCopyMem ==
  ASSUME NEW G \in SUBSET Seq(Task), NEW l \in Nat, NEW m \in Mem(G, l), \A x \in G : AllDone(x) \in G
  PROVE  CompleteInCopy(m) \subseteq Mem(G, l)
<1>1. ASSUME NEW o \in GetState(m)
      PROVE  (IF o.got = Broken THEN o.mem ELSE [o.mem EXCEPT !.copy = AllDone(o.got)]) \in Mem(G, l)
  <2>1. o.mem \in Mem(G, l) /\ o.got \in G \cup {Nothing}
    BY <1>1, GetStateOut DEF Out
  <2>2. CASE o.got = Broken
    BY <2>1, <2>2
  <2>3. CASE o.got # Broken
    <3>1. AllDone(o.got) \in G
      BY <2>1, <2>3 DEF Broken
    <3>2. [o.mem EXCEPT !.copy = AllDone(o.got)] \in Mem(G, l)
      BY <2>1, <3>1, MemParts
    <3>3. QED
      BY <2>3, <3>2
  <2>4. QED
    BY <2>2, <2>3
<1>2. QED
  BY <1>1 DEF CompleteInCopy

LEMMA CompleteAnyMem ==
  ASSUME NEW G \in SUBSET Seq(Task), NEW l \in Nat, NEW m \in Mem(G, l), \A x \in G : AllDone(x) \in G,
         \A x \in G : First(x, "IN_PROGRESS") # NoTask => Marks(G, First(x, "IN_PROGRESS").id, "COMPLETE")
  PROVE  CompleteAny(m) \subseteq Mem(G, l)
<1> DEFINE Rest(o) ==
      IF o.got = Broken \/ First(o.got, "IN_PROGRESS") = NoTask THEN CompleteInCopy(o.mem)
      ELSE UNION {IF u.got = Broken THEN CompleteInCopy(u.mem) ELSE {u.mem} :
                    u \in UpdateTask(o.mem, First(o.got, "IN_PROGRESS").id, "COMPLETE")}
<1>1. ASSUME NEW o \in GetState(m) PROVE Rest(o) \subseteq Mem(G, l)
  <2>1. o.mem \in Mem(G, l) /\ o.got \in G \cup {Nothing}
    BY <1>1, GetStateOut DEF Out
  <2>2. CASE o.got = Broken \/ First(o.got, "IN_PROGRESS") = NoTask
    BY <2>1, <2>2, CompleteInCopyMem
  <2>3. CASE ~(o.got = Broken \/ First(o.got, "IN_PROGRESS") = NoTask)
    <3> DEFINE id == First(o.got, "IN_PROGRESS").id
    <3>1. Marks(G, id, "COMPLETE")
      BY <2>1, <2>3 DEF Broken
    <3>2. ASSUME NEW u \in UpdateTask(o.mem, id, "COMPLETE")
          PROVE  (IF u.got = Broken THEN CompleteInCopy(u.mem) ELSE {u.mem}) \subseteq Mem(G, l)
      <4>1. u.mem \in Mem(G, l)
        BY <2>1, <3>1, <3>2, UpdateTaskOut DEF Out
      <4>2. QED
        BY <4>1, CompleteInCopyMem
    <3>3. QED
      BY <2>3, <3>2
  <2>4. QED
    BY <2>2, <2>3
<1>2. CompleteAny(m) = UNION {Rest(o) : o \in GetState(m)}
  BY DEF CompleteAny
<1> HIDE DEF Rest
<1>3. QED
  BY <1>1, <1>2

-----------------------------------------------------------------------------
(* The type invariant.  Lists of tasks stay lists of tasks.                *)
Lists == Seq(Task)

LEMMA EntryOf ==
  ASSUME NEW e \in Task, NEW st \in Status
  PROVE  /\ [e EXCEPT !.status = st] \in Task
         /\ [e EXCEPT !.status = st].id = e.id /\ [e EXCEPT !.status = st].what = e.what
         /\ [e EXCEPT !.status = st].status = st
BY DEF Task

LEMMA MarkedEntry ==
  ASSUME NEW s \in Seq(Task), NEW i \in DOMAIN s, NEW st \in Status
  PROVE  /\ MarkedAt(s, i, st) \in Seq(Task)
         /\ DOMAIN MarkedAt(s, i, st) = DOMAIN s
         /\ \A j \in DOMAIN s : /\ MarkedAt(s, i, st)[j].id = s[j].id
                                /\ MarkedAt(s, i, st)[j].what = s[j].what
                                /\ MarkedAt(s, i, st)[j].status = (IF j = i THEN st ELSE s[j].status)
<1> DEFINE e == [s[i] EXCEPT !.status = st]
           m == MarkedAt(s, i, st)
<1>1. s[i] \in Task
  OBVIOUS
<1>2. e \in Task /\ e.id = s[i].id /\ e.what = s[i].what /\ e.status = st
  BY <1>1, EntryOf
<1>3. m = [s EXCEPT ![i] = e]
  BY DEF MarkedAt
<1> HIDE DEF e, m
<1>4. m \in Seq(Task) /\ DOMAIN m = DOMAIN s /\ \A j \in DOMAIN s : m[j] = IF j = i THEN e ELSE s[j]
  BY <1>2, <1>3
<1>5. \A j \in DOMAIN s : m[j].id = s[j].id /\ m[j].what = s[j].what
                           /\ m[j].status = (IF j = i THEN st ELSE s[j].status)
  BY <1>2, <1>4
<1>6. QED
  BY <1>4, <1>5 DEF m

LEMMA DoneEntries ==
  ASSUME NEW s \in Seq(Task)
  PROVE  /\ AllDone(s) \in Seq(Task) /\ DOMAIN AllDone(s) = DOMAIN s
         /\ \A j \in DOMAIN s : /\ AllDone(s)[j].id = s[j].id /\ AllDone(s)[j].what = s[j].what
                                /\ s[j].status # "PENDING" <=> AllDone(s)[j].status # "PENDING"
<1> DEFINE e(j) == [s[j] EXCEPT !.status = "COMPLETE"]
<1>1. \A j \in DOMAIN s : s[j] \in Task /\ "COMPLETE" \in Status
  BY DEF Status
<1>2. ASSUME NEW j \in DOMAIN s
      PROVE  e(j) \in Task /\ e(j).id = s[j].id /\ e(j).what = s[j].what /\ e(j).status = "COMPLETE"
  BY <1>1, EntryOf
<1>3. DOMAIN AllDone(s) = DOMAIN s
      /\ \A j \in DOMAIN s : AllDone(s)[j] = IF s[j].status = "IN_PROGRESS" THEN e(j) ELSE s[j]
  BY DEF AllDone
<1> HIDE DEF e
<1>4. \A j \in DOMAIN s : AllDone(s)[j] \in Task
  BY <1>1, <1>2, <1>3
<1>5. DOMAIN s = 1 .. Len(s) /\ Len(s) \in Nat
  OBVIOUS
<1>6. AllDone(s) \in [1 .. Len(s) -> Task]
  BY <1>3, <1>4, <1>5 DEF AllDone
<1>7. AllDone(s) \in Seq(Task)
  BY <1>5, <1>6
<1>8. QED
  BY <1>2, <1>3, <1>7

LEMMA ListsKept ==
  /\ \A id, st : st \in Status => Marks(Lists, id, st)
  /\ \A s \in Lists : AllDone(s) \in Lists
  /\ \A s \in Lists, t \in Task : Append(s, t) \in Lists
  /\ Lists \in SUBSET Seq(Task) /\ <<>> \in Lists /\ Lists \cup {<<>>} = Lists
<1>1. ASSUME NEW id, NEW st \in Status, NEW s \in Lists, Places(s, id) # {} PROVE Mark(s, id, st) \in Lists
  <2>1. s \in Seq(Task)
    BY DEF Lists
  <2>2. PICK i \in DOMAIN s : s[i].id = id /\ Mark(s, id, st) = MarkedAt(s, i, st)
    BY <1>1, <2>1, MarkOne
  <2>3. MarkedAt(s, i, st) \in Seq(Task)
    BY <2>1, MarkedEntry
  <2>4. QED
    BY <2>2, <2>3 DEF Lists
<1>2. \A id, st : st \in Status => Marks(Lists, id, st)
  BY <1>1 DEF Marks
<1>3. \A s \in Lists : AllDone(s) \in Lists
  BY DoneEntries DEF Lists
<1>4. \A s \in Lists, t \in Task : Append(s, t) \in Lists
  BY DEF Lists
<1>5. Lists \in SUBSET Seq(Task) /\ <<>> \in Lists
  BY DEF Lists
<1>6. QED
  BY <1>2, <1>3, <1>4, <1>5

MemPart == memory \in Mem(Lists, 0) /\ doubled \subseteq Tasks /\ refounded \in BOOLEAN
Holding == {"prepare", "run", "ground", "react"}
CurrentOK ==
  /\ step \in Holding => current \in Task
  /\ current # NoTask => step \in Holding \cup {"cut off"}

LEMMA RememberTyped ==
  ASSUME MemPart, NEW m \in Mem(Lists, 0), Remember(m)
  PROVE  MemPart'
<1>1. memory' \in Mem(Lists, 0) /\ doubled' \subseteq Tasks
  BY DEF Remember, MemPart
<1>2. refounded' \in BOOLEAN
  BY DEF Remember, MemPart
<1>3. QED
  BY <1>1, <1>2 DEF MemPart

(* What an access gives: a memory of lists of tasks, and such a list or an *)
(* exception.                                                              *)
Typed(O) == \A o \in O : o.mem \in Mem(Lists, 0) /\ o.got \in Lists \cup {Nothing}

LEMMA OutTyped ==
  ASSUME NEW m \in Mem(Lists, 0)
  PROVE  /\ Typed(GetState(m)) /\ Typed(UpdateState(m, Nothing))
         /\ \A id, st : st \in Status => Typed(UpdateTask(m, id, st))
         /\ \A t \in Task : Typed(CreateTask(m, t))
         /\ SavedAgain(m) \subseteq Mem(Lists, 0) /\ CompleteAny(m) \subseteq Mem(Lists, 0)
<1>1. 0 \in Nat /\ Lists \in SUBSET Seq(Task) /\ Lists \cup {<<>>} = Lists
  BY ListsKept
<1>2. \A O : O \subseteq Out(Lists, 0) => Typed(O)
  BY DEF Out, Typed
<1>3. Typed(GetState(m)) /\ SavedAgain(m) \subseteq Mem(Lists, 0)
  BY <1>1, <1>2, GetStateOut, SavedAgainMem
<1>4. Typed(UpdateState(m, Nothing))
  <2>1. ASSUME NEW o \in UpdateState(m, Nothing) PROVE o.mem \in Mem(Lists, 0) /\ o.got \in Lists \cup {Nothing}
    <3>1. o.mem \in Mem(Lists \cup {<<>>}, 0) /\ o.got \in Lists \cup {<<>>, Nothing}
      BY <1>1, UpdateStateKeeps
    <3>2. QED
      BY <1>1, <3>1
  <2>2. QED
    BY <2>1 DEF Typed
<1>5. ASSUME NEW id, NEW st \in Status PROVE Typed(UpdateTask(m, id, st))
  <2>1. Marks(Lists, id, st)
    BY ListsKept
  <2>2. QED
    BY <1>1, <1>2, <2>1, UpdateTaskOut
<1>6. ASSUME NEW t \in Task PROVE Typed(CreateTask(m, t))
  <2>1. \A x \in Lists : Append(x, t) \in Lists
    BY ListsKept
  <2>2. QED
    BY <1>1, <1>2, <2>1, CreateTaskOut
<1>7. CompleteAny(m) \subseteq Mem(Lists, 0)
  <2>1. \A x \in Lists : AllDone(x) \in Lists
    BY ListsKept
  <2>2. \A id : Marks(Lists, id, "COMPLETE")
    BY ListsKept DEF Status
  <2>3. QED
    BY <1>1, <2>1, <2>2, CompleteAnyMem
<1>8. QED
  BY <1>3, <1>4, <1>5, <1>6, <1>7

(* What is added after a reflection is a sequence of tasks. *)
LEMMA Listed ==
  ASSUME NEW S \in SUBSET Tasks, IsFiniteSet(S)
  PROVE  SetToSeq(S) \in Seq(Tasks)
<1>1. Cardinality(S) \in Nat /\ ExistsBijection(1 .. Cardinality(S), S)
  BY FS_CardinalityType
<1>2. \E f \in [1 .. Cardinality(S) -> S] : IsInjective(f)
  BY <1>1 DEF ExistsBijection, Bijection, Injection
<1>3. SetToSeq(S) \in [1 .. Cardinality(S) -> S]
  BY <1>2 DEF SetToSeq
<1>4. QED
  BY <1>1, <1>3

BeforeRun == {"orphans", "choose", "reflect", "prepare", "run"}
RunBound == \A t \in Tasks : runsOf[t] <= iteration /\ (step \in BeforeRun => runsOf[t] < iteration)

ControlPart ==
  /\ step \in Steps /\ view \in Seq(Task) /\ iteration \in 0 .. Ceiling
  /\ current \in Task \cup {NoTask} /\ reflected \in BOOLEAN /\ wanted \in Seq(Tasks)
  /\ findings \subseteq Tasks /\ recorded \subseteq Tasks /\ made \in Nat
  /\ runsOf \in [Tasks -> 0 .. Ceiling]
  /\ CurrentOK /\ RunBound

LoopInv == MemPart /\ ControlPart

LEMMA StepNames ==
  /\ Steps = {"plan", "snapshot", "scan", "prune", "head", "orphans", "choose", "reflect",
              "prepare", "run", "ground", "react", "save", "returned", "raised", "cut off"}
  /\ \A t \in Task : t.id \in Nat /\ t.what \in Tasks /\ t.status \in Status
  /\ \A n \in Nat, t \in Tasks : New(n, t) \in Task
  /\ "PENDING" \in Status /\ "IN_PROGRESS" \in Status /\ "COMPLETE" \in Status
BY DEF Steps, AgentEnds, Task, New, Status

LEMMA LoopInvInit == LoopInit => LoopInv
<1> SUFFICES ASSUME LoopInit PROVE LoopInv
  OBVIOUS
<1>1. memory \in Mem(Lists, 0)
  BY LoopAssumption DEF LoopInit, Mem, Lists, LoopAssumption
<1>2. MemPart
  BY <1>1 DEF LoopInit, MemPart
<1>3. ControlPart
  <2>1. step \in Steps /\ current \in Task \cup {NoTask} /\ findings \subseteq Tasks /\ recorded \subseteq Tasks
    BY StepNames DEF LoopInit
  <2>2. view \in Seq(Task) /\ wanted \in Seq(Tasks)
    BY DEF LoopInit
  <2>3. reflected \in BOOLEAN
    BY DEF LoopInit
  <2>4. iteration \in 0 .. Ceiling /\ made \in Nat /\ runsOf \in [Tasks -> 0 .. Ceiling]
    BY LoopAssumption DEF LoopInit, LoopAssumption
  <2>5. CurrentOK /\ RunBound
    BY DEF LoopInit, CurrentOK, RunBound, Holding, BeforeRun
  <2>6. QED
    BY <2>1, <2>2, <2>3, <2>4, <2>5 DEF ControlPart
<1>4. QED
  BY <1>2, <1>3 DEF LoopInv

LEMMA PlanTyped ==
  ASSUME NEW m \in Mem(Lists, 0)
  PROVE  LET s == [i \in DOMAIN Plan |-> New(i, Plan[i])]
             k == [m EXCEPT !.copy = s]
             O == {Outcome([k EXCEPT !.redis = s], s)} \cup UNION {{Outcome(n, s), Outcome([n EXCEPT !.redis = s], s)} : n \in Down(k)}
         IN  s \in Lists /\ Typed(Audited(O))
<1> DEFINE s == [i \in DOMAIN Plan |-> New(i, Plan[i])]
           k == [m EXCEPT !.copy = s]
           O == {Outcome([k EXCEPT !.redis = s], s)} \cup UNION {{Outcome(n, s), Outcome([n EXCEPT !.redis = s], s)} : n \in Down(k)}
<1>1. s \in Lists
  <2>1. Plan \in Seq(Tasks) /\ DOMAIN Plan = 1 .. Len(Plan) /\ Len(Plan) \in Nat
    BY LoopAssumption DEF LoopAssumption
  <2>2. \A i \in DOMAIN Plan : i \in Nat /\ Plan[i] \in Tasks
    BY <2>1
  <2>3. \A i \in DOMAIN Plan : New(i, Plan[i]) \in Task
    BY <2>2, StepNames
  <2>4. s \in [1 .. Len(Plan) -> Task]
    BY <2>1, <2>3
  <2>5. QED
    BY <2>1, <2>4 DEF Lists
<1>2. 0 \in Nat /\ Lists \in SUBSET Seq(Task)
  BY ListsKept
<1> HIDE DEF s
<1>3. k \in Mem(Lists, 0)
  BY <1>1, MemParts
<1> HIDE DEF k
<1>4. [k EXCEPT !.redis = s] \in Mem(Lists, 0)
  BY <1>1, <1>3, MemParts
<1>5. ASSUME NEW n \in Down(k) PROVE Outcome(n, s) \in Out(Lists, 0) /\ Outcome([n EXCEPT !.redis = s], s) \in Out(Lists, 0)
  <2>1. n \in Mem(Lists, 0)
    BY <1>2, <1>3, <1>5, DownMem
  <2>2. [n EXCEPT !.redis = s] \in Mem(Lists, 0)
    BY <1>1, <2>1, MemParts
  <2>3. QED
    BY <1>1, <2>1, <2>2, OutIs
<1>6. Outcome([k EXCEPT !.redis = s], s) \in Out(Lists, 0)
  BY <1>1, <1>4, OutIs
<1>7. O \in SUBSET Out(Lists, 0)
  BY <1>5, <1>6
<1> HIDE DEF O
<1>8. Audited(O) \subseteq Out(Lists, 0)
  BY <1>2, <1>7, AuditedOut
<1>9. Typed(Audited(O))
  BY <1>8 DEF Out, Typed
<1>10. QED
  BY <1>1, <1>9 DEF O, k, s

LEMMA MemStep == LoopInv /\ [LoopNext]_loopVars => MemPart'
<1> SUFFICES ASSUME LoopInv, [LoopNext]_loopVars PROVE MemPart'
  OBVIOUS
<1>0. memory \in Mem(Lists, 0) /\ MemPart
  BY DEF LoopInv, MemPart
<1>1. Forget => MemPart'
  BY <1>0 DEF Forget, MemPart
<1>2. \A m \in Mem(Lists, 0) : Remember(m) => MemPart'
  BY <1>0, RememberTyped
<1>3. \A O, o : Typed(O) /\ o \in O => o.mem \in Mem(Lists, 0)
  BY DEF Typed
<1>4. Typed(GetState(memory)) /\ Typed(UpdateState(memory, Nothing))
      /\ \A id, st : st \in Status => Typed(UpdateTask(memory, id, st))
  BY <1>0, OutTyped
<1>5. CASE WritePlan
  <2> DEFINE s == [i \in DOMAIN Plan |-> New(i, Plan[i])]
             k == [memory EXCEPT !.copy = s]
             O == {Outcome([k EXCEPT !.redis = s], s)} \cup UNION {{Outcome(n, s), Outcome([n EXCEPT !.redis = s], s)} : n \in Down(k)}
  <2>1. Typed(Audited(O))
    BY <1>0, PlanTyped
  <2>2. \E o \in Audited(O) : Remember(o.mem)
    BY <1>5 DEF WritePlan
  <2> HIDE DEF O
  <2>3. QED
    BY <1>2, <1>3, <2>1, <2>2
<1>6. CASE PublishSnapshot \/ Save
  <2>1. \E o \in UpdateState(memory, Nothing) : Remember(o.mem)
    BY <1>6 DEF PublishSnapshot, Save
  <2>2. QED
    BY <1>2, <1>3, <1>4, <2>1
<1>7. CASE Scan \/ NextIteration \/ Reread \/ ReadAgain
  <2>1. \E o \in GetState(memory) : Remember(o.mem)
    BY <1>7 DEF Scan, NextIteration, Reread, ReadAgain
  <2>2. QED
    BY <1>2, <1>3, <1>4, <2>1
<1>8. CASE Prune \/ CompleteOrphan \/ PassOver \/ TakeTask
  <2>1. \E id, st : st \in Status /\ \E o \in UpdateTask(memory, id, st) : Remember(o.mem)
    BY <1>8, StepNames DEF Prune, CompleteOrphan, PassOver, TakeTask
  <2>2. QED
    BY <1>2, <1>3, <1>4, <2>1
<1>9. CASE Pruned \/ CeilingReached \/ Reflect \/ CutOff \/ UNCHANGED loopVars
  BY <1>1, <1>9 DEF Pruned, CeilingReached, Reflect, CutOff, Forget, loopVars
<1>10. CASE Prepare
  <2>1. SavedAgain(memory) \subseteq Mem(Lists, 0)
    BY <1>0, OutTyped
  <2>2. Forget \/ \E m \in {o.mem : o \in GetState(memory)} \cup SavedAgain(memory) : Remember(m)
    BY <1>10 DEF Prepare
  <2>3. QED
    BY <1>1, <1>2, <1>3, <1>4, <2>1, <2>2
<1>11. CASE RunTool
  <2>1. Forget \/ \E n \in Unlogged(memory) : Remember(n)
    BY <1>11 DEF RunTool
  <2>2. QED
    BY <1>0, <1>1, <1>2, <2>1, UnloggedMem
<1>12. CASE Ground
  <2>1. \E m \in SavedAgain(memory) : Remember(m)
    BY <1>12 DEF Ground
  <2>2. QED
    BY <1>0, <1>2, <2>1, OutTyped
<1>13. CASE Inject
  <2>1. PICK o \in GetState(memory) :
          IF o.got = Broken \/ Head(wanted) \in Named(o.got) \cup recorded THEN Remember(o.mem)
          ELSE \E c \in CreateTask(o.mem, New(made + 1, Head(wanted))) : Remember(c.mem)
    BY <1>13 DEF Inject
  <2>2. o.mem \in Mem(Lists, 0)
    BY <1>3, <1>4, <2>1
  <2>3. Head(wanted) \in Tasks /\ made + 1 \in Nat
    BY <1>13 DEF Inject, LoopInv, ControlPart
  <2>4. New(made + 1, Head(wanted)) \in Task
    BY <2>3, StepNames
  <2>5. Typed(CreateTask(o.mem, New(made + 1, Head(wanted))))
    BY <2>2, <2>4, OutTyped
  <2>6. QED
    BY <1>2, <1>3, <2>1, <2>2, <2>5
<1>14. CASE Complete
  <2>1. PICK o \in UpdateTask(memory, current.id, "COMPLETE") :
          \E m \in (IF o.got = Broken THEN CompleteAny(o.mem) ELSE {o.mem}) : Remember(m)
    BY <1>14 DEF Complete
  <2>2. o.mem \in Mem(Lists, 0)
    BY <1>3, <1>4, <2>1, StepNames
  <2>3. CompleteAny(o.mem) \subseteq Mem(Lists, 0)
    BY <2>2, OutTyped
  <2>4. QED
    BY <1>2, <2>1, <2>2, <2>3
<1>15. QED
  BY <1>5, <1>6, <1>7, <1>8, <1>9, <1>10, <1>11, <1>12, <1>13, <1>14 DEF LoopNext, AgentStep

LEMMA ControlStep == LoopInv /\ [LoopNext]_loopVars => ControlPart'
<1> SUFFICES ASSUME LoopInv, [LoopNext]_loopVars PROVE ControlPart'
  OBVIOUS
<1>0. memory \in Mem(Lists, 0) /\ ControlPart
  BY DEF LoopInv, MemPart
<1>1. Ceiling \in Nat /\ iteration \in 0 .. Ceiling
  BY <1>0, LoopAssumption DEF ControlPart, LoopAssumption
<1>2. \A o \in GetState(memory) : o.got # Broken => o.got \in Seq(Task)
  BY <1>0, OutTyped DEF Typed, Broken, Lists
<1>3. CASE WritePlan
  <2>1. Len(Plan) \in Nat
    BY LoopAssumption DEF LoopAssumption
  <2>2. step' \in {"raised", "snapshot"} /\ step = "plan"
    BY <1>3 DEF WritePlan
  <2>3. QED
    BY <1>0, <1>3, <2>1, <2>2, StepNames DEF WritePlan, ControlPart, CurrentOK, RunBound, Holding, BeforeRun
<1>4. CASE PublishSnapshot
  BY <1>0, <1>4, StepNames DEF PublishSnapshot, ControlPart, CurrentOK, RunBound, Holding, BeforeRun
<1>5. CASE Scan
  <2>1. view' \in Seq(Task) /\ step' \in {"head", "prune"}
    BY <1>0, <1>2, <1>5 DEF Scan, ControlPart
  <2>2. QED
    BY <1>0, <1>5, <2>1, StepNames DEF Scan, ControlPart, CurrentOK, RunBound, Holding, BeforeRun
<1>6. CASE Prune
  <2>1. PICK i \in Prunable : view' = [view EXCEPT ![i].status = "COMPLETE"]
    BY <1>6 DEF Prune
  <2>2. view' = MarkedAt(view, i, "COMPLETE") /\ i \in DOMAIN view
    BY <2>1 DEF MarkedAt, Prunable
  <2>3. view' \in Seq(Task)
    BY <1>0, <2>2, StepNames, MarkedEntry DEF ControlPart
  <2>4. step = "prune" /\ step' \in {"head", "prune"}
    BY <1>6 DEF Prune
  <2>5. QED
    BY <1>0, <1>6, <2>3, <2>4, StepNames DEF Prune, ControlPart, CurrentOK, RunBound, Holding, BeforeRun
<1>7. CASE Pruned
  BY <1>0, <1>7, StepNames DEF Pruned, ControlPart, CurrentOK, RunBound, Holding, BeforeRun
<1>8. CASE NextIteration
  <2>1. view' \in Seq(Task) /\ step' \in {"returned", "orphans"} /\ step = "head"
    BY <1>0, <1>2, <1>8 DEF NextIteration, ControlPart
  <2>2. iteration' = iteration + 1 /\ iteration' \in 0 .. Ceiling
    BY <1>1, <1>8 DEF NextIteration
  <2>3. RunBound'
    <3>1. \A t \in Tasks : runsOf[t] \in Nat /\ runsOf[t] <= iteration
      BY <1>0, <1>1 DEF ControlPart, RunBound
    <3>2. \A t \in Tasks : runsOf[t] < iteration'
      BY <1>1, <2>2, <3>1
    <3>3. runsOf' = runsOf
      BY <1>8 DEF NextIteration
    <3>4. \A t \in Tasks : runsOf'[t] <= iteration' /\ runsOf'[t] < iteration'
      BY <1>1, <2>2, <3>1, <3>2, <3>3
    <3>5. QED
      BY <3>4 DEF RunBound
  <2>4. QED
    BY <1>0, <1>8, <2>1, <2>2, <2>3, StepNames DEF NextIteration, ControlPart, CurrentOK, Holding
<1>9. CASE CeilingReached
  BY <1>0, <1>9, StepNames DEF CeilingReached, ControlPart, CurrentOK, RunBound, Holding, BeforeRun
<1>10. CASE CompleteOrphan
  <2> DEFINE t == First(view, "IN_PROGRESS")
  <2>1. view \in Seq(Task) /\ t # NoTask /\ view' = Mark(view, t.id, "COMPLETE")
    BY <1>0, <1>10 DEF CompleteOrphan, ControlPart
  <2>2. PICK i \in DOMAIN view : t = view[i]
    BY <2>1, FirstOne
  <2>3. Places(view, t.id) # {}
    BY <2>2 DEF Places
  <2>4. view' \in Seq(Task)
    BY <2>1, <2>3, ListsKept, StepNames DEF Marks, Lists
  <2>5. QED
    BY <1>0, <1>10, <2>4 DEF CompleteOrphan, ControlPart, CurrentOK, RunBound
<1>11. CASE Reread
  <2>1. view' \in Seq(Task)
    BY <1>0, <1>2, <1>11 DEF Reread, ControlPart
  <2>2. QED
    BY <1>0, <1>11, <2>1, StepNames DEF Reread, ControlPart, CurrentOK, RunBound, Holding, BeforeRun
<1>12. CASE PassOver
  <2>1. findings' \subseteq Tasks
    BY <1>0, <1>12, LoopAssumption DEF PassOver, ControlPart, LoopAssumption
  <2>2. QED
    BY <1>0, <1>12, <2>1, StepNames DEF PassOver, ControlPart, CurrentOK, RunBound, Holding, BeforeRun
<1>13. CASE TakeTask
  <2>1. \E i \in DOMAIN view : current' = view[i]
    BY <1>0, <1>13, FirstOne DEF TakeTask, ControlPart
  <2>2. current' \in Task
    BY <1>0, <2>1 DEF ControlPart
  <2>3. QED
    BY <1>0, <1>13, <2>2, StepNames DEF TakeTask, ControlPart, CurrentOK, RunBound, Holding, BeforeRun
<1>14. CASE Reflect
  <2>1. PICK A \in SUBSET (Absences \ Named(view)) :
          /\ step = "choose" /\ wanted' = SetToSeq(A) /\ reflected' = (A # {})
          /\ step' = IF A = {} THEN "returned" ELSE "reflect"
    BY <1>14 DEF Reflect
  <2>2. A \in SUBSET Tasks /\ IsFiniteSet(A)
    BY LoopAssumption, FS_Subset DEF LoopAssumption, Tasks
  <2>3. wanted' \in Seq(Tasks)
    BY <2>1, <2>2, Listed
  <2>4. step' \in {"returned", "reflect"} /\ reflected' \in BOOLEAN
    BY <2>1
  <2>5. QED
    BY <1>0, <1>14, <2>1, <2>3, <2>4, StepNames DEF Reflect, ControlPart, CurrentOK, RunBound, Holding, BeforeRun
<1>15. CASE Prepare
  BY <1>0, <1>15, StepNames DEF Prepare, ControlPart, CurrentOK, RunBound, Holding, BeforeRun
<1>16. CASE RunTool
  <2> DEFINE t == current.what
  <2>1. current \in Task /\ t \in Tasks /\ step = "run" /\ step' = "ground"
    BY <1>0, <1>16, StepNames DEF RunTool, ControlPart, CurrentOK, Holding
  <2>2. \A u \in DOMAIN Asks : Asks[u] \in Seq(Tasks)
    BY LoopAssumption DEF LoopAssumption
  <2>3. <<>> \in Seq(Tasks)
    OBVIOUS
  <2> HIDE DEF t
  <2>4. wanted' \in {<<>>} \cup (IF t \in DOMAIN Asks THEN {Asks[t]} ELSE {})
        /\ (recorded' = recorded \/ recorded' = recorded \cup {t})
    BY <1>16 DEF RunTool, t
  <2>5. wanted' \in Seq(Tasks) /\ recorded' \subseteq Tasks
    BY <1>0, <2>1, <2>2, <2>3, <2>4 DEF ControlPart
  <2>6. runsOf' = [runsOf EXCEPT ![t] = @ + 1] /\ findings' = findings \cup {t} /\ iteration' = iteration
    BY <1>16 DEF RunTool, t
  <2>7. \A u \in Tasks : runsOf[u] \in Nat /\ runsOf[u] < iteration
    BY <1>0, <1>1, <2>1 DEF ControlPart, RunBound, BeforeRun
  <2>8. runsOf' \in [Tasks -> 0 .. Ceiling] /\ \A u \in Tasks : runsOf'[u] <= iteration
    BY <1>0, <1>1, <2>1, <2>6, <2>7 DEF ControlPart
  <2>9. RunBound'
    BY <2>1, <2>6, <2>8 DEF RunBound, BeforeRun
  <2>10. findings' \subseteq Tasks
    BY <1>0, <2>1, <2>6 DEF ControlPart
  <2>11. QED
    BY <1>0, <1>16, <2>1, <2>5, <2>8, <2>9, <2>10, StepNames DEF RunTool, ControlPart, CurrentOK, Holding
<1>17. CASE Ground
  BY <1>0, <1>17, StepNames DEF Ground, ControlPart, CurrentOK, RunBound, Holding, BeforeRun
<1>18. CASE Inject
  <2>1. wanted' \in Seq(Tasks) /\ made' \in Nat
    BY <1>0, <1>18 DEF Inject, ControlPart
  <2>2. QED
    BY <1>0, <1>18, <2>1 DEF Inject, ControlPart, CurrentOK, RunBound
<1>19. CASE ReadAgain
  <2>1. view' \in Seq(Task) /\ step' \in {"returned", "orphans"} /\ step = "reflect"
    BY <1>0, <1>2, <1>19 DEF ReadAgain, ControlPart
  <2>2. QED
    BY <1>0, <1>19, <2>1, StepNames DEF ReadAgain, ControlPart, CurrentOK, RunBound, Holding, BeforeRun
<1>20. CASE Complete
  BY <1>0, <1>20, StepNames DEF Complete, ControlPart, CurrentOK, RunBound, Holding, BeforeRun
<1>21. CASE Save
  <2>1. step' \in {"raised", "head"} /\ step = "save"
    BY <1>21 DEF Save
  <2>2. QED
    BY <1>0, <1>21, <2>1, StepNames DEF Save, ControlPart, CurrentOK, RunBound, Holding, BeforeRun
<1>22. CASE CutOff
  BY <1>0, <1>22, StepNames DEF CutOff, ControlPart, CurrentOK, RunBound, Holding, BeforeRun
<1>23. CASE UNCHANGED loopVars
  BY <1>0, <1>23 DEF loopVars, ControlPart, CurrentOK, RunBound
<1>24. QED
  BY <1>3, <1>4, <1>5, <1>6, <1>7, <1>8, <1>9, <1>10, <1>11, <1>12, <1>13, <1>14, <1>15, <1>16, <1>17,
     <1>18, <1>19, <1>20, <1>21, <1>22, <1>23 DEF LoopNext, AgentStep

LEMMA LoopInvStep == LoopInv /\ [LoopNext]_loopVars => LoopInv'
BY MemStep, ControlStep DEF LoopInv

LEMMA LoopTyped == LoopInv => LoopTypeOK
<1> SUFFICES ASSUME LoopInv PROVE LoopTypeOK
  OBVIOUS
<1>1. memory \in [redis : Seq(Task) \cup {Nothing}, copy : Seq(Task), outages : 0 .. MaxOutages, losses : 0 .. MaxAuditFaults]
  BY DEF LoopInv, MemPart, Mem, Lists
<1>2. QED
  BY <1>1 DEF LoopInv, MemPart, ControlPart, LoopTypeOK

(* Whatever becomes of the accesses to the working memory, the record, its *)
(* copy, what the loop has read of them and its own counters keep their    *)
(* form: no tool is run oftener than there are iterations.                 *)
THEOREM LoopTypeCorrect == LoopSpec => []LoopTypeOK
<1>1. LoopInit => LoopInv
  BY LoopInvInit
<1>2. LoopInv /\ [LoopNext]_loopVars => LoopInv'
  BY LoopInvStep
<1>3. LoopInv => LoopTypeOK
  BY LoopTyped
<1>4. QED
  BY <1>1, <1>2, <1>3, PTL DEF LoopSpec

-----------------------------------------------------------------------------
(* The plan.  N says what each task created so far is about.  A good list  *)
(* holds only these tasks, nothing that is not in T is marked in it, and   *)
(* all of P is in it.                                                      *)
Good(N, n, T, P) == {s \in Seq(Task) :
  /\ \A i \in DOMAIN s : /\ s[i].id \in 1 .. n /\ s[i].what = N[s[i].id]
                         /\ s[i].status # "PENDING" => s[i].what \in T
  /\ P \subseteq Named(s)}

LEMMA GoodGrows ==
  ASSUME NEW N, NEW M, NEW n \in Nat, NEW k \in Nat, NEW T, NEW U, NEW P, NEW Q,
         n <= k, \A i \in 1 .. n : M[i] = N[i], T \subseteq U, Q \subseteq P
  PROVE  Good(N, n, T, P) \subseteq Good(M, k, U, Q)
<1> SUFFICES ASSUME NEW s \in Good(N, n, T, P) PROVE s \in Good(M, k, U, Q)
  OBVIOUS
<1>1. \A i \in DOMAIN s : s[i].id \in 1 .. n /\ s[i].what = N[s[i].id]
  BY DEF Good
<1>2. \A i \in DOMAIN s : s[i].id \in 1 .. k /\ s[i].what = M[s[i].id]
  BY <1>1
<1>3. \A i \in DOMAIN s : s[i].status # "PENDING" => s[i].what \in U
  BY DEF Good
<1>4. Q \subseteq Named(s)
  BY DEF Good
<1>5. QED
  BY <1>2, <1>3, <1>4 DEF Good

LEMMA MemGrows ==
  ASSUME NEW G, NEW H, NEW l \in Nat, G \subseteq H
  PROVE  Mem(G, l) \subseteq Mem(H, l)
BY DEF Mem

(* Marking keeps the names. *)
LEMMA SameNames ==
  ASSUME NEW s, NEW r, DOMAIN r = DOMAIN s, \A i \in DOMAIN s : r[i].what = s[i].what
  PROVE  Named(r) = Named(s)
BY DEF Named

LEMMA GoodMarked ==
  ASSUME NEW N, NEW n, NEW T, NEW P, NEW st \in Status,
         NEW s \in Good(N, n, T, P), NEW i \in DOMAIN s, s[i].what \in T
  PROVE  MarkedAt(s, i, st) \in Good(N, n, T, P)
<1> DEFINE r == MarkedAt(s, i, st)
<1>1. s \in Seq(Task)
  BY DEF Good
<1>2. r \in Seq(Task) /\ DOMAIN r = DOMAIN s
      /\ \A j \in DOMAIN s : r[j].id = s[j].id /\ r[j].what = s[j].what
                             /\ r[j].status = (IF j = i THEN st ELSE s[j].status)
  BY <1>1, MarkedEntry
<1> HIDE DEF r
<1>3. Named(r) = Named(s)
  BY <1>2, SameNames
<1>4. \A j \in DOMAIN r : /\ r[j].id \in 1 .. n /\ r[j].what = N[r[j].id]
                          /\ r[j].status # "PENDING" => r[j].what \in T
  BY <1>2 DEF Good
<1>5. r \in Good(N, n, T, P)
  BY <1>2, <1>3, <1>4 DEF Good
<1>6. QED
  BY <1>5 DEF r

LEMMA GoodMarks ==
  ASSUME NEW N, NEW n, NEW T, NEW P, NEW st \in Status, NEW id, N[id] \in T
  PROVE  Marks(Good(N, n, T, P), id, st)
<1>1. ASSUME NEW s \in Good(N, n, T, P), Places(s, id) # {} PROVE Mark(s, id, st) \in Good(N, n, T, P)
  <2>1. s \in Seq(Task)
    BY DEF Good
  <2>2. PICK i \in DOMAIN s : s[i].id = id /\ Mark(s, id, st) = MarkedAt(s, i, st)
    BY <1>1, <2>1, MarkOne
  <2>3. s[i].what \in T
    BY <2>2 DEF Good
  <2>4. QED
    BY <2>2, <2>3, GoodMarked
<1>2. QED
  BY <1>1 DEF Marks

LEMMA GoodDone ==
  ASSUME NEW N, NEW n, NEW T, NEW P, NEW s \in Good(N, n, T, P)
  PROVE  AllDone(s) \in Good(N, n, T, P)
<1> DEFINE r == AllDone(s)
<1>1. s \in Seq(Task)
  BY DEF Good
<1>2. r \in Seq(Task) /\ DOMAIN r = DOMAIN s
      /\ \A j \in DOMAIN s : r[j].id = s[j].id /\ r[j].what = s[j].what
                             /\ (s[j].status # "PENDING" <=> r[j].status # "PENDING")
  BY <1>1, DoneEntries
<1> HIDE DEF r
<1>3. Named(r) = Named(s)
  BY <1>2, SameNames
<1>4. \A j \in DOMAIN r : /\ r[j].id \in 1 .. n /\ r[j].what = N[r[j].id]
                          /\ r[j].status # "PENDING" => r[j].what \in T
  BY <1>2 DEF Good
<1>5. r \in Good(N, n, T, P)
  BY <1>2, <1>3, <1>4 DEF Good
<1>6. QED
  BY <1>5 DEF r

LEMMA GoodFirst ==
  ASSUME NEW N, NEW n, NEW T, NEW P, NEW s \in Good(N, n, T, P), First(s, "IN_PROGRESS") # NoTask
  PROVE  N[First(s, "IN_PROGRESS").id] \in T /\ Places(s, First(s, "IN_PROGRESS").id) # {}
<1>1. s \in Seq(Task)
  BY DEF Good
<1>2. PICK i \in DOMAIN s : First(s, "IN_PROGRESS") = s[i] /\ s[i].status = "IN_PROGRESS"
  BY <1>1, FirstOne
<1>3. s[i].what \in T /\ s[i].what = N[s[i].id]
  BY <1>2 DEF Good
<1>4. i \in Places(s, s[i].id)
  BY DEF Places
<1>5. QED
  BY <1>2, <1>3, <1>4

LEMMA GoodAppended ==
  ASSUME NEW N, NEW n \in Nat, NEW T, NEW P, NEW s \in Good(N, n, T, P), NEW w \in Tasks, n > 0, N[n] = w
  PROVE  Append(s, New(n, w)) \in Good(N, n, T, P)
<1> DEFINE e == New(n, w)
           r == Append(s, e)
<1>1. s \in Seq(Task) /\ e \in Task /\ e.id = n /\ e.what = w /\ e.status = "PENDING"
  BY StepNames DEF Good, New
<1> HIDE DEF e
<1>2. r \in Seq(Task) /\ Len(r) = Len(s) + 1 /\ DOMAIN s = 1 .. Len(s) /\ DOMAIN r = 1 .. Len(r) /\ Len(s) \in Nat
  BY <1>1
<1>3. \A i \in DOMAIN s : i \in DOMAIN r /\ r[i] = s[i]
  BY <1>1, <1>2
<1>4. \A i \in DOMAIN r : i \in DOMAIN s \/ r[i] = e
  BY <1>1, <1>2
<1> HIDE DEF r
<1>5. \A j \in DOMAIN r : /\ r[j].id \in 1 .. n /\ r[j].what = N[r[j].id]
                          /\ r[j].status # "PENDING" => r[j].what \in T
  <2>1. \A j \in DOMAIN s : /\ s[j].id \in 1 .. n /\ s[j].what = N[s[j].id]
                            /\ s[j].status # "PENDING" => s[j].what \in T
    BY DEF Good
  <2>2. n \in 1 .. n
    OBVIOUS
  <2>3. QED
    BY <1>1, <1>3, <1>4, <2>1, <2>2
<1>6. Named(s) \subseteq Named(r)
  BY <1>3 DEF Named
<1>7. r \in Good(N, n, T, P)
  BY <1>2, <1>5, <1>6 DEF Good
<1>8. QED
  BY <1>7 DEF r, e

LEMMA GoodEmpty ==
  ASSUME NEW N, NEW n, NEW T
  PROVE  <<>> \in Good(N, n, T, {})
<1>1. <<>> \in Seq(Task) /\ DOMAIN <<>> = {}
  OBVIOUS
<1>2. QED
  BY <1>1 DEF Good

LEMMA GoodPlan ==
  ASSUME NEW T
  PROVE  /\ [i \in DOMAIN Plan |-> New(i, Plan[i])] \in Good(Plan, Len(Plan), T, ToSet(Plan))
         /\ Plan \in [1 .. Len(Plan) -> Tasks] /\ Len(Plan) \in Nat
<1> DEFINE s == [i \in DOMAIN Plan |-> New(i, Plan[i])]
<1>1. Plan \in Seq(Tasks) /\ DOMAIN Plan = 1 .. Len(Plan) /\ Len(Plan) \in Nat
  BY LoopAssumption DEF LoopAssumption
<1>2. \A i \in DOMAIN Plan : i \in Nat /\ Plan[i] \in Tasks
  BY <1>1
<1>3. \A i \in DOMAIN Plan : s[i] \in Task /\ s[i].id = i /\ s[i].what = Plan[i] /\ s[i].status = "PENDING"
  BY <1>2, StepNames DEF New
<1>4. s \in Seq(Task) /\ DOMAIN s = DOMAIN Plan
  BY <1>1, <1>3
<1> HIDE DEF s
<1>5. ToSet(Plan) \subseteq Named(s)
  BY <1>3, <1>4 DEF ToSet, Named
<1>6. \A j \in DOMAIN s : /\ s[j].id \in 1 .. Len(Plan) /\ s[j].what = Plan[s[j].id]
                          /\ s[j].status # "PENDING" => s[j].what \in T
  BY <1>1, <1>3, <1>4
<1>7. s \in Good(Plan, Len(Plan), T, ToSet(Plan))
  BY <1>4, <1>5, <1>6 DEF Good
<1>8. QED
  BY <1>1, <1>7 DEF s

Idle == {"plan", "raised", "cut off"}
Taken == findings \cup LeftToOthers \cup Unregistered \cup (IF step \in Holding THEN {current.what} ELSE {})
Owed == IF refounded THEN {} ELSE ToSet(Plan)
Shown == IF refounded \/ memory.losses > 0 \/ iteration = 0 THEN {} ELSE ToSet(Plan)

(* The memory and the view follow the tasks that were created.             *)
Follows(N) ==
  /\ memory \in Mem(Good(N, made, Taken, Owed), memory.losses)
  /\ view \in Good(N, made, Taken, Shown)
  /\ step \in Holding => current.id \in 1 .. made /\ current.what = N[current.id]

PlanInv ==
  /\ step = "plan" => memory.redis = Nothing /\ view = <<>> /\ iteration = 0
  /\ step \notin Idle => \E N \in [1 .. made -> Tasks] : Follows(N)
  /\ step \in {"ground", "react"} => current.what \in findings
  /\ step = "returned" /\ iteration < Ceiling /\ memory.losses = 0 =>
       iteration > 0 /\ \A i \in DOMAIN view : view[i].status # "PENDING"

LEMMA PlanInvInit == LoopInit => PlanInv
<1> SUFFICES ASSUME LoopInit PROVE PlanInv
  OBVIOUS
<1>1. step = "plan" /\ memory.redis = Nothing /\ view = <<>> /\ iteration = 0
  BY DEF LoopInit
<1>2. QED
  BY <1>1 DEF PlanInv, Idle

(* Nothing that was taken up is forgotten. *)
LEMMA TakenGrows ==
  ASSUME PlanInv, [LoopNext]_loopVars, step' \notin Idle
  PROVE  Taken \subseteq Taken'
<1> DEFINE Base == findings \cup LeftToOthers \cup Unregistered
<1>1. findings \subseteq findings'
  BY DEF LoopNext, AgentStep, WritePlan, PublishSnapshot, Scan, Prune, Pruned, NextIteration, CeilingReached,
     CompleteOrphan, Reread, PassOver, TakeTask, Reflect, Prepare, RunTool, Ground, Inject, ReadAgain,
     Complete, Save, CutOff, loopVars
<1>2. CASE step \notin Holding
  BY <1>1, <1>2 DEF Taken
<1>3. CASE step \in Holding
  <2>1. Prepare \/ RunTool \/ Ground \/ Inject \/ Complete \/ CutOff \/ UNCHANGED loopVars
    BY <1>3 DEF LoopNext, AgentStep, WritePlan, PublishSnapshot, Scan, Prune, Pruned, NextIteration, CeilingReached,
       CompleteOrphan, Reread, PassOver, TakeTask, Reflect, ReadAgain, Save, Holding
  <2>2. CASE Complete
    <3>1. current.what \in findings
      BY <2>2 DEF Complete, PlanInv
    <3>2. QED
      BY <1>1, <3>1 DEF Taken
  <2>3. CASE Prepare \/ RunTool \/ Ground \/ Inject \/ UNCHANGED loopVars
    <3>1. current' = current /\ step' \in Holding
      BY <1>3, <2>3 DEF Prepare, RunTool, Ground, Inject, loopVars, Holding
    <3>2. QED
      BY <1>1, <3>1 DEF Taken
  <2>4. ~CutOff
    BY DEF CutOff, Idle
  <2>5. QED
    BY <2>1, <2>2, <2>3, <2>4
<1>4. QED
  BY <1>2, <1>3

LEMMA GoodAccess ==
  ASSUME NEW N, NEW n, NEW T, NEW P, NEW l \in Nat, NEW m \in Mem(Good(N, n, T, P), l)
  PROVE  /\ \A o \in GetState(m) : /\ o.mem \in Mem(Good(N, n, T, P), l)
                                   /\ o.got \in Good(N, n, T, P) \cup {Nothing}
                                   /\ o.got = Broken => o.mem.losses > 0
         /\ \A id, st : st \in Status /\ N[id] \in T =>
              \A o \in UpdateTask(m, id, st) : o.mem \in Mem(Good(N, n, T, P), l)
         /\ SavedAgain(m) \subseteq Mem(Good(N, n, T, P), l)
         /\ CompleteAny(m) \subseteq Mem(Good(N, n, T, P), l)
<1> DEFINE G == Good(N, n, T, P)
<1>1. G \in SUBSET Seq(Task)
  BY DEF Good
<1>2. \A x \in G : AllDone(x) \in G
  BY GoodDone
<1>3. \A id, st : st \in Status /\ N[id] \in T => Marks(G, id, st)
  BY GoodMarks
<1>4. \A x \in G : First(x, "IN_PROGRESS") # NoTask => Marks(G, First(x, "IN_PROGRESS").id, "COMPLETE")
  <2>1. "COMPLETE" \in Status
    BY DEF Status
  <2>2. \A x \in G : First(x, "IN_PROGRESS") # NoTask => N[First(x, "IN_PROGRESS").id] \in T
    BY GoodFirst
  <2> HIDE DEF G
  <2>3. QED
    BY <1>3, <2>1, <2>2
<1>5. m \in Mem(G, l)
  OBVIOUS
<1> HIDE DEF G
<1>6. ASSUME NEW o \in GetState(m)
      PROVE  o.mem \in Mem(G, l) /\ o.got \in G \cup {Nothing} /\ (o.got = Broken => o.mem.losses > 0)
  <2>1. o \in Out(G, l) /\ (o.got = Broken => o.mem.losses > 0)
    BY <1>1, <1>5, GetStateOut
  <2>2. QED
    BY <2>1 DEF Out
<1>7. ASSUME NEW id, NEW st \in Status, N[id] \in T, NEW o \in UpdateTask(m, id, st) PROVE o.mem \in Mem(G, l)
  <2>1. Marks(G, id, st)
    BY <1>3, <1>7
  <2>2. o \in Out(G, l)
    BY <1>1, <1>5, <1>7, <2>1, UpdateTaskOut
  <2>3. QED
    BY <2>2 DEF Out
<1>8. SavedAgain(m) \subseteq Mem(G, l)
  BY <1>1, <1>5, SavedAgainMem
<1>9. CompleteAny(m) \subseteq Mem(G, l)
  BY <1>1, <1>2, <1>4, <1>5, CompleteAnyMem
<1>10. QED
  BY <1>6, <1>7, <1>8, <1>9 DEF G

(* What is read stands for the plan: the excuses are never taken back,     *)
(* but for the first read of the loop.                                     *)
LEMMA OwedShrinks ==
  ASSUME LoopInv, NEW m, Remember(m)
  PROVE  Owed' \subseteq Owed /\ memory' = m
BY DEF Owed, Remember, LoopInv, MemPart

(* An access keeps the memory good, for the tasks taken up so far.         *)
LEMMA MemKept ==
  ASSUME LoopInv, PlanInv, [LoopNext]_loopVars, step \notin Idle, step' \notin Idle, ~Inject,
         NEW N \in [1 .. made -> Tasks], Follows(N)
  PROVE  memory' \in Mem(Good(N, made, Taken', Owed'), memory.losses)
<1> DEFINE l == memory.losses
           G == Good(N, made, Taken', Owed)
           H == Good(N, made, Taken', Owed')
<1> SUFFICES memory' \in Mem(H, l)
  OBVIOUS
<1>1. l \in Nat /\ made \in Nat
  BY DEF LoopInv, MemPart, ControlPart, Mem
<1>2. Taken \subseteq Taken'
  BY TakenGrows
<1>3. memory \in Mem(G, l)
  <2>1. Good(N, made, Taken, Owed) \subseteq G
    BY <1>1, <1>2, GoodGrows
  <2> HIDE DEF G
  <2>2. memory \in Mem(Good(N, made, Taken, Owed), l)
    BY DEF Follows
  <2>3. QED
    BY <1>1, <2>1, <2>2, MemGrows
<1>4. Owed' \subseteq Owed => G \subseteq H
  BY <1>1, GoodGrows
<1>5. ASSUME NEW m \in Mem(G, l), Remember(m) PROVE memory' \in Mem(H, l)
  <2>1. Owed' \subseteq Owed /\ memory' = m
    BY <1>5, OwedShrinks
  <2> HIDE DEF G, H
  <2>2. QED
    BY <1>1, <1>4, <2>1, MemGrows
<1>6. ASSUME Forget PROVE memory' \in Mem(H, l)
  <2>1. memory' = memory /\ Owed' = Owed
    BY <1>6 DEF Forget, Owed
  <2> HIDE DEF G, H, l
  <2>2. QED
    BY <1>1, <1>3, <1>4, <2>1, MemGrows
<1>7. /\ \A o \in GetState(memory) : o.mem \in Mem(G, l)
      /\ \A id, st : st \in Status /\ N[id] \in Taken' => \A o \in UpdateTask(memory, id, st) : o.mem \in Mem(G, l)
      /\ SavedAgain(memory) \subseteq Mem(G, l)
      /\ \A m \in Mem(G, l) : CompleteAny(m) \subseteq Mem(G, l)
  BY <1>1, <1>3, GoodAccess
<1>8. view \in Seq(Task) /\ \A i \in DOMAIN view : N[view[i].id] = view[i].what
  BY DEF Follows, Good
<1>9. CASE PublishSnapshot \/ Save
  <2>1. PICK o \in UpdateState(memory, Nothing) : Remember(o.mem)
    BY <1>9 DEF PublishSnapshot, Save
  <2>2. G \in SUBSET Seq(Task)
    BY DEF Good
  <2>3. CASE o.mem \in Mem(G, l)
    BY <1>5, <2>1, <2>3
  <2>4. CASE o.mem \notin Mem(G, l)
    <3> HIDE DEF G, l
    <3>1. memory.redis = Nothing /\ o.mem.redis = <<>> /\ o.mem \in Mem(G \cup {<<>>}, l)
      BY <1>1, <1>3, <2>1, <2>2, <2>4, UpdateStateKeeps
    <3>2. refounded'
      BY <2>1, <3>1 DEF Remember
    <3>3. Owed' = {} /\ Owed' \subseteq Owed /\ memory' = o.mem
      BY <2>1, <3>2, OwedShrinks DEF Owed
    <3>4. <<>> \in H
      BY <3>3, GoodEmpty
    <3> HIDE DEF H
    <3>5. G \cup {<<>>} \subseteq H
      BY <1>4, <3>3, <3>4
    <3>6. QED
      BY <1>1, <3>1, <3>3, <3>5, MemGrows
  <2>5. QED
    BY <2>3, <2>4
<1> HIDE DEF G, H, l
<1>10. CASE Scan \/ NextIteration \/ Reread \/ ReadAgain
  <2>1. \E o \in GetState(memory) : Remember(o.mem)
    BY <1>10 DEF Scan, NextIteration, Reread, ReadAgain
  <2>2. QED
    BY <1>5, <1>7, <2>1
<1>11. CASE Prune
  <2>1. PICK i \in Prunable : \E o \in UpdateTask(memory, view[i].id, "COMPLETE") : Remember(o.mem)
    BY <1>11 DEF Prune
  <2>2. i \in DOMAIN view /\ view[i].what \in Unregistered
    BY DEF Prunable
  <2>3. N[view[i].id] \in Taken'
    BY <1>2, <1>8, <2>2 DEF Taken
  <2>4. QED
    BY <1>5, <1>7, <2>1, <2>3 DEF Status
<1>12. CASE CompleteOrphan
  <2> DEFINE t == First(view, "IN_PROGRESS")
  <2>1. t # NoTask /\ \E o \in UpdateTask(memory, t.id, "COMPLETE") : Remember(o.mem)
    BY <1>12 DEF CompleteOrphan
  <2>2. N[t.id] \in Taken
    BY <2>1, GoodFirst DEF Follows
  <2> HIDE DEF t
  <2>3. QED
    BY <1>2, <1>5, <1>7, <2>1, <2>2 DEF Status
<1>13. CASE PassOver \/ TakeTask
  <2> DEFINE t == First(view, "PENDING")
  <2>1. t # NoTask
    BY <1>13 DEF PassOver, TakeTask
  <2>2. PICK i \in DOMAIN view : t = view[i]
    BY <1>8, <2>1, FirstOne
  <2>3. N[t.id] = t.what
    BY <1>8, <2>2
  <2>4. t.what \in Taken'
    BY <1>13 DEF PassOver, TakeTask, Taken, Holding
  <2>5. \E st \in Status : \E o \in UpdateTask(memory, t.id, st) : Remember(o.mem)
    BY <1>13 DEF PassOver, TakeTask, Status
  <2> HIDE DEF t
  <2>6. QED
    BY <1>5, <1>7, <2>3, <2>4, <2>5
<1>14. CASE Pruned \/ CeilingReached \/ Reflect \/ UNCHANGED loopVars
  BY <1>6, <1>14 DEF Pruned, CeilingReached, Reflect, Forget, loopVars
<1>15. CASE Prepare
  <2>1. Forget \/ \E m \in {o.mem : o \in GetState(memory)} \cup SavedAgain(memory) : Remember(m)
    BY <1>15 DEF Prepare
  <2>2. QED
    BY <1>5, <1>6, <1>7, <2>1
<1>16. CASE RunTool
  <2>1. Forget \/ \E n \in Unlogged(memory) : Remember(n)
    BY <1>16 DEF RunTool
  <2>2. \A n \in Unlogged(memory) : n \in Mem(G, l)
    BY <1>1, <1>3, UnloggedMem
  <2>3. QED
    BY <1>5, <1>6, <2>1, <2>2
<1>17. CASE Ground
  <2>1. \E m \in SavedAgain(memory) : Remember(m)
    BY <1>17 DEF Ground
  <2>2. QED
    BY <1>5, <1>7, <2>1
<1>18. CASE Complete
  <2>1. PICK o \in UpdateTask(memory, current.id, "COMPLETE") :
          \E m \in (IF o.got = Broken THEN CompleteAny(o.mem) ELSE {o.mem}) : Remember(m)
    BY <1>18 DEF Complete
  <2>2. N[current.id] \in Taken
    BY <1>18 DEF Complete, Follows, Holding, Taken
  <2>3. o.mem \in Mem(G, l)
    BY <1>2, <1>7, <2>1, <2>2 DEF Status
  <2>4. QED
    BY <1>5, <1>7, <2>1, <2>3
<1>19. ~WritePlan /\ ~CutOff
  BY DEF WritePlan, CutOff, Idle
<1>20. QED
  BY <1>9, <1>10, <1>11, <1>12, <1>13, <1>14, <1>15, <1>16, <1>17, <1>18, <1>19 DEF LoopNext, AgentStep

LEMMA ExcusesStay ==
  ASSUME LoopInv, PlanInv, [LoopNext]_loopVars, step \notin Idle, step' \notin Idle, ~Inject,
         NEW N \in [1 .. made -> Tasks], Follows(N)
  PROVE  /\ refounded => refounded'
         /\ memory.losses > 0 => memory'.losses > 0
         /\ iteration' = iteration => Shown' \subseteq Shown
         /\ Shown' \subseteq Owed
<1>1. refounded => refounded'
  <2>1. \A m : Remember(m) => (refounded => refounded')
    BY DEF Remember, LoopInv, MemPart
  <2>2. Forget => (refounded => refounded')
    BY DEF Forget
  <2>3. (\E m : Remember(m)) \/ Forget
    BY DEF LoopNext, AgentStep, WritePlan, PublishSnapshot, Scan, Prune, Pruned, NextIteration, CeilingReached,
       CompleteOrphan, Reread, PassOver, TakeTask, Reflect, Prepare, RunTool, Ground, ReadAgain, Complete, Save,
       CutOff, loopVars, Forget
  <2>4. QED
    BY <2>1, <2>2, <2>3
<1>2. memory'.losses \in memory.losses .. MaxAuditFaults
  BY MemKept DEF Mem
<1>3. memory.losses \in Nat
  BY DEF LoopInv, MemPart, Mem
<1>4. memory.losses > 0 => memory'.losses > 0
  BY <1>2, <1>3, LoopAssumption DEF LoopAssumption
<1>5. QED
  BY <1>1, <1>4 DEF Shown, Owed

LEMMA ViewKept ==
  ASSUME LoopInv, PlanInv, [LoopNext]_loopVars, step \notin Idle, step' \notin Idle, ~Inject,
         NEW N \in [1 .. made -> Tasks], Follows(N)
  PROVE  view' \in Good(N, made, Taken', Shown')
<1> DEFINE G == Good(N, made, Taken', Owed)
           V == Good(N, made, Taken', Shown)
           W == Good(N, made, Taken', Shown')
<1> SUFFICES view' \in W
  OBVIOUS
<1>1. made \in Nat /\ memory.losses \in Nat
  BY DEF LoopInv, MemPart, ControlPart, Mem
<1>2. Taken \subseteq Taken'
  BY TakenGrows
<1>3. view \in V
  <2>1. Good(N, made, Taken, Shown) \subseteq V
    BY <1>1, <1>2, GoodGrows
  <2>2. QED
    BY <2>1 DEF Follows
<1>4. G \subseteq W
  BY <1>1, ExcusesStay, GoodGrows
<1>5. iteration' = iteration => V \subseteq W
  BY <1>1, ExcusesStay, GoodGrows
<1>6. Shown' = {} => V \subseteq W
  BY <1>1, GoodGrows
<1>7. ASSUME NEW o \in GetState(memory)
      PROVE  (o.got # Broken => o.got \in G) /\ (o.got = Broken => o.mem.losses > 0)
  <2>1. memory \in Mem(Good(N, made, Taken, Owed), memory.losses)
    BY DEF Follows
  <2>2. Good(N, made, Taken, Owed) \subseteq G
    BY <1>1, <1>2, GoodGrows
  <2>3. memory \in Mem(G, memory.losses)
    BY <1>1, <2>1, <2>2, MemGrows
  <2>4. o.got \in G \cup {Nothing} /\ (o.got = Broken => o.mem.losses > 0)
    BY <1>1, <2>3, GoodAccess
  <2>5. QED
    BY <2>4 DEF Broken
<1> HIDE DEF G, W
<1>8. CASE Prune
  <2>1. PICK i \in Prunable : view' = [view EXCEPT ![i].status = "COMPLETE"]
    BY <1>8 DEF Prune
  <2>2. i \in DOMAIN view /\ view[i].what \in Taken' /\ view' = MarkedAt(view, i, "COMPLETE")
    BY <1>2, <2>1 DEF Prunable, Taken, MarkedAt
  <2>3. view' \in V
    BY <1>3, <2>2, GoodMarked DEF Status
  <2>4. QED
    BY <1>5, <1>8, <2>3 DEF Prune
<1>9. CASE CompleteOrphan
  <2> DEFINE t == First(view, "IN_PROGRESS")
  <2>1. t # NoTask /\ view' = Mark(view, t.id, "COMPLETE") /\ iteration' = iteration
    BY <1>9 DEF CompleteOrphan
  <2>2. N[t.id] \in Taken' /\ Places(view, t.id) # {}
    BY <1>3, <2>1, GoodFirst
  <2>3. Marks(V, t.id, "COMPLETE")
    BY <2>2, GoodMarks DEF Status
  <2> HIDE DEF t, V
  <2>4. QED
    BY <1>3, <1>5, <2>1, <2>2, <2>3 DEF Marks
<1> HIDE DEF V
<1>10. CASE NextIteration
  <2>1. PICK o \in GetState(memory) : /\ memory' = o.mem
                                      /\ o.got = Broken => view' = view
                                      /\ o.got # Broken => view' = o.got
    BY <1>10 DEF NextIteration, Remember
  <2>2. CASE o.got # Broken
    BY <1>4, <1>7, <2>1, <2>2
  <2>3. CASE o.got = Broken
    <3>1. memory'.losses > 0
      BY <1>7, <2>1, <2>3
    <3>2. Shown' = {}
      BY <3>1 DEF Shown
    <3>3. QED
      BY <1>3, <1>6, <2>1, <2>3, <3>2
  <2>4. QED
    BY <2>2, <2>3
<1>11. CASE Scan \/ Reread \/ ReadAgain
  <2>1. iteration' = iteration /\ \E o \in GetState(memory) : view' = view \/ (o.got # Broken /\ view' = o.got)
    BY <1>11 DEF Scan, Reread, ReadAgain
  <2>2. QED
    BY <1>3, <1>4, <1>5, <1>7, <2>1
<1>12. CASE ~(Prune \/ CompleteOrphan \/ NextIteration \/ Scan \/ Reread \/ ReadAgain)
  <2>1. view' = view /\ iteration' = iteration
    BY <1>12 DEF LoopNext, AgentStep, WritePlan, PublishSnapshot, Pruned, CeilingReached, PassOver, TakeTask, Reflect,
       Prepare, RunTool, Ground, Complete, Save, CutOff, loopVars
  <2>2. QED
    BY <1>3, <1>5, <2>1
<1>13. QED
  BY <1>8, <1>9, <1>10, <1>11, <1>12

LEMMA CurrentKept ==
  ASSUME LoopInv, PlanInv, [LoopNext]_loopVars, step \notin Idle, step' \notin Idle, ~Inject,
         NEW N \in [1 .. made -> Tasks], Follows(N), step' \in Holding
  PROVE  current'.id \in 1 .. made /\ current'.what = N[current'.id]
<1>1. CASE TakeTask
  <2>1. view \in Seq(Task) /\ current' = First(view, "PENDING") /\ current' # NoTask
    BY <1>1 DEF TakeTask, LoopInv, ControlPart
  <2>2. PICK i \in DOMAIN view : current' = view[i]
    BY <2>1, FirstOne
  <2>3. QED
    BY <2>2 DEF Follows, Good
<1>2. CASE ~TakeTask
  <2>1. current' = current /\ step \in Holding
    BY <1>2 DEF LoopNext, AgentStep, WritePlan, PublishSnapshot, Scan, Prune, Pruned, NextIteration, CeilingReached,
       CompleteOrphan, Reread, PassOver, Reflect, Prepare, RunTool, Ground, ReadAgain, Complete, Save, CutOff,
       loopVars, Holding, Idle
  <2>2. QED
    BY <2>1 DEF Follows
<1>3. QED
  BY <1>1, <1>2

LEMMA StepFollows ==
  ASSUME LoopInv, PlanInv, [LoopNext]_loopVars, step \notin Idle, step' \notin Idle, ~Inject,
         NEW N \in [1 .. made -> Tasks], Follows(N)
  PROVE  \E M \in [1 .. made' -> Tasks] : Follows(M)'
<1>1. made' = made
  BY DEF LoopNext, AgentStep, WritePlan, PublishSnapshot, Scan, Prune, Pruned, NextIteration, CeilingReached,
     CompleteOrphan, Reread, PassOver, TakeTask, Reflect, Prepare, RunTool, Ground, ReadAgain, Complete, Save,
     CutOff, loopVars, Idle
<1>2. memory' \in Mem(Good(N, made', Taken', Owed'), memory'.losses)
  <2> DEFINE H == Good(N, made, Taken', Owed')
  <2>1. memory' \in Mem(H, memory.losses)
    BY MemKept
  <2> HIDE DEF H
  <2>2. memory' \in Mem(H, memory'.losses)
    BY <2>1, LoopAssumption DEF Mem, LoopInv, MemPart, LoopAssumption
  <2>3. QED
    BY <1>1, <2>2 DEF H
<1>3. view' \in Good(N, made', Taken', Shown')
  BY <1>1, ViewKept
<1>4. step' \in Holding => current'.id \in 1 .. made' /\ current'.what = N[current'.id]
  BY <1>1, CurrentKept
<1>5. Follows(N)'
  BY <1>2, <1>3, <1>4 DEF Follows
<1>6. QED
  BY <1>1, <1>5

(* A task that is added gets the next identifier. *)
LEMMA InjectFollows ==
  ASSUME LoopInv, PlanInv, Inject, step' \notin Idle, NEW N \in [1 .. made -> Tasks], Follows(N)
  PROVE  \E M \in [1 .. made' -> Tasks] : Follows(M)'
<1> DEFINE k == made + 1
           t == Head(wanted)
           l == memory.losses
<1>1. made \in Nat /\ k \in Nat /\ k > 0 /\ made <= k /\ l \in Nat /\ t \in Tasks
  BY DEF LoopInv, MemPart, ControlPart, Mem, Inject
<1>2. Taken \subseteq Taken'
  BY TakenGrows DEF LoopNext, AgentStep
<1>3. PICK M \in [1 .. k -> Tasks] : M[k] = t /\ \A i \in 1 .. made : M[i] = N[i]
  <2> DEFINE F == [i \in 1 .. k |-> IF i = k THEN t ELSE N[i]]
  <2>1. F \in [1 .. k -> Tasks] /\ F[k] = t /\ \A i \in 1 .. made : F[i] = N[i]
    BY <1>1
  <2> HIDE DEF F
  <2>2. QED
    BY <2>1
<1> DEFINE G == Good(M, k, Taken', Owed)
<1>4. made' = k /\ step' = step /\ view' = view /\ iteration' = iteration /\ current' = current
  BY DEF Inject
<1> HIDE DEF k
<1>5. memory \in Mem(G, l)
  <2>1. Good(N, made, Taken, Owed) \subseteq G
    BY <1>1, <1>2, <1>3, GoodGrows
  <2> HIDE DEF G
  <2>2. memory \in Mem(Good(N, made, Taken, Owed), l)
    BY DEF Follows
  <2>3. QED
    BY <1>1, <2>1, <2>2, MemGrows
<1>6. \A o \in GetState(memory) : o.mem \in Mem(G, l)
  BY <1>1, <1>5, GoodAccess
<1>7. G \in SUBSET Seq(Task) /\ \A x \in G : Append(x, New(k, t)) \in G
  <2>1. \A x \in G : Append(x, New(k, t)) \in G
    BY <1>1, <1>3, GoodAppended
  <2>2. G \in SUBSET Seq(Task)
    BY DEF Good
  <2>3. QED
    BY <2>1, <2>2
<1>8. PICK m \in Mem(G, l) : Remember(m)
  <2> HIDE DEF G
  <2>1. PICK o \in GetState(memory) :
          IF o.got = Broken \/ t \in Named(o.got) \cup recorded THEN Remember(o.mem)
          ELSE \E c \in CreateTask(o.mem, New(k, t)) : Remember(c.mem)
    BY DEF Inject, k
  <2>2. CASE Remember(o.mem)
    BY <1>6, <2>1, <2>2
  <2>3. ASSUME NEW c \in CreateTask(o.mem, New(k, t)), Remember(c.mem) PROVE \E m \in Mem(G, l) : Remember(m)
    <3>1. c \in Out(G, l)
      BY <1>1, <1>6, <1>7, <2>1, <2>3, CreateTaskOut
    <3>2. c.mem \in Mem(G, l)
      BY <3>1 DEF Out
    <3>3. QED
      BY <2>3, <3>2
  <2>4. QED
    BY <2>1, <2>2, <2>3
<1>9. Owed' \subseteq Owed /\ memory' = m
  BY <1>8, OwedShrinks
<1>10. memory' \in Mem(Good(M, made', Taken', Owed'), memory'.losses)
  <2>1. G \subseteq Good(M, k, Taken', Owed')
    BY <1>1, <1>9, GoodGrows
  <2> HIDE DEF G
  <2>2. m \in Mem(G, m.losses)
    BY <1>1, <1>8, LoopAssumption DEF Mem, LoopAssumption
  <2>3. m.losses \in Nat
    BY <1>1, <1>8, LoopAssumption DEF Mem, LoopAssumption
  <2>4. m \in Mem(Good(M, k, Taken', Owed'), m.losses)
    BY <2>1, <2>2, <2>3, MemGrows
  <2>5. QED
    BY <1>4, <1>9, <2>4
<1>11. view' \in Good(M, made', Taken', Shown')
  <2>1. memory.losses > 0 => memory'.losses > 0
    BY <1>1, <1>8, <1>9, LoopAssumption DEF Mem, LoopAssumption
  <2>2. Shown' \subseteq Shown
    BY <1>4, <1>8, <2>1 DEF Shown, Remember, LoopInv, MemPart
  <2>3. Good(N, made, Taken, Shown) \subseteq Good(M, k, Taken', Shown')
    BY <1>1, <1>2, <1>3, <2>2, GoodGrows
  <2>4. QED
    BY <1>4, <2>3 DEF Follows
<1>12. step' \in Holding => current'.id \in 1 .. made' /\ current'.what = M[current'.id]
  BY <1>1, <1>3, <1>4 DEF Follows
<1>13. Follows(M)'
  BY <1>10, <1>11, <1>12 DEF Follows
<1>14. QED
  BY <1>3, <1>4, <1>13

LEMMA PlanFollows ==
  ASSUME LoopInv, PlanInv, WritePlan, step' \notin Idle
  PROVE  \E M \in [1 .. made' -> Tasks] : Follows(M)'
<1> DEFINE s == [i \in DOMAIN Plan |-> New(i, Plan[i])]
           k == [memory EXCEPT !.copy = s]
           l == memory.losses
           G == Good(Plan, Len(Plan), Taken', ToSet(Plan))
           O == {Outcome([k EXCEPT !.redis = s], s)} \cup UNION {{Outcome(n, s), Outcome([n EXCEPT !.redis = s], s)} : n \in Down(k)}
<1>0. memory \in Mem(Lists, 0)
  BY DEF LoopInv, MemPart
<1>1. memory.redis = Nothing /\ view = <<>> /\ iteration = 0 /\ l \in Nat
  <2>1. memory.losses \in Nat
    BY <1>0 DEF Mem
  <2>2. step = "plan"
    BY DEF WritePlan
  <2>3. QED
    BY <2>1, <2>2 DEF PlanInv
<1>2. s \in G /\ Plan \in [1 .. Len(Plan) -> Tasks] /\ Len(Plan) \in Nat
  BY GoodPlan
<1>3. G \in SUBSET Seq(Task)
  BY DEF Good
<1> HIDE DEF s, G
<1>4. k \in Mem(G, l) /\ [k EXCEPT !.redis = s] \in Mem(G, l)
  <2>1. memory = [redis |-> Nothing, copy |-> memory.copy, outages |-> memory.outages, losses |-> l]
        /\ memory.outages \in 0 .. MaxOutages /\ l \in l .. MaxAuditFaults
    BY <1>0, <1>1, LoopAssumption DEF Mem, LoopAssumption
  <2>2. k = [redis |-> Nothing, copy |-> s, outages |-> memory.outages, losses |-> l]
    BY <2>1
  <2>3. k \in Mem(G, l)
    BY <1>2, <2>1, <2>2 DEF Mem
  <2> HIDE DEF k
  <2>4. QED
    BY <1>2, <2>3, MemParts
<1> HIDE DEF k
<1>5. ASSUME NEW n \in Down(k) PROVE Outcome(n, s) \in Out(G, l) /\ Outcome([n EXCEPT !.redis = s], s) \in Out(G, l)
  <2>1. n \in Mem(G, l)
    BY <1>1, <1>4, <1>5, DownMem
  <2>2. [n EXCEPT !.redis = s] \in Mem(G, l)
    BY <1>2, <2>1, MemParts
  <2>3. QED
    BY <1>2, <2>1, <2>2, OutIs
<1>6. Outcome([k EXCEPT !.redis = s], s) \in Out(G, l)
  BY <1>2, <1>4, OutIs
<1>7. O \in SUBSET Out(G, l)
  BY <1>5, <1>6
<1>8. PICK o \in Audited(O) : Remember(o.mem)
  BY DEF WritePlan, k, s
<1> HIDE DEF O
<1>9. o.mem \in Mem(G, l)
  BY <1>1, <1>7, <1>8, AuditedOut DEF Out
<1>10. memory' = o.mem /\ Owed' \subseteq ToSet(Plan)
  BY <1>8 DEF Remember, Owed
<1>11. memory' \in Mem(Good(Plan, Len(Plan), Taken', Owed'), memory'.losses)
  <2>1. G \subseteq Good(Plan, Len(Plan), Taken', Owed')
    BY <1>2, <1>10, GoodGrows DEF G
  <2>2. o.mem \in Mem(G, o.mem.losses) /\ o.mem.losses \in Nat
    BY <1>1, <1>9, LoopAssumption DEF Mem, LoopAssumption
  <2>3. o.mem \in Mem(Good(Plan, Len(Plan), Taken', Owed'), o.mem.losses)
    BY <2>1, <2>2, MemGrows
  <2>4. QED
    BY <1>10, <2>3
<1>12. view' \in Good(Plan, Len(Plan), Taken', Shown')
  <2>1. view' = <<>> /\ iteration' = 0
    BY <1>1 DEF WritePlan
  <2>2. Shown' = {}
    BY <2>1 DEF Shown
  <2>3. QED
    BY <2>1, <2>2, GoodEmpty
<1>13. made' = Len(Plan) /\ step' \notin Holding
  BY DEF WritePlan, Holding
<1>14. Follows(Plan)'
  BY <1>11, <1>12, <1>13 DEF Follows
<1>15. QED
  BY <1>2, <1>13, <1>14

LEMMA PlanInvStep == LoopInv /\ PlanInv /\ [LoopNext]_loopVars => PlanInv'
<1> SUFFICES ASSUME LoopInv, PlanInv, [LoopNext]_loopVars PROVE PlanInv'
  OBVIOUS
<1>1. step' = "plan" => memory'.redis = Nothing /\ view' = <<>> /\ iteration' = 0
  <2>1. step' = "plan" => UNCHANGED loopVars
    BY DEF LoopNext, AgentStep, WritePlan, PublishSnapshot, Scan, Prune, Pruned, NextIteration, CeilingReached,
       CompleteOrphan, Reread, PassOver, TakeTask, Reflect, Prepare, RunTool, Ground, Inject, ReadAgain, Complete,
       Save, CutOff
  <2>2. QED
    BY <2>1 DEF PlanInv, loopVars
<1>2. ASSUME step' \notin Idle PROVE \E M \in [1 .. made' -> Tasks] : Follows(M)'
  <2>1. CASE step \in Idle
    <3>1. WritePlan
      BY <1>2, <2>1 DEF LoopNext, AgentStep, WritePlan, PublishSnapshot, Scan, Prune, Pruned, NextIteration,
         CeilingReached, CompleteOrphan, Reread, PassOver, TakeTask, Reflect, Prepare, RunTool, Ground, Inject,
         ReadAgain, Complete, Save, CutOff, loopVars, Idle
    <3>2. QED
      BY <1>2, <3>1, PlanFollows
  <2>2. CASE step \notin Idle
    <3>1. PICK N \in [1 .. made -> Tasks] : Follows(N)
      BY <2>2 DEF PlanInv
    <3>2. QED
      BY <1>2, <2>2, <3>1, InjectFollows, StepFollows
  <2>3. QED
    BY <2>1, <2>2
<1>3. step' \in {"ground", "react"} => current'.what \in findings'
  <2>1. CASE RunTool
    BY <2>1 DEF RunTool
  <2>2. CASE ~RunTool
    <3>1. step' \in {"ground", "react"} => step \in {"ground", "react"} /\ current' = current /\ findings' = findings
      BY <2>2 DEF LoopNext, AgentStep, WritePlan, PublishSnapshot, Scan, Prune, Pruned, NextIteration, CeilingReached,
         CompleteOrphan, Reread, PassOver, TakeTask, Reflect, Prepare, Ground, Inject, ReadAgain, Complete,
         Save, CutOff, loopVars
    <3>2. QED
      BY <3>1 DEF PlanInv
  <2>3. QED
    BY <2>1, <2>2
<1>4. ASSUME step' = "returned", iteration' < Ceiling, memory'.losses = 0
      PROVE  iteration' > 0 /\ \A i \in DOMAIN view' : view'[i].status # "PENDING"
  <2>1. CASE UNCHANGED loopVars
    BY <1>4, <2>1 DEF PlanInv, loopVars
  <2>2. memory \in Mem(Lists, 0) /\ Lists \in SUBSET Seq(Task)
    BY DEF LoopInv, MemPart, Lists
  <2>3. ~ NextIteration /\ ~ ReadAgain
    <3>1. ASSUME NEW o \in GetState(memory), Remember(o.mem), o.got = Broken PROVE FALSE
      <4>1. o.mem.losses > 0
        BY <2>2, <3>1, GetStateOut
      <4>2. QED
        BY <1>4, <3>1, <4>1 DEF Remember
    <3>2. ASSUME NextIteration \/ ReadAgain PROVE \E o \in GetState(memory) : Remember(o.mem) /\ o.got = Broken
      BY <1>4, <3>2 DEF NextIteration, ReadAgain
    <3>3. QED
      BY <3>1, <3>2
  <2>4. CASE CeilingReached
    BY <1>4, <2>4, LoopAssumption DEF CeilingReached, LoopAssumption
  <2>5. CASE Reflect
    <3>1. step = "choose" /\ First(view, "PENDING") = NoTask /\ view' = view /\ iteration' = iteration
      BY <2>5 DEF Reflect
    <3>2. view \in Seq(Task) /\ iteration \in Nat /\ runsOf \in [Tasks -> 0 .. Ceiling]
      BY LoopAssumption DEF LoopInv, ControlPart, LoopAssumption
    <3>3. \A i \in DOMAIN view : view[i].status # "PENDING"
      BY <3>1, <3>2, FirstOne
    <3>4. PICK t \in Tasks : TRUE
      <4>1. Plan \in Seq(Tasks) /\ Plan # <<>>
        BY LoopAssumption DEF LoopAssumption
      <4>2. Plan[1] \in Tasks
        BY <4>1
      <4>3. QED
        BY <4>2
    <3>5. runsOf[t] < iteration /\ runsOf[t] \in Nat
      BY <3>1, <3>2, LoopAssumption DEF LoopInv, ControlPart, RunBound, BeforeRun, LoopAssumption
    <3>6. iteration > 0
      BY <3>2, <3>5
    <3>7. QED
      BY <3>1, <3>3, <3>6
  <2>6. QED
    BY <1>4, <2>1, <2>3, <2>4, <2>5 DEF LoopNext, AgentStep, WritePlan, PublishSnapshot, Scan, Prune, Pruned,
       CompleteOrphan, Reread, PassOver, TakeTask, Prepare, RunTool, Ground, Inject, Complete, Save, CutOff
<1>5. QED
  BY <1>1, <1>2, <1>3, <1>4 DEF PlanInv

LEMMA PlanInvSuffices == LoopInv /\ PlanInv => PlanCarriedOut
<1> SUFFICES ASSUME LoopInv, PlanInv, step = "returned", iteration < Ceiling, memory.losses = 0, ~refounded
             PROVE  ToSet(Plan) \cup Named(view) \subseteq findings \cup LeftToOthers \cup Unregistered
  BY DEF PlanCarriedOut
<1>1. iteration > 0 /\ \A i \in DOMAIN view : view[i].status # "PENDING"
  BY DEF PlanInv
<1>2. PICK N \in [1 .. made -> Tasks] : Follows(N)
  BY DEF PlanInv, Idle
<1>3. Shown = ToSet(Plan)
  BY <1>1 DEF Shown
<1>4. Taken = findings \cup LeftToOthers \cup Unregistered
  BY DEF Taken, Holding
<1>5. ToSet(Plan) \subseteq Named(view)
  BY <1>2, <1>3 DEF Follows, Good
<1>6. \A i \in DOMAIN view : view[i].what \in Taken
  BY <1>1, <1>2 DEF Follows, Good
<1>7. Named(view) \subseteq Taken
  BY <1>6 DEF Named
<1>8. QED
  BY <1>4, <1>5, <1>7

(* However the accesses to the working memory fail, a loop that returns    *)
(* before its ceiling has a finding for every task of the plan and every   *)
(* task it was asked to add that it saw, but for those that others do or   *)
(* that have no tool: unless a log entry failed, or Redis lost the record  *)
(* and it was made anew without the plan.             *)
THEOREM LoopCarriesOutPlan == LoopSpec => []PlanCarriedOut
<1>1. LoopInit => LoopInv /\ PlanInv
  BY LoopInvInit, PlanInvInit
<1>2. LoopInv /\ PlanInv /\ [LoopNext]_loopVars => LoopInv' /\ PlanInv'
  BY LoopInvStep, PlanInvStep
<1>3. LoopInv /\ PlanInv => PlanCarriedOut
  BY PlanInvSuffices
<1>4. QED
  BY <1>1, <1>2, <1>3, PTL DEF LoopSpec
-----------------------------------------------------------------------------
(* Runs that are repeated.  What an access costs: the failed commands and  *)
(* log entries that its outcome took.  A record that Redis has stays.      *)
Faults(m) == m.outages + m.losses
Base(m) == IF m.redis = Nothing THEN m.copy ELSE m.redis
After(m, n, k) ==
  n \in Mem(Lists, 0) /\ Faults(n) >= Faults(m) + k /\ (m.redis # Nothing => n.redis # Nothing)
Same(m, n) == n.redis = m.redis /\ n.copy = m.copy

LEMMA FaultsType == \A m \in Mem(Lists, 0) : Faults(m) \in Nat /\ Base(m) \in Lists /\ Base(m) # Nothing
                      /\ m.copy \in Lists /\ m.redis \in Lists \cup {Nothing}
<1>1. ASSUME NEW m \in Mem(Lists, 0) PROVE Faults(m) \in Nat
  BY LoopAssumption DEF Faults, Mem, LoopAssumption
<1>2. Nothing \notin Lists
  BY LoopAssumption DEF Lists, LoopAssumption
<1>3. ASSUME NEW m \in Mem(Lists, 0) PROVE m.copy \in Lists /\ m.redis \in Lists \cup {Nothing} /\ Base(m) \in Lists
  BY DEF Mem, Base
<1>4. QED
  BY <1>1, <1>2, <1>3

LEMMA AfterSelf ==
  ASSUME NEW m \in Mem(Lists, 0)
  PROVE  After(m, m, 0)
BY FaultsType DEF After

LEMMA AfterBoth ==
  ASSUME NEW m \in Mem(Lists, 0), NEW n, NEW p, NEW j \in Nat, NEW k \in Nat, NEW i \in Nat,
         After(m, n, j), After(n, p, k), i <= j + k
  PROVE  After(m, p, i)
<1>1. n \in Mem(Lists, 0) /\ p \in Mem(Lists, 0)
  BY DEF After
<1>2. Faults(m) \in Nat /\ Faults(n) \in Nat /\ Faults(p) \in Nat
  BY <1>1, FaultsType
<1>3. Faults(n) >= Faults(m) + j /\ Faults(p) >= Faults(n) + k
  BY DEF After
<1>4. Faults(p) >= Faults(m) + i
  BY <1>2, <1>3
<1>5. QED
  BY <1>1, <1>4 DEF After

LEMMA AfterLess ==
  ASSUME NEW m \in Mem(Lists, 0), NEW n, NEW j \in Nat, NEW i \in Nat, After(m, n, j), i <= j
  PROVE  After(m, n, i)
<1>1. n \in Mem(Lists, 0)
  BY DEF After
<1>2. Faults(m) \in Nat /\ Faults(n) \in Nat /\ Faults(n) >= Faults(m) + j
  BY <1>1, FaultsType DEF After
<1>3. Faults(n) >= Faults(m) + i
  BY <1>2
<1>4. QED
  BY <1>1, <1>3 DEF After

LEMMA AfterSteps ==
  ASSUME NEW m \in Mem(Lists, 0)
  PROVE  /\ \A n : After(m, n, 1) => After(m, n, 0)
         /\ \A n : After(m, n, 2) => After(m, n, 1) /\ After(m, n, 0)
         /\ \A n : After(m, n, 3) => After(m, n, 2) /\ After(m, n, 0)
         /\ \A n, p : After(m, n, 0) /\ After(n, p, 0) => After(m, p, 0)
         /\ \A n, p : After(m, n, 0) /\ After(n, p, 1) => After(m, p, 1)
         /\ \A n, p : After(m, n, 0) /\ After(n, p, 2) => After(m, p, 2)
         /\ \A n, p : After(m, n, 1) /\ After(n, p, 0) => After(m, p, 1)
         /\ \A n, p : After(m, n, 1) /\ After(n, p, 1) => After(m, p, 2)
         /\ \A n, p : After(m, n, 1) /\ After(n, p, 2) => After(m, p, 3)
         /\ \A n, p : After(m, n, 2) /\ After(n, p, 0) => After(m, p, 2)
         /\ \A n, p : After(m, n, 2) /\ After(n, p, 1) => After(m, p, 3)
<1>1. 0 \in Nat /\ 1 \in Nat /\ 2 \in Nat /\ 3 \in Nat /\ 0 <= 1 /\ 1 <= 2 /\ 0 <= 2 /\ 2 <= 3 /\ 0 <= 3
  OBVIOUS
<1>2. /\ \A n : After(m, n, 1) => After(m, n, 0)
      /\ \A n : After(m, n, 2) => After(m, n, 1) /\ After(m, n, 0)
      /\ \A n : After(m, n, 3) => After(m, n, 2) /\ After(m, n, 0)
  BY <1>1, AfterLess
<1>3. ASSUME NEW n, NEW p, NEW j \in Nat, NEW k \in Nat, After(m, n, j), After(n, p, k) PROVE After(m, p, j + k)
  BY <1>3, AfterBoth
<1>4. 0 + 0 = 0 /\ 0 + 1 = 1 /\ 0 + 2 = 2 /\ 1 + 0 = 1 /\ 1 + 1 = 2 /\ 1 + 2 = 3 /\ 2 + 0 = 2 /\ 2 + 1 = 3
  OBVIOUS
<1>5. QED
  BY <1>1, <1>2, <1>3, <1>4

(* The record is set: no fault, and Redis has it. *)
LEMMA AfterSet ==
  ASSUME NEW m \in Mem(Lists, 0), NEW s \in Lists
  PROVE  /\ After(m, [m EXCEPT !.copy = s], 0) /\ [m EXCEPT !.copy = s].redis = m.redis /\ [m EXCEPT !.copy = s].copy = s
         /\ After(m, [m EXCEPT !.redis = s], 0) /\ [m EXCEPT !.redis = s].redis = s /\ [m EXCEPT !.redis = s].copy = m.copy
         /\ After(m, [m EXCEPT !.redis = s, !.copy = s], 0) /\ [m EXCEPT !.redis = s, !.copy = s].redis = s
         /\ [m EXCEPT !.redis = s, !.copy = s].copy = s
<1> DEFINE a == [m EXCEPT !.copy = s]
           b == [m EXCEPT !.redis = s]
           c == [m EXCEPT !.redis = s, !.copy = s]
<1>1. a \in Mem(Lists, 0) /\ b \in Mem(Lists, 0) /\ c \in Mem(Lists, 0)
  BY MemParts
<1>2. a.redis = m.redis /\ a.copy = s /\ b.redis = s /\ b.copy = m.copy /\ c.redis = s /\ c.copy = s
  BY DEF Mem
<1>3. Faults(a) = Faults(m) /\ Faults(b) = Faults(m) /\ Faults(c) = Faults(m)
  BY DEF Mem, Faults
<1>4. s # Nothing
  BY LoopAssumption DEF Lists, LoopAssumption
<1>5. Faults(m) \in Nat
  BY FaultsType
<1> HIDE DEF a, b, c
<1>6. After(m, a, 0) /\ After(m, b, 0) /\ After(m, c, 0)
  BY <1>1, <1>2, <1>3, <1>4, <1>5 DEF After
<1>7. QED
  BY <1>2, <1>6 DEF a, b, c

LEMMA DownCosts ==
  ASSUME NEW m \in Mem(Lists, 0), NEW n \in Down(m) \cup Unlogged(m)
  PROVE  After(m, n, 1) /\ Same(m, n)
<1>1. n \in Mem(Lists, 0)
  BY ListsKept, DownMem, UnloggedMem
<1>2. n = [m EXCEPT !.outages = m.outages + 1] \/ n = [m EXCEPT !.losses = m.losses + 1]
  BY DEF Down, Unlogged
<1>3. m = [redis |-> m.redis, copy |-> m.copy, outages |-> m.outages, losses |-> m.losses]
      /\ m.outages \in Nat /\ m.losses \in Nat
  BY LoopAssumption DEF Mem, LoopAssumption
<1>4. Same(m, n) /\ Faults(n) = Faults(m) + 1
  <2>1. CASE n = [m EXCEPT !.outages = m.outages + 1]
    BY <1>3, <2>1 DEF Same, Faults
  <2>2. CASE n = [m EXCEPT !.losses = m.losses + 1]
    BY <1>3, <2>2 DEF Same, Faults
  <2>3. QED
    BY <1>2, <2>1, <2>2
<1>5. Faults(m) \in Nat
  BY FaultsType
<1>6. QED
  BY <1>1, <1>4, <1>5 DEF After, Same

(* What an access has come to, of outcomes known so far. *)
LEMMA AuditedCosts ==
  ASSUME NEW O, NEW o \in Audited(O), \A p \in O : p.mem \in Mem(Lists, 0)
  PROVE  o \in O \/ \E p \in O : o.got = Broken /\ After(p.mem, o.mem, 1) /\ Same(p.mem, o.mem)
<1>1. CASE o \notin O
  <2>1. PICK p \in O : \E n \in Unlogged(p.mem) : o = Fails(n)
    BY <1>1 DEF Audited
  <2>2. PICK n \in Unlogged(p.mem) : o = Fails(n)
    BY <2>1
  <2>3. o.mem = n /\ o.got = Broken
    BY <2>2 DEF Fails, Outcome
  <2>4. After(p.mem, n, 1) /\ Same(p.mem, n)
    BY <2>2, DownCosts
  <2>5. QED
    BY <2>3, <2>4
<1>2. QED
  BY <1>1

LEMMA GetCosts ==
  ASSUME NEW m \in Mem(Lists, 0), NEW o \in GetState(m)
  PROVE  /\ Same(m, o.mem) /\ After(m, o.mem, 0)
         /\ o.got = Base(m) \/ After(m, o.mem, 1)
         /\ o.got \in {Nothing, m.copy, m.redis} /\ o.got \in Lists \cup {Nothing}
<1> DEFINE O == {Outcome(m, Base(m))} \cup {Outcome(n, n.copy) : n \in Down(m)}
<1>1. GetState(m) = Audited(O)
  BY DEF GetState, Base
<1>2. ASSUME NEW p \in O
      PROVE  Same(m, p.mem) /\ After(m, p.mem, 0) /\ (p.got = Base(m) \/ After(m, p.mem, 1))
  <2>1. CASE p = Outcome(m, Base(m))
    <3>1. p.mem = m /\ p.got = Base(m)
      BY <2>1 DEF Outcome
    <3>2. QED
      BY <3>1, AfterSelf DEF Same
  <2>2. ASSUME NEW n \in Down(m), p = Outcome(n, n.copy) PROVE Same(m, p.mem) /\ After(m, p.mem, 1)
    <3>1. p.mem = n
      BY <2>2 DEF Outcome
    <3>2. QED
      BY <3>1, DownCosts
  <2>3. ASSUME After(m, p.mem, 1) PROVE After(m, p.mem, 0)
    BY <2>3, AfterSteps
  <2>4. QED
    BY <2>1, <2>2, <2>3
<1>3. \A p \in O : p.mem \in Mem(Lists, 0)
  BY <1>2 DEF After
<1> HIDE DEF O
<1>4. ASSUME NEW p \in O, After(p.mem, o.mem, 1), Same(p.mem, o.mem)
      PROVE  Same(m, o.mem) /\ After(m, o.mem, 1) /\ After(m, o.mem, 0)
  <2>1. Same(m, p.mem) /\ After(m, p.mem, 0)
    BY <1>2
  <2>2. After(m, o.mem, 1)
    BY <1>4, <2>1, AfterSteps
  <2>3. After(m, o.mem, 0)
    BY <2>2, AfterSteps
  <2>4. Same(m, o.mem)
    BY <1>4, <2>1 DEF Same
  <2>5. QED
    BY <2>2, <2>3, <2>4
<1>5. Same(m, o.mem) /\ After(m, o.mem, 0) /\ (o.got = Base(m) \/ After(m, o.mem, 1))
  <2>1. o \in O \/ \E p \in O : o.got = Broken /\ After(p.mem, o.mem, 1) /\ Same(p.mem, o.mem)
    BY <1>1, <1>3, AuditedCosts
  <2>2. QED
    BY <1>2, <1>4, <2>1
<1>6. o.got \in {Nothing, m.copy, m.redis} /\ o.got \in Lists \cup {Nothing}
  BY ListsKept, GetStateSame, OutTyped DEF Typed
<1>7. QED
  BY <1>5, <1>6

LEMMA SetCosts ==
  ASSUME NEW m \in Mem(Lists, 0), NEW s \in Lists, NEW o \in SetBoth(m, s)
  PROVE  /\ After(m, o.mem, 0) /\ o.mem.copy = s /\ o.mem.redis \in {m.redis, s}
         /\ \/ o.got = s /\ o.mem.redis = s
            \/ o.got = Broken /\ After(m, o.mem, 1)
<1> DEFINE k == [m EXCEPT !.copy = s]
<1>1. SetBoth(m, s) = {Outcome([k EXCEPT !.redis = s], s)}
         \cup {Fails(n) : n \in Down(k)} \cup {Fails([n EXCEPT !.redis = s]) : n \in Down(k)}
  BY DEF SetBoth
<1>2. After(m, k, 0) /\ k.redis = m.redis /\ k.copy = s /\ k \in Mem(Lists, 0)
  BY AfterSet DEF After
<1> HIDE DEF k
<1>3. CASE o = Outcome([k EXCEPT !.redis = s], s)
  <2>1. o.mem = [k EXCEPT !.redis = s] /\ o.got = s
    BY <1>3 DEF Outcome
  <2>2. /\ After(k, [k EXCEPT !.redis = s], 0)
        /\ [k EXCEPT !.redis = s].redis = s /\ [k EXCEPT !.redis = s].copy = s
    BY <1>2, AfterSet
  <2>3. After(m, [k EXCEPT !.redis = s], 0)
    BY <1>2, <2>2, AfterSteps
  <2>4. QED
    BY <2>1, <2>2, <2>3
<1>4. ASSUME NEW n \in Down(k), o = Fails(n) \/ o = Fails([n EXCEPT !.redis = s])
      PROVE  After(m, o.mem, 0) /\ o.mem.copy = s /\ o.mem.redis \in {m.redis, s} /\ o.got = Broken /\ After(m, o.mem, 1)
  <2>1. o.got = Broken /\ (o.mem = n \/ o.mem = [n EXCEPT !.redis = s])
    BY <1>4 DEF Fails, Outcome
  <2>2. After(k, n, 1) /\ n.redis = m.redis /\ n.copy = s /\ n \in Mem(Lists, 0)
    BY <1>2, DownCosts DEF Same, After
  <2>3. After(m, n, 1)
    BY <1>2, <2>2, AfterSteps
  <2>4. After(n, [n EXCEPT !.redis = s], 0) /\ [n EXCEPT !.redis = s].redis = s /\ [n EXCEPT !.redis = s].copy = s
    BY <2>2, AfterSet
  <2>5. After(m, [n EXCEPT !.redis = s], 1)
    BY <2>3, <2>4, AfterSteps
  <2>6. After(m, o.mem, 1) /\ o.mem.copy = s /\ o.mem.redis \in {m.redis, s}
    BY <2>1, <2>2, <2>3, <2>4, <2>5
  <2>7. After(m, o.mem, 0)
    BY <2>6, AfterSteps
  <2>8. QED
    BY <2>1, <2>6, <2>7
<1>5. QED
  BY <1>1, <1>3, <1>4

(* Marking twice is marking once. *)
LEMMA MarkTwice ==
  ASSUME NEW s \in Lists, NEW id, NEW st \in Status, Places(s, id) # {}
  PROVE  /\ Mark(s, id, st) \in Lists
         /\ Places(Mark(s, id, st), id) # {} /\ Mark(Mark(s, id, st), id, st) = Mark(s, id, st)
<1> DEFINE i == CHOOSE j \in Places(s, id) : \A k \in Places(s, id) : j <= k
           r == Mark(s, id, st)
<1>1. s \in Seq(Task) /\ r \in Lists
  BY ListsKept DEF Lists, Marks
<1>2. i \in Places(s, id) /\ i \in DOMAIN s
  <2>1. Places(s, id) \in SUBSET Nat
    BY <1>1 DEF Places
  <2>2. \E j \in Places(s, id) : \A k \in Places(s, id) : j <= k
    BY <2>1, Least
  <2>3. QED
    BY <2>2 DEF Places
<1>3. r = MarkedAt(s, i, st)
  BY DEF Mark, MarkedAt
<1>4. Mark(r, id, st) = MarkedAt(r, CHOOSE j \in Places(r, id) : \A k \in Places(r, id) : j <= k, st)
  BY DEF Mark, MarkedAt
<1>5. DOMAIN r = DOMAIN s /\ \A j \in DOMAIN s : r[j].id = s[j].id
  <2> HIDE DEF i
  <2>1. /\ DOMAIN MarkedAt(s, i, st) = DOMAIN s
        /\ \A j \in DOMAIN s : MarkedAt(s, i, st)[j].id = s[j].id
    BY <1>1, <1>2, MarkedEntry
  <2> HIDE DEF r
  <2>2. QED
    BY <1>3, <2>1
<1>6. r[i] \in Task /\ r[i].status = st
  <2> HIDE DEF i
  <2>1. r[i].status = st
    BY <1>1, <1>2, <1>3, MarkedEntry
  <2>2. r \in Seq(Task) /\ i \in DOMAIN r
    BY <1>1, <1>2, <1>5 DEF Lists
  <2> HIDE DEF r
  <2>3. QED
    BY <2>1, <2>2
<1>7. Places(r, id) = Places(s, id)
  BY <1>5 DEF Places
<1>8. MarkedAt(r, i, st) = r
  <2> HIDE DEF i, r
  <2>1. [r[i] EXCEPT !.status = st] = r[i]
    BY <1>6 DEF Task
  <2>2. MarkedAt(r, i, st) = [r EXCEPT ![i] = [r[i] EXCEPT !.status = st]]
    BY DEF MarkedAt
  <2>3. r \in Seq(Task)
    BY <1>1 DEF Lists
  <2>4. QED
    BY <1>2, <1>5, <2>1, <2>2, <2>3
<1>9. Mark(r, id, st) = r
  BY <1>4, <1>7, <1>8
<1> HIDE DEF i, r
<1>10. QED
  BY <1>1, <1>7, <1>9 DEF r

(* The fallback of update_task, where the memory it reads has the task. *)
LEMMA LegacyCosts ==
  ASSUME NEW m \in Mem(Lists, 0), NEW id, NEW st \in Status, NEW o \in LegacyUpdateTask(m, id, st)
  PROVE  /\ After(m, o.mem, 0) /\ o.got \in Lists \cup {Nothing}
         /\ Places(Base(m), id) # {} =>
              \/ After(m, o.mem, 1)
              \/ o.got # Broken /\ o.mem.redis = Mark(Base(m), id, st) /\ o.mem.copy = Mark(Base(m), id, st)
         /\ Places(Base(m), id) # {} /\ m.redis = Nothing =>
              \/ o.got # Broken /\ o.mem.redis = Mark(Base(m), id, st) /\ o.mem.copy = Mark(Base(m), id, st)
              \/ o.got = Broken /\ After(m, o.mem, 1) /\ Base(o.mem) \in {Base(m), Mark(Base(m), id, st)}
<1> DEFINE B == Base(m)
           s == Mark(B, id, st)
<1>1. PICK g \in GetState(m) :
        o \in (IF g.got = Broken \/ Places(g.got, id) = {} THEN {Fails(g.mem)} ELSE SetBoth(g.mem, Mark(g.got, id, st)))
  BY DEF LegacyUpdateTask
<1>2. /\ Same(m, g.mem) /\ After(m, g.mem, 0) /\ (g.got = B \/ After(m, g.mem, 1))
      /\ g.got \in {Nothing, m.copy, m.redis} /\ g.got \in Lists \cup {Nothing}
  BY GetCosts
<1>3. g.mem \in Mem(Lists, 0) /\ B \in Lists /\ B # Nothing /\ (m.redis = Nothing => B = m.copy)
  BY <1>2, FaultsType DEF After, Base
<1>4. CASE g.got = Broken \/ Places(g.got, id) = {}
  <2>1. o.mem = g.mem /\ o.got = Broken
    BY <1>1, <1>4 DEF Fails, Outcome
  <2>2. Places(B, id) # {} => After(m, o.mem, 1)
    BY <1>2, <1>3, <1>4, <2>1 DEF Broken
  <2>3. Base(o.mem) = B
    BY <1>2, <2>1 DEF Base, Same
  <2>4. QED
    BY <1>2, <2>1, <2>2, <2>3 DEF Broken
<1>5. CASE ~(g.got = Broken \/ Places(g.got, id) = {})
  <2> DEFINE r == Mark(g.got, id, st)
  <2>1. g.got \in Lists /\ r \in Lists /\ o \in SetBoth(g.mem, r)
    BY <1>1, <1>2, <1>5, ListsKept DEF Broken, Marks
  <2> HIDE DEF r
  <2>2. /\ After(g.mem, o.mem, 0) /\ o.mem.copy = r /\ o.mem.redis \in {g.mem.redis, r}
        /\ \/ o.got = r /\ o.mem.redis = r
           \/ o.got = Broken /\ After(g.mem, o.mem, 1)
    BY <1>3, <2>1, SetCosts
  <2>3. r # Broken
    BY <2>1, LoopAssumption DEF Lists, Broken, LoopAssumption
  <2>4. After(m, o.mem, 0) /\ (o.got = Broken => After(m, o.mem, 1))
    BY <1>2, <2>2, <2>3, AfterSteps
  <2>5. After(m, g.mem, 1) => After(m, o.mem, 1)
    BY <2>2, AfterSteps
  <2>6. o.got \in Lists \cup {Nothing}
    BY <2>1, <2>2 DEF Broken
  <2>7. g.got = B => r = s
    BY DEF r
  <2>8. o.got # Broken /\ g.got = B => o.mem.redis = s /\ o.mem.copy = s
    BY <2>2, <2>7
  <2>9. ASSUME m.redis = Nothing
        PROVE  g.got = B /\ Base(o.mem) \in {B, s}
    <3>1. g.got = B
      BY <1>2, <1>3, <1>5, <2>9 DEF Broken
    <3>2. o.mem.copy = s /\ o.mem.redis \in {Nothing, s}
      BY <1>2, <2>2, <2>7, <2>9, <3>1 DEF Same
    <3>3. Base(o.mem) = s
      BY <3>2 DEF Base
    <3>4. QED
      BY <3>1, <3>3
  <2> HIDE DEF s, B
  <2>10. o.got = Broken \/ o.got # Broken
    OBVIOUS
  <2>11. QED
    BY <1>2, <2>4, <2>5, <2>6, <2>8, <2>9 DEF s, B
<1>6. QED
  BY <1>4, <1>5

LEMMA UpdateCosts ==
  ASSUME NEW m \in Mem(Lists, 0), NEW id, NEW st \in Status, NEW o \in UpdateTask(m, id, st)
  PROVE  /\ After(m, o.mem, 0)
         /\ Places(Base(m), id) # {} =>
              \/ After(m, o.mem, 2)
              \/ o.mem.redis = Mark(Base(m), id, st) /\ o.mem.copy = Mark(Base(m), id, st)
<1> DEFINE B == Base(m)
           known == m.redis # Nothing /\ Places(m.redis, id) # {}
           s == Mark(m.redis, id, st)
           z == Mark(B, id, st)
           Twice(n) == UNION {IF p.got = Broken THEN LegacyUpdateTask(p.mem, id, st) ELSE {p} :
                                p \in LegacyUpdateTask(n, id, st)}
           X == IF known THEN {Outcome([m EXCEPT !.redis = s, !.copy = s], s)} ELSE Twice(m)
           Y == UNION {LegacyUpdateTask(n, id, st) : n \in Down(m)}
           Z == IF known THEN UNION {LegacyUpdateTask([n EXCEPT !.redis = s], id, st) : n \in Down(m)} ELSE {}
           Marked(n) == n.redis = z /\ n.copy = z
           Had == Places(B, id) # {}
           (* The outcome before the log entry. *)
           Done(p) == After(m, p.mem, 0) /\ (Had => After(m, p.mem, 2) \/ Marked(p.mem))
<1>0. B \in Lists /\ B # Nothing /\ (m.redis = Nothing => B = m.copy) /\ (m.redis # Nothing => B = m.redis)
  BY FaultsType DEF Base
<1>1. known => B = m.redis /\ s = z /\ s \in Lists /\ Had
  BY <1>0, MarkTwice
<1>2. Had => z \in Lists /\ Places(z, id) # {} /\ Mark(z, id, st) = z
  BY <1>0, MarkTwice
<1> HIDE DEF z, s
<1>3. ASSUME known PROVE Done(Outcome([m EXCEPT !.redis = s, !.copy = s], s))
  <2>1. /\ After(m, [m EXCEPT !.redis = s, !.copy = s], 0)
        /\ [m EXCEPT !.redis = s, !.copy = s].redis = s /\ [m EXCEPT !.redis = s, !.copy = s].copy = s
    BY <1>1, <1>3, AfterSet
  <2>2. Outcome([m EXCEPT !.redis = s, !.copy = s], s).mem = [m EXCEPT !.redis = s, !.copy = s]
    BY DEF Outcome
  <2>3. QED
    BY <1>1, <1>3, <2>1, <2>2
(* Nothing is known to Redis: the task is in the copy or nowhere. *)
<1>4. ASSUME ~known, NEW p \in Twice(m) PROVE Done(p)
  <2>1. PICK q \in LegacyUpdateTask(m, id, st) :
          p \in (IF q.got = Broken THEN LegacyUpdateTask(q.mem, id, st) ELSE {q})
    BY <1>4
  <2>2. /\ After(m, q.mem, 0)
        /\ Had /\ m.redis = Nothing => \/ q.got # Broken /\ Marked(q.mem)
                                       \/ q.got = Broken /\ After(m, q.mem, 1) /\ Base(q.mem) \in {B, z}
    BY LegacyCosts DEF z
  <2>3. Had => m.redis = Nothing
    BY <1>0, <1>4
  <2>4. q.mem \in Mem(Lists, 0)
    BY <2>2 DEF After
  <2>5. CASE q.got # Broken
    <3>1. p = q
      BY <2>1, <2>5
    <3>2. Had => Marked(q.mem)
      BY <2>2, <2>3, <2>5
    <3>3. QED
      BY <2>2, <3>1, <3>2
  <2>6. CASE q.got = Broken
    <3>1. p \in LegacyUpdateTask(q.mem, id, st)
      BY <2>1, <2>6
    <3>2. /\ After(q.mem, p.mem, 0)
          /\ Places(Base(q.mem), id) # {} =>
               \/ After(q.mem, p.mem, 1)
               \/ p.mem.redis = Mark(Base(q.mem), id, st) /\ p.mem.copy = Mark(Base(q.mem), id, st)
      BY <2>4, <3>1, LegacyCosts
    <3>3. After(m, p.mem, 0)
      BY <2>2, <3>2, AfterSteps
    <3>4. ASSUME Had PROVE After(m, p.mem, 2) \/ Marked(p.mem)
      <4>1. After(m, q.mem, 1) /\ Base(q.mem) \in {B, z}
        BY <2>2, <2>3, <2>6, <3>4
      <4>2. Places(Base(q.mem), id) # {} /\ Mark(Base(q.mem), id, st) = z
        BY <1>2, <3>4, <4>1 DEF z
      <4>3. CASE After(q.mem, p.mem, 1)
        BY <4>1, <4>3, AfterSteps
      <4>4. QED
        BY <3>2, <4>2, <4>3
    <3>5. QED
      BY <3>3, <3>4
  <2>7. QED
    BY <2>5, <2>6
<1>5. ASSUME NEW n \in Mem(Lists, 0), After(m, n, 1), Had => Base(n) \in {B, z}, NEW p \in LegacyUpdateTask(n, id, st)
      PROVE  Done(p)
  <2>1. /\ After(n, p.mem, 0)
        /\ Places(Base(n), id) # {} =>
             \/ After(n, p.mem, 1)
             \/ p.mem.redis = Mark(Base(n), id, st) /\ p.mem.copy = Mark(Base(n), id, st)
    BY <1>5, LegacyCosts
  <2>2. After(m, p.mem, 0)
    BY <1>5, <2>1, AfterSteps
  <2>3. After(n, p.mem, 1) => After(m, p.mem, 2)
    BY <1>5, AfterSteps
  <2>4. Had => Places(Base(n), id) # {} /\ Mark(Base(n), id, st) = z
    BY <1>2, <1>5 DEF z
  <2>5. QED
    BY <2>1, <2>2, <2>3, <2>4
<1>6. ASSUME NEW n \in Down(m), NEW p \in LegacyUpdateTask(n, id, st) PROVE Done(p)
  <2>1. After(m, n, 1) /\ n \in Mem(Lists, 0) /\ Base(n) = B
    BY <1>6, DownCosts DEF After, Same, Base
  <2>2. QED
    BY <1>5, <1>6, <2>1
<1>7. ASSUME known, NEW n \in Down(m), NEW p \in LegacyUpdateTask([n EXCEPT !.redis = s], id, st) PROVE Done(p)
  <2>1. After(m, n, 1) /\ n \in Mem(Lists, 0)
    BY <1>7, DownCosts DEF After
  <2>2. After(n, [n EXCEPT !.redis = s], 0) /\ [n EXCEPT !.redis = s].redis = s
    BY <1>1, <1>7, <2>1, AfterSet
  <2>3. After(m, [n EXCEPT !.redis = s], 1) /\ [n EXCEPT !.redis = s] \in Mem(Lists, 0)
    BY <2>1, <2>2, AfterSteps DEF After
  <2>4. s # Nothing
    BY <1>1, <1>7, LoopAssumption DEF Lists, LoopAssumption
  <2>5. Base([n EXCEPT !.redis = s]) = z
    BY <1>1, <1>7, <2>2, <2>4 DEF Base
  <2>6. QED
    BY <1>5, <1>7, <2>3, <2>5
<1>8. ASSUME NEW p \in X \cup Y \cup Z PROVE Done(p)
  <2> HIDE DEF Done, Twice
  <2>1. CASE p \in X
    BY <1>3, <1>4, <2>1
  <2>2. CASE p \in Y
    BY <1>6, <2>2
  <2>3. CASE p \in Z
    BY <1>7, <2>3
  <2>4. QED
    BY <1>8, <2>1, <2>2, <2>3
<1>9. UpdateTask(m, id, st) = Audited(X \cup Y \cup Z)
  BY DEF UpdateTask, s
<1>10. \A p \in X \cup Y \cup Z : p.mem \in Mem(Lists, 0)
  BY <1>8 DEF After
<1> HIDE DEF X, Y, Z
<1>11. Done(o)
  <2>1. CASE o \in X \cup Y \cup Z
    BY <1>8, <2>1
  <2>2. ASSUME NEW p \in X \cup Y \cup Z, After(p.mem, o.mem, 1), Same(p.mem, o.mem) PROVE Done(o)
    <3>1. After(m, p.mem, 0) /\ (Had => After(m, p.mem, 2) \/ Marked(p.mem))
      BY <1>8
    <3>2. After(m, o.mem, 1)
      BY <2>2, <3>1, AfterSteps
    <3>3. After(m, p.mem, 2) => After(m, o.mem, 2)
      BY <2>2, AfterSteps
    <3>4. Marked(p.mem) => Marked(o.mem)
      BY <2>2 DEF Same
    <3>5. QED
      BY <3>1, <3>2, <3>3, <3>4, AfterSteps
  <2>3. QED
    BY <1>9, <1>10, <2>1, <2>2, AuditedCosts
<1>12. QED
  BY <1>11 DEF z

(* The other update of the record, with or without the tasks. *)
LEMMA StateCosts ==
  ASSUME NEW m \in Mem(Lists, 0), NEW T \in Lists \cup {Nothing}, NEW o \in UpdateState(m, T)
  PROVE  After(m, o.mem, 0) /\ (o.mem.redis = o.mem.copy \/ After(m, o.mem, 2))
<1> DEFINE s == IF T = Nothing THEN (IF m.redis = Nothing THEN <<>> ELSE m.redis) ELSE T
           Legacy(n) == UNION {IF g.got = Broken THEN {g}
                               ELSE SetBoth(g.mem, IF T = Nothing THEN g.got ELSE T) : g \in GetState(n)}
           X == {Outcome([m EXCEPT !.redis = s, !.copy = s], s)}
           Y == UNION {Legacy(n) \cup Legacy([n EXCEPT !.redis = s]) : n \in Down(m)}
           Both(n) == n.redis = n.copy
           (* The outcome before the log entry. *)
           Done(p) == After(m, p.mem, 0) /\ (After(m, p.mem, 2) \/ Both(p.mem))
<1>1. s \in Lists
  BY ListsKept, FaultsType
<1>2. UpdateState(m, T) = Audited(X \cup Y)
  BY DEF UpdateState
<1> HIDE DEF s
<1>3. ASSUME NEW n \in Mem(Lists, 0), After(m, n, 1), NEW p \in Legacy(n) PROVE Done(p)
  <2>1. PICK g \in GetState(n) :
          p \in (IF g.got = Broken THEN {g} ELSE SetBoth(g.mem, IF T = Nothing THEN g.got ELSE T))
    BY <1>3
  <2>2. After(n, g.mem, 0) /\ (g.got = Base(n) \/ After(n, g.mem, 1)) /\ g.got \in Lists \cup {Nothing}
    BY <1>3, GetCosts
  <2>3. g.mem \in Mem(Lists, 0) /\ After(m, g.mem, 1) /\ (g.got = Base(n) \/ After(m, g.mem, 2))
    BY <1>3, <2>2, AfterSteps DEF After
  <2>4. CASE g.got = Broken
    <3>1. p = g
      BY <2>1, <2>4
    <3>2. Base(n) # Broken
      BY <1>3, FaultsType DEF Broken
    <3>3. QED
      BY <2>3, <2>4, <3>1, <3>2, AfterSteps
  <2>5. CASE g.got # Broken
    <3> DEFINE r == IF T = Nothing THEN g.got ELSE T
    <3>1. p \in SetBoth(g.mem, r) /\ r \in Lists
      BY <2>1, <2>2, <2>5 DEF Broken
    <3> HIDE DEF r
    <3>2. After(g.mem, p.mem, 0) /\ p.mem.copy = r /\ (p.mem.redis = r \/ After(g.mem, p.mem, 1))
      BY <2>3, <3>1, SetCosts
    <3>3. After(m, p.mem, 1) /\ (After(g.mem, p.mem, 1) => After(m, p.mem, 2))
      BY <2>3, <3>2, AfterSteps
    <3>4. QED
      BY <3>2, <3>3, AfterSteps
  <2>6. QED
    BY <2>4, <2>5
<1>4. ASSUME NEW p \in X PROVE Done(p)
  <2>1. p.mem = [m EXCEPT !.redis = s, !.copy = s]
    BY <1>4 DEF Outcome
  <2>2. /\ After(m, [m EXCEPT !.redis = s, !.copy = s], 0)
        /\ [m EXCEPT !.redis = s, !.copy = s].redis = s /\ [m EXCEPT !.redis = s, !.copy = s].copy = s
    BY <1>1, AfterSet
  <2>3. QED
    BY <2>1, <2>2
<1>5. ASSUME NEW n \in Down(m), NEW p \in Legacy(n) \cup Legacy([n EXCEPT !.redis = s]) PROVE Done(p)
  <2>1. After(m, n, 1) /\ n \in Mem(Lists, 0)
    BY <1>5, DownCosts DEF After
  <2>2. After(n, [n EXCEPT !.redis = s], 0)
    BY <1>1, <2>1, AfterSet
  <2>3. After(m, [n EXCEPT !.redis = s], 1) /\ [n EXCEPT !.redis = s] \in Mem(Lists, 0)
    BY <2>1, <2>2, AfterSteps DEF After
  <2> HIDE DEF Legacy, Done
  <2>4. QED
    BY <1>3, <1>5, <2>1, <2>3
<1>6. \A p \in X \cup Y : Done(p)
  <2> HIDE DEF Legacy, Done
  <2>1. QED
    BY <1>4, <1>5
<1>7. \A p \in X \cup Y : p.mem \in Mem(Lists, 0)
  BY <1>6 DEF After
<1> HIDE DEF X, Y
<1>8. ASSUME NEW p \in X \cup Y, After(p.mem, o.mem, 1), Same(p.mem, o.mem) PROVE Done(o)
  <2>1. Done(p)
    BY <1>6
  <2>2. After(m, o.mem, 1) /\ (After(m, p.mem, 2) => After(m, o.mem, 2))
    BY <1>8, <2>1, AfterSteps
  <2>3. Both(p.mem) => Both(o.mem)
    BY <1>8 DEF Same
  <2>4. QED
    BY <2>1, <2>2, <2>3, AfterSteps
<1>9. Done(o)
  BY <1>2, <1>6, <1>7, <1>8, AuditedCosts
<1>10. QED
  BY <1>9

(* Appending: up to one fault leaves both copies of the list alike.  With  *)
(* two, the process may have the old list and Redis the new one.           *)
LEMMA CreateCosts ==
  ASSUME NEW m \in Mem(Lists, 0), NEW e \in Task, NEW o \in CreateTask(m, e)
  PROVE  /\ After(m, o.mem, 0)
         /\ m.redis # Nothing =>
              \/ o.mem.redis = o.mem.copy
              \/ After(m, o.mem, 2) /\ o.mem.copy = m.copy /\ o.mem.redis \in {m.redis, Append(m.redis, e)}
              \/ After(m, o.mem, 3)
<1> DEFINE s == Append(m.redis, e)
           Fallback(n) == UNION {IF g.got = Broken THEN {g} ELSE UpdateState(g.mem, Append(g.got, e)) :
                                   g \in GetState(n)}
           X == IF m.redis = Nothing THEN Fallback(m) ELSE {Outcome([m EXCEPT !.redis = s, !.copy = s], s)}
           Y == UNION {Fallback(n) : n \in Down(m)}
           Z == IF m.redis = Nothing THEN {} ELSE UNION {Fallback([n EXCEPT !.redis = s]) : n \in Down(m)}
           Old(n) == n.copy = m.copy /\ n.redis \in {m.redis, s}
           Done(p) == /\ After(m, p.mem, 0)
                      /\ m.redis # Nothing => p.mem.redis = p.mem.copy \/ (After(m, p.mem, 2) /\ Old(p.mem))
                                              \/ After(m, p.mem, 3)
<1>1. m.redis # Nothing => s \in Lists
  BY ListsKept, FaultsType
<1>2. ASSUME NEW n \in Mem(Lists, 0), NEW p \in Fallback(n)
      PROVE  /\ After(n, p.mem, 0)
             /\ \/ p.mem.redis = p.mem.copy
                \/ After(n, p.mem, 1) /\ Same(n, p.mem)
                \/ After(n, p.mem, 2)
  <2>1. PICK g \in GetState(n) : p \in (IF g.got = Broken THEN {g} ELSE UpdateState(g.mem, Append(g.got, e)))
    BY <1>2
  <2>2. /\ After(n, g.mem, 0) /\ (g.got = Base(n) \/ After(n, g.mem, 1)) /\ g.got \in Lists \cup {Nothing}
        /\ Same(n, g.mem) /\ g.mem \in Mem(Lists, 0)
    BY <1>2, GetCosts DEF After
  <2>3. CASE g.got = Broken
    <3>1. p = g
      BY <2>1, <2>3
    <3>2. Base(n) # Broken
      BY <1>2, FaultsType DEF Broken
    <3>3. QED
      BY <2>2, <2>3, <3>1, <3>2
  <2>4. CASE g.got # Broken
    <3>1. Append(g.got, e) \in Lists /\ p \in UpdateState(g.mem, Append(g.got, e))
      BY <2>1, <2>2, <2>4, ListsKept DEF Broken
    <3>2. After(g.mem, p.mem, 0) /\ (p.mem.redis = p.mem.copy \/ After(g.mem, p.mem, 2))
      BY <2>2, <3>1, StateCosts
    <3>3. After(n, p.mem, 0) /\ (p.mem.redis = p.mem.copy \/ After(n, p.mem, 2))
      BY <1>2, <2>2, <3>2, AfterSteps
    <3>4. QED
      BY <3>3
  <2>5. QED
    BY <2>3, <2>4
<1> HIDE DEF Fallback, s
<1>3. ASSUME NEW n \in Mem(Lists, 0), After(m, n, 1), m.redis # Nothing => Old(n), NEW p \in Fallback(n) PROVE Done(p)
  <2>1. /\ After(n, p.mem, 0)
        /\ p.mem.redis = p.mem.copy \/ (After(n, p.mem, 1) /\ Same(n, p.mem)) \/ After(n, p.mem, 2)
    BY <1>2, <1>3
  <2>2. After(m, p.mem, 0) /\ (After(n, p.mem, 1) => After(m, p.mem, 2)) /\ (After(n, p.mem, 2) => After(m, p.mem, 3))
    BY <1>3, <2>1, AfterSteps
  <2>3. m.redis # Nothing /\ Same(n, p.mem) => Old(p.mem)
    BY <1>3 DEF Same
  <2>4. QED
    BY <2>1, <2>2, <2>3
<1>4. ASSUME NEW p \in X PROVE Done(p)
  <2>1. CASE m.redis = Nothing
    BY <1>2, <1>4, <2>1
  <2>2. CASE m.redis # Nothing
    <3>1. p.mem = [m EXCEPT !.redis = s, !.copy = s]
      BY <1>4, <2>2 DEF Outcome
    <3>2. /\ After(m, [m EXCEPT !.redis = s, !.copy = s], 0)
          /\ [m EXCEPT !.redis = s, !.copy = s].redis = s /\ [m EXCEPT !.redis = s, !.copy = s].copy = s
      BY <1>1, <2>2, AfterSet
    <3>3. QED
      BY <3>1, <3>2
  <2>3. QED
    BY <2>1, <2>2
<1>5. ASSUME NEW n \in Down(m), NEW p \in Fallback(n) PROVE Done(p)
  <2>1. After(m, n, 1) /\ n \in Mem(Lists, 0) /\ Old(n)
    BY <1>5, DownCosts DEF After, Same
  <2>2. QED
    BY <1>3, <1>5, <2>1
<1>6. ASSUME m.redis # Nothing, NEW n \in Down(m), NEW p \in Fallback([n EXCEPT !.redis = s]) PROVE Done(p)
  <2>1. After(m, n, 1) /\ n \in Mem(Lists, 0) /\ n.copy = m.copy
    BY <1>6, DownCosts DEF After, Same
  <2>2. /\ After(n, [n EXCEPT !.redis = s], 0) /\ [n EXCEPT !.redis = s].redis = s
        /\ [n EXCEPT !.redis = s].copy = n.copy
    BY <1>1, <1>6, <2>1, AfterSet
  <2>3. After(m, [n EXCEPT !.redis = s], 1) /\ [n EXCEPT !.redis = s] \in Mem(Lists, 0)
    BY <2>1, <2>2, AfterSteps DEF After
  <2>4. Old([n EXCEPT !.redis = s])
    BY <2>1, <2>2
  <2>5. QED
    BY <1>3, <1>6, <2>3, <2>4
<1>7. CreateTask(m, e) = X \cup Y \cup Z
  BY DEF CreateTask, Fallback, s
<1>8. Done(o)
  <2> HIDE DEF Done
  <2>1. CASE o \in X
    BY <1>4, <2>1
  <2>2. CASE o \in Y
    BY <1>5, <2>2
  <2>3. CASE o \in Z
    BY <1>6, <2>3
  <2> HIDE DEF X, Y, Z
  <2>4. QED
    BY <1>7, <2>1, <2>2, <2>3
<1>9. QED
  BY <1>8 DEF s

LEMMA SavedCosts ==
  ASSUME NEW m \in Mem(Lists, 0), NEW n \in SavedAgain(m)
  PROVE  After(m, n, 0) /\ (n.redis = n.copy \/ After(m, n, 1))
<1>1. PICK g \in GetState(m) : n \in (IF g.got = Broken THEN {g.mem} ELSE {p.mem : p \in SetBoth(g.mem, g.got)})
  BY DEF SavedAgain
<1>2. /\ After(m, g.mem, 0) /\ (g.got = Base(m) \/ After(m, g.mem, 1)) /\ g.got \in Lists \cup {Nothing}
      /\ g.mem \in Mem(Lists, 0)
  BY GetCosts DEF After
<1>3. CASE g.got = Broken
  <2>1. n = g.mem /\ Base(m) # Broken
    BY <1>1, <1>3, FaultsType DEF Broken
  <2>2. QED
    BY <1>2, <1>3, <2>1
<1>4. CASE g.got # Broken
  <2>1. PICK p \in SetBoth(g.mem, g.got) : n = p.mem
    BY <1>1, <1>4
  <2>2. g.got \in Lists
    BY <1>2, <1>4 DEF Broken
  <2>3. After(g.mem, n, 0) /\ n.copy = g.got /\ (n.redis = g.got \/ After(g.mem, n, 1))
    BY <1>2, <2>1, <2>2, SetCosts
  <2>4. QED
    BY <1>2, <2>3, AfterSteps
<1>5. QED
  BY <1>3, <1>4

LEMMA InCopyCosts ==
  ASSUME NEW m \in Mem(Lists, 0), NEW n \in CompleteInCopy(m)
  PROVE  After(m, n, 0)
<1>1. PICK g \in GetState(m) : n = IF g.got = Broken THEN g.mem ELSE [g.mem EXCEPT !.copy = AllDone(g.got)]
  BY DEF CompleteInCopy
<1>2. After(m, g.mem, 0) /\ g.got \in Lists \cup {Nothing} /\ g.mem \in Mem(Lists, 0)
  BY GetCosts DEF After
<1>3. CASE g.got = Broken
  BY <1>1, <1>2, <1>3
<1>4. CASE g.got # Broken
  <2>1. AllDone(g.got) \in Lists
    BY <1>2, <1>4, ListsKept DEF Broken
  <2>2. After(g.mem, [g.mem EXCEPT !.copy = AllDone(g.got)], 0)
    BY <1>2, <2>1, AfterSet
  <2>3. QED
    BY <1>1, <1>2, <1>4, <2>2, AfterSteps
<1>5. QED
  BY <1>3, <1>4

LEMMA AnyCosts ==
  ASSUME NEW m \in Mem(Lists, 0), NEW n \in CompleteAny(m)
  PROVE  After(m, n, 0)
<1>1. PICK g \in GetState(m) :
        n \in (IF g.got = Broken \/ First(g.got, "IN_PROGRESS") = NoTask THEN CompleteInCopy(g.mem)
               ELSE UNION {IF u.got = Broken THEN CompleteInCopy(u.mem) ELSE {u.mem} :
                             u \in UpdateTask(g.mem, First(g.got, "IN_PROGRESS").id, "COMPLETE")})
  BY DEF CompleteAny
<1>2. After(m, g.mem, 0) /\ g.mem \in Mem(Lists, 0)
  BY GetCosts DEF After
<1>3. ASSUME n \in CompleteInCopy(g.mem) PROVE After(m, n, 0)
  BY <1>2, <1>3, InCopyCosts, AfterSteps
<1>4. ASSUME NEW id, NEW u \in UpdateTask(g.mem, id, "COMPLETE"), n \in CompleteInCopy(u.mem) \cup {u.mem}
      PROVE  After(m, n, 0)
  <2>1. "COMPLETE" \in Status
    BY DEF Status
  <2>2. After(g.mem, u.mem, 0)
    BY <1>2, <1>4, <2>1, UpdateCosts
  <2>3. u.mem \in Mem(Lists, 0)
    BY <2>2 DEF After
  <2>4. After(m, u.mem, 0)
    BY <1>2, <2>2, AfterSteps
  <2>5. n = u.mem \/ After(u.mem, n, 0)
    BY <1>4, <2>3, InCopyCosts
  <2>6. QED
    BY <2>4, <2>5, AfterSteps
<1>5. QED
  BY <1>1, <1>3, <1>4

-----------------------------------------------------------------------------
(* Sets of lists that no access leaves, but for one that appends: lists of *)
(* the same identifiers, lists with an identifier, lists in which a task   *)
(* is not pending (any more), lists that name a task twice.                *)
Ids(s) == {s[i].id : i \in DOMAIN s}
HasIds(X) == {s \in Lists : Ids(s) = X}
HasId(c) == {s \in Lists : c \in Ids(s)}
Settled(t) == {s \in Lists : t \in Named(s) /\ \A i \in DOMAIN s : s[i].what = t => s[i].status # "PENDING"}
Twofold(t) == {s \in Lists : \E i, j \in DOMAIN s : i # j /\ s[i].what = t /\ s[j].what = t}

Taking == {"IN_PROGRESS", "COMPLETE"}
(* The tasks of s, of which some may have been taken up since. *)
Later(s, r) ==
  /\ r \in Lists /\ DOMAIN r = DOMAIN s
  /\ \A j \in DOMAIN s : /\ r[j].id = s[j].id /\ r[j].what = s[j].what
                         /\ s[j].status # "PENDING" => r[j].status # "PENDING"
Shut(G) == G \in SUBSET Lists /\ \A s \in G : \A r : Later(s, r) => r \in G

LEMMA MarkLater ==
  ASSUME NEW s \in Lists, NEW id, NEW st \in Taking, Places(s, id) # {}
  PROVE  Later(s, Mark(s, id, st)) /\ \E i \in DOMAIN s : s[i].id = id /\ Mark(s, id, st)[i].status = st
<1>1. s \in Seq(Task) /\ st \in Status /\ st # "PENDING"
  BY DEF Lists, Taking, Status
<1>2. PICK i \in DOMAIN s : s[i].id = id /\ Mark(s, id, st) = MarkedAt(s, i, st)
  BY <1>1, MarkOne
<1>3. /\ MarkedAt(s, i, st) \in Seq(Task)
      /\ DOMAIN MarkedAt(s, i, st) = DOMAIN s
      /\ \A j \in DOMAIN s : /\ MarkedAt(s, i, st)[j].id = s[j].id
                             /\ MarkedAt(s, i, st)[j].what = s[j].what
                             /\ MarkedAt(s, i, st)[j].status = (IF j = i THEN st ELSE s[j].status)
  BY <1>1, MarkedEntry
<1> DEFINE r == MarkedAt(s, i, st)
<1> HIDE DEF r
<1>4. Later(s, r) /\ r[i].status = st
  BY <1>1, <1>3 DEF Later, Lists, r
<1>5. QED
  BY <1>2, <1>4 DEF r

LEMMA DoneLater ==
  ASSUME NEW s \in Lists
  PROVE  Later(s, AllDone(s))
<1> DEFINE r == AllDone(s)
<1>1. r \in Seq(Task) /\ DOMAIN r = DOMAIN s
      /\ \A j \in DOMAIN s : r[j].id = s[j].id /\ r[j].what = s[j].what
                             /\ (s[j].status # "PENDING" <=> r[j].status # "PENDING")
  BY DoneEntries DEF Lists
<1> HIDE DEF r
<1>2. Later(s, r)
  BY <1>1 DEF Later, Lists
<1>3. QED
  BY <1>2 DEF r

LEMMA ShutSets ==
  \A x : Shut(HasIds(x)) /\ Shut(HasId(x)) /\ Shut(Settled(x)) /\ Shut(Twofold(x))
<1>1. ASSUME NEW s, NEW r, Later(s, r)
      PROVE  Ids(r) = Ids(s) /\ Named(r) = Named(s) /\ r \in Lists
  BY <1>1 DEF Ids, Named, Later
<1>2. ASSUME NEW X PROVE Shut(HasIds(X)) /\ Shut(HasId(X))
  BY <1>1 DEF Shut, HasIds, HasId
<1>3. ASSUME NEW t PROVE Shut(Settled(t))
  <2>1. ASSUME NEW s \in Settled(t), NEW r, Later(s, r) PROVE r \in Settled(t)
    <3>1. t \in Named(r) /\ r \in Lists
      BY <1>1, <2>1 DEF Settled
    <3>2. \A i \in DOMAIN r : r[i].what = t => r[i].status # "PENDING"
      BY <2>1 DEF Settled, Later
    <3>3. QED
      BY <3>1, <3>2 DEF Settled
  <2>2. QED
    BY <2>1 DEF Shut, Settled
<1>4. ASSUME NEW t PROVE Shut(Twofold(t))
  BY DEF Shut, Twofold, Later
<1>5. QED
  BY <1>2, <1>3, <1>4

LEMMA ShutMarks ==
  ASSUME NEW G, Shut(G)
  PROVE  /\ G \in SUBSET Seq(Task)
         /\ \A id : \A st \in Taking : Marks(G, id, st)
         /\ \A s \in G : AllDone(s) \in G
<1>1. ASSUME NEW id, NEW st \in Taking, NEW s \in G, Places(s, id) # {} PROVE Mark(s, id, st) \in G
  BY <1>1, MarkLater DEF Shut
<1>2. \A s \in G : AllDone(s) \in G
  BY DoneLater DEF Shut
<1>3. QED
  BY <1>1, <1>2 DEF Marks, Shut, Lists

LEMMA ShutAccess ==
  ASSUME NEW G, Shut(G), NEW m \in Mem(G, 0)
  PROVE  /\ \A o \in GetState(m) : o.mem \in Mem(G, 0) /\ o.got \in G \cup {Nothing}
         /\ \A id : \A st \in Taking : \A o \in UpdateTask(m, id, st) : o.mem \in Mem(G, 0)
         /\ SavedAgain(m) \subseteq Mem(G, 0)
         /\ CompleteAny(m) \subseteq Mem(G, 0)
         /\ \A o \in UpdateState(m, Nothing) : m.redis # Nothing => o.mem \in Mem(G, 0)
<1>1. G \in SUBSET Seq(Task) /\ 0 \in Nat /\ "COMPLETE" \in Taking
      /\ (\A id : \A st \in Taking : Marks(G, id, st)) /\ \A s \in G : AllDone(s) \in G
  BY ShutMarks DEF Taking
<1>2. \A o \in GetState(m) : o.mem \in Mem(G, 0) /\ o.got \in G \cup {Nothing}
  BY <1>1, GetStateOut DEF Out
<1>3. ASSUME NEW id, NEW st \in Taking, NEW o \in UpdateTask(m, id, st) PROVE o.mem \in Mem(G, 0)
  <2>1. Marks(G, id, st)
    BY <1>1, <1>3
  <2>2. o \in Out(G, 0)
    BY <1>1, <1>3, <2>1, UpdateTaskOut
  <2>3. QED
    BY <2>2 DEF Out
<1>4. SavedAgain(m) \subseteq Mem(G, 0)
  BY <1>1, SavedAgainMem
<1>5. CompleteAny(m) \subseteq Mem(G, 0)
  <2>1. \A x \in G : First(x, "IN_PROGRESS") # NoTask => Marks(G, First(x, "IN_PROGRESS").id, "COMPLETE")
    BY <1>1
  <2>2. QED
    BY <1>1, <2>1, CompleteAnyMem
<1>6. \A o \in UpdateState(m, Nothing) : m.redis # Nothing => o.mem \in Mem(G, 0)
  BY <1>1, UpdateStateKeeps
<1>7. QED
  BY <1>2, <1>3, <1>4, <1>5, <1>6

LEMMA MemLists ==
  ASSUME NEW G, G \in SUBSET Lists, NEW m
  PROVE  /\ m \in Mem(G, 0) => m \in Mem(Lists, 0)
         /\ m \in Mem(Lists, 0) => (m \in Mem(G, 0) <=> m.copy \in G /\ m.redis \in G \cup {Nothing})
<1>1. m \in Mem(G, 0) => m \in Mem(Lists, 0)
  BY DEF Mem
<1>2. ASSUME m \in Mem(Lists, 0), m.copy \in G, m.redis \in G \cup {Nothing} PROVE m \in Mem(G, 0)
  BY <1>2 DEF Mem
<1>3. m \in Mem(G, 0) => m.copy \in G /\ m.redis \in G \cup {Nothing}
  BY DEF Mem
<1>4. QED
  BY <1>1, <1>2, <1>3

(* A task that is appended. *)
LEMMA Appended ==
  ASSUME NEW s \in Lists, NEW e \in Task
  PROVE  /\ Append(s, e) \in Lists /\ Ids(s) \subseteq Ids(Append(s, e))
         /\ \A c : s \in HasId(c) => Append(s, e) \in HasId(c)
         /\ \A t : s \in Settled(t) /\ t # e.what => Append(s, e) \in Settled(t)
<1> DEFINE r == Append(s, e)
<1>1. s \in Seq(Task)
  BY DEF Lists
<1>2. r \in Seq(Task) /\ Len(r) = Len(s) + 1 /\ DOMAIN s = 1 .. Len(s) /\ DOMAIN r = 1 .. Len(r) /\ Len(s) \in Nat
  BY <1>1
<1>3. \A i \in DOMAIN s : i \in DOMAIN r /\ r[i] = s[i]
  BY <1>1, <1>2
<1>4. \A i \in DOMAIN r : i \in DOMAIN s \/ r[i] = e
  BY <1>1, <1>2
<1> HIDE DEF r
<1>5. r \in Lists /\ Ids(s) \subseteq Ids(r) /\ Named(s) \subseteq Named(r)
  BY <1>2, <1>3 DEF Lists, Ids, Named
<1>6. \A c : s \in HasId(c) => r \in HasId(c)
  BY <1>5 DEF HasId
<1>7. ASSUME NEW t, s \in Settled(t), t # e.what PROVE r \in Settled(t)
  <2>1. \A i \in DOMAIN r : r[i].what = t => r[i].status # "PENDING"
    BY <1>3, <1>4, <1>7 DEF Settled
  <2>2. t \in Named(r)
    BY <1>5, <1>7 DEF Settled
  <2>3. QED
    BY <1>5, <2>1, <2>2 DEF Settled
<1>8. QED
  BY <1>5, <1>6, <1>7 DEF r

(* A task that was just taken up is settled, or named twice. *)
LEMMA TakenUp ==
  ASSUME NEW s \in Lists, NEW id, NEW st \in Taking, NEW t, Places(s, id) # {},
         \A i \in DOMAIN s : s[i].id = id => s[i].what = t
  PROVE  Mark(s, id, st) \in Settled(t) \cup Twofold(t) /\ Ids(Mark(s, id, st)) = Ids(s) /\ id \in Ids(s)
<1> DEFINE r == Mark(s, id, st)
<1>1. PICK i \in DOMAIN s : s[i].id = id /\ r[i].status = st
  BY MarkLater
<1>2. Later(s, r)
  BY MarkLater
<1>3. st # "PENDING"
  BY DEF Taking
<1> HIDE DEF r
<1>4. r \in Lists /\ DOMAIN r = DOMAIN s /\ r[i].what = t /\ t \in Named(r)
  BY <1>1, <1>2 DEF Later, Named
<1>5. CASE \A j \in DOMAIN s : r[j].what = t => j = i
  <2>1. r \in Settled(t)
    BY <1>1, <1>3, <1>4, <1>5 DEF Settled
  <2>2. QED
    BY <1>1, <1>2, <2>1 DEF r, Ids, Later
<1>6. CASE ~ \A j \in DOMAIN s : r[j].what = t => j = i
  <2>1. r \in Twofold(t)
    BY <1>1, <1>4, <1>6 DEF Twofold
  <2>2. QED
    BY <1>1, <1>2, <2>1 DEF r, Ids, Later
<1>7. QED
  BY <1>5, <1>6

LEMMA TwiceCounted ==
  ASSUME NEW s, NEW t, s \in Twofold(t)
  PROVE  Cardinality({i \in DOMAIN s : s[i].what = t}) > 1
<1> DEFINE S == {i \in DOMAIN s : s[i].what = t}
<1>1. PICK i \in DOMAIN s, j \in DOMAIN s : i # j /\ s[i].what = t /\ s[j].what = t
  BY DEF Twofold
<1>2. IsFiniteSet(S)
  <2>1. s \in Seq(Task)
    BY DEF Twofold, Lists
  <2>2. DOMAIN s = 1 .. Len(s) /\ Len(s) \in Nat
    BY <2>1
  <2>3. IsFiniteSet(1 .. Len(s))
    BY <2>2, FS_Interval
  <2>4. S \subseteq 1 .. Len(s)
    BY <2>2
  <2>5. QED
    BY <2>3, <2>4, FS_Subset
<1>3. {i, j} \subseteq S
  BY <1>1
<1> HIDE DEF S
<1>4. Cardinality({i, j}) = 2
  <2>1. IsFiniteSet({i}) /\ Cardinality({i}) = 1
    BY FS_Singleton
  <2>2. j \notin {i}
    BY <1>1
  <2>3. Cardinality({i} \cup {j}) = Cardinality({i}) + 1
    BY <2>1, <2>2, FS_AddElement
  <2>4. {i} \cup {j} = {i, j}
    OBVIOUS
  <2>5. QED
    BY <2>1, <2>3, <2>4
<1>5. Cardinality({i, j}) <= Cardinality(S) /\ Cardinality(S) \in Nat
  BY <1>2, <1>3, FS_Subset, FS_CardinalityType
<1>6. Cardinality(S) > 1
  BY <1>4, <1>5
<1>7. QED
  BY <1>6 DEF S

-----------------------------------------------------------------------------
(* How a step accesses the memory. *)
Viewing == {"prune", "orphans", "choose"}

Reads == \E o \in GetState(memory) : memory' = o.mem
Takes(id, st) == \E o \in UpdateTask(memory, id, st) : memory' = o.mem
Completes == \E o \in UpdateTask(memory, current.id, "COMPLETE") :
  memory' = o.mem \/ memory' \in CompleteAny(o.mem)
Keeps == memory' = memory
Updates == \E o \in UpdateState(memory, Nothing) : memory' = o.mem

LEMMA StepKinds ==
  ASSUME LoopInv, [LoopNext]_loopVars, step \notin Idle, ~Inject
  PROVE  \/ Reads \/ Keeps \/ memory' \in Unlogged(memory) \/ memory' \in SavedAgain(memory)
         \/ step \in {"snapshot", "save"} /\ Updates
         \/ step \in Viewing /\ \E id \in Ids(view) : \E st \in Taking : Takes(id, st)
         \/ step = "react" /\ Completes
<1>1. \A m : Remember(m) => memory' = m
  BY DEF Remember
<1>2. Forget => Keeps
  BY DEF Forget, Keeps
<1>3. view \in Seq(Task)
  BY DEF LoopInv, ControlPart
<1>4. ASSUME NEW st, First(view, st) # NoTask PROVE First(view, st).id \in Ids(view)
  BY <1>3, <1>4, FirstOne DEF Ids
<1>5. CASE PublishSnapshot \/ Save
  BY <1>1, <1>5 DEF PublishSnapshot, Save, Updates
<1>6. CASE Scan \/ NextIteration \/ Reread \/ ReadAgain
  BY <1>1, <1>6 DEF Scan, NextIteration, Reread, ReadAgain, Reads
<1>7. CASE Prune
  <2>1. PICK i \in Prunable : \E o \in UpdateTask(memory, view[i].id, "COMPLETE") : memory' = o.mem
    BY <1>1, <1>7 DEF Prune
  <2>2. view[i].id \in Ids(view)
    BY <2>1 DEF Prunable, Ids
  <2>3. QED
    BY <1>7, <2>1, <2>2 DEF Prune, Takes, Taking, Viewing
<1>8. CASE CompleteOrphan
  <2>1. First(view, "IN_PROGRESS") # NoTask /\ Takes(First(view, "IN_PROGRESS").id, "COMPLETE") /\ step = "orphans"
    BY <1>1, <1>8 DEF CompleteOrphan, Takes
  <2>2. QED
    BY <1>4, <2>1 DEF Taking, Viewing
<1>9. CASE PassOver \/ TakeTask
  <2>1. First(view, "PENDING") # NoTask /\ step = "choose"
        /\ \E st \in Taking : Takes(First(view, "PENDING").id, st)
    BY <1>1, <1>9 DEF PassOver, TakeTask, Takes, Taking
  <2>2. QED
    BY <1>4, <2>1 DEF Viewing
<1>10. CASE Pruned \/ CeilingReached \/ Reflect \/ CutOff \/ UNCHANGED loopVars
  BY <1>2, <1>10 DEF Pruned, CeilingReached, Reflect, CutOff, loopVars, Keeps
<1>11. CASE Prepare
  <2>1. Forget \/ \E m \in {o.mem : o \in GetState(memory)} \cup SavedAgain(memory) : Remember(m)
    BY <1>11 DEF Prepare
  <2>2. QED
    BY <1>1, <1>2, <2>1 DEF Reads
<1>12. CASE RunTool
  BY <1>1, <1>2, <1>12 DEF RunTool
<1>13. CASE Ground
  BY <1>1, <1>13 DEF Ground
<1>14. CASE Complete
  <2>1. PICK o \in UpdateTask(memory, current.id, "COMPLETE") :
          \E m \in (IF o.got = Broken THEN CompleteAny(o.mem) ELSE {o.mem}) : Remember(m)
    BY <1>14 DEF Complete
  <2>2. memory' = o.mem \/ memory' \in CompleteAny(o.mem)
    BY <1>1, <2>1
  <2>3. QED
    BY <1>14, <2>1, <2>2 DEF Complete, Completes
<1>15. ~WritePlan
  BY DEF WritePlan, Idle
<1>16. QED
  BY <1>5, <1>6, <1>7, <1>8, <1>9, <1>10, <1>11, <1>12, <1>13, <1>14, <1>15 DEF LoopNext, AgentStep

LEMMA InjectKinds ==
  ASSUME LoopInv, Inject
  PROVE  \/ Reads
         \/ \E o \in GetState(memory) :
              /\ o.got # Broken /\ Head(wanted) \notin Named(o.got)
              /\ New(made + 1, Head(wanted)) \in Task
              /\ \E c \in CreateTask(o.mem, New(made + 1, Head(wanted))) : memory' = c.mem
<1>1. \A m : Remember(m) => memory' = m
  BY DEF Remember
<1>2. Head(wanted) \in Tasks /\ made + 1 \in Nat
  BY DEF Inject, LoopInv, ControlPart
<1>3. New(made + 1, Head(wanted)) \in Task
  BY <1>2, StepNames
<1>4. PICK o \in GetState(memory) :
        IF o.got = Broken \/ Head(wanted) \in Named(o.got) \cup recorded THEN Remember(o.mem)
        ELSE \E c \in CreateTask(o.mem, New(made + 1, Head(wanted))) : Remember(c.mem)
  BY DEF Inject
<1>5. QED
  BY <1>1, <1>3, <1>4 DEF Reads

(* No fault is taken back, and a record in Redis stays one. *)
LEMMA StepAfter ==
  ASSUME LoopInv, [LoopNext]_loopVars, step \notin Idle
  PROVE  After(memory, memory', 0)
<1>1. memory \in Mem(Lists, 0)
  BY DEF LoopInv, MemPart
<1>2. Reads => After(memory, memory', 0)
  BY <1>1, GetCosts DEF Reads
<1>3. ASSUME NEW id, NEW st \in Status, NEW o \in UpdateTask(memory, id, st)
      PROVE  After(memory, o.mem, 0) /\ o.mem \in Mem(Lists, 0)
  BY <1>1, <1>3, UpdateCosts DEF After
<1>4. CASE Inject
  <2>1. ASSUME NEW o \in GetState(memory), NEW e \in Task, NEW c \in CreateTask(o.mem, e)
        PROVE  After(memory, c.mem, 0)
    <3>1. After(memory, o.mem, 0) /\ o.mem \in Mem(Lists, 0)
      BY <1>1, <2>1, GetCosts DEF After
    <3>2. After(o.mem, c.mem, 0)
      BY <2>1, <3>1, CreateCosts
    <3>3. QED
      BY <1>1, <3>1, <3>2, AfterSteps
  <2>2. QED
    BY <1>2, <1>4, <2>1, InjectKinds
<1>5. CASE ~Inject
  <2>1. Keeps => After(memory, memory', 0)
    BY <1>1, AfterSelf DEF Keeps
  <2>2. memory' \in Unlogged(memory) \/ memory' \in SavedAgain(memory) => After(memory, memory', 0)
    BY <1>1, DownCosts, SavedCosts, AfterSteps
  <2>3. Updates => After(memory, memory', 0)
    BY <1>1, StateCosts DEF Updates
  <2>4. ASSUME NEW id, NEW st \in Taking, Takes(id, st) PROVE After(memory, memory', 0)
    BY <1>3, <2>4 DEF Takes, Taking, Status
  <2>5. ASSUME Completes PROVE After(memory, memory', 0)
    <3>1. PICK o \in UpdateTask(memory, current.id, "COMPLETE") : memory' = o.mem \/ memory' \in CompleteAny(o.mem)
      BY <2>5 DEF Completes
    <3>2. After(memory, o.mem, 0) /\ o.mem \in Mem(Lists, 0)
      BY <1>3, <3>1, StepNames
    <3>3. memory' \in CompleteAny(o.mem) => After(o.mem, memory', 0)
      BY <3>2, AnyCosts
    <3>4. QED
      BY <1>1, <3>1, <3>2, <3>3, AfterSteps
  <2>6. QED
    BY <1>2, <1>5, <2>1, <2>2, <2>3, <2>4, <2>5, StepKinds
<1>6. QED
  BY <1>4, <1>5

(* A set of lists that is shut stays the home of the memory, as long as    *)
(* nothing is appended and Redis makes no new record.                      *)
LEMMA StepShut ==
  ASSUME LoopInv, [LoopNext]_loopVars, step \notin Idle, ~Inject, NEW G, Shut(G), memory \in Mem(G, 0),
         memory.redis # Nothing \/ step \notin {"snapshot", "save"}
  PROVE  memory' \in Mem(G, 0)
<1>1. Reads \/ Keeps \/ memory' \in SavedAgain(memory) => memory' \in Mem(G, 0)
  BY ShutAccess DEF Reads, Keeps
<1>2. memory' \in Unlogged(memory) => memory' \in Mem(G, 0)
  BY UnloggedMem
<1>3. step \in {"snapshot", "save"} /\ Updates => memory' \in Mem(G, 0)
  BY ShutAccess DEF Updates
<1>4. ASSUME NEW id, NEW st \in Taking, Takes(id, st) PROVE memory' \in Mem(G, 0)
  BY <1>4, ShutAccess DEF Takes
<1>5. ASSUME Completes PROVE memory' \in Mem(G, 0)
  <2>1. PICK o \in UpdateTask(memory, current.id, "COMPLETE") : memory' = o.mem \/ memory' \in CompleteAny(o.mem)
    BY <1>5 DEF Completes
  <2>2. o.mem \in Mem(G, 0)
    BY <2>1, ShutAccess DEF Taking
  <2>3. QED
    BY <2>1, <2>2, ShutAccess
<1>6. QED
  BY <1>1, <1>2, <1>3, <1>4, <1>5, StepKinds

-----------------------------------------------------------------------------
(* The invariant.  A tool may run again once its task was appended twice,  *)
(* or once there were more faults than the property speaks of.             *)
Many == Faults(memory) > 3
Excused(t) == t \in doubled \/ Many
Known(G) == memory \in Mem(G, 0) /\ memory.redis # Nothing

(* Up to one fault both copies list the same tasks, up to two the process  *)
(* knows no more than Redis; Redis has the record but for three faults.    *)
Paired ==
  /\ memory.redis = Nothing => Faults(memory) >= (IF step = "snapshot" THEN 1 ELSE 3)
  /\ memory.redis # Nothing =>
       /\ Faults(memory) <= 1 => Ids(memory.copy) = Ids(memory.redis)
       /\ Faults(memory) <= 2 => Ids(memory.copy) \subseteq Ids(memory.redis)

(* The loop acts on tasks that the memory has, and takes up none again.    *)
Fresh == \A i \in DOMAIN view : view[i].status = "PENDING" => runsOf[view[i].what] = 0 \/ Excused(view[i].what)
Viewed ==
  /\ step \in Viewing /\ ~Many => Ids(view) \subseteq Ids(Base(memory))
  /\ step \in {"orphans", "choose"} => Fresh

(* The task in hand is in both copies, and marked there unless two faults  *)
(* kept the mark from one of them.                                         *)
InHand ==
  step \in Holding =>
    /\ ~Many => memory \in Mem(HasId(current.id), 0)
    /\ current.what \in doubled \/ Faults(memory) >= 2 \/ Known(Settled(current.what))
    /\ step \in {"prepare", "run"} => runsOf[current.what] = 0 \/ Excused(current.what)

(* What was run and put down is marked in both copies.                     *)
Rested == \A t \in Tasks :
  runsOf[t] > 0 /\ ~(step \in Holding /\ current.what = t) => Excused(t) \/ Known(Settled(t))

Once == \A t \in Tasks : runsOf[t] <= 1 \/ Excused(t)

RepeatInv == Once /\ (step \notin Idle => Paired /\ Viewed /\ InHand /\ Rested)

LEMMA ExcusedStays ==
  ASSUME LoopInv, [LoopNext]_loopVars, step \notin Idle
  PROVE  /\ doubled \subseteq doubled' /\ Faults(memory)' >= Faults(memory)
         /\ Faults(memory) \in Nat /\ Faults(memory)' \in Nat
         /\ Many => Many'
         /\ \A t : Excused(t) => t \in doubled' \/ Many'
<1>1. doubled \subseteq doubled'
  <2>1. (\E m : Remember(m)) \/ Forget
    BY DEF LoopNext, AgentStep, WritePlan, PublishSnapshot, Scan, Prune, Pruned, NextIteration, CeilingReached,
       CompleteOrphan, Reread, PassOver, TakeTask, Reflect, Prepare, RunTool, Ground, Inject, ReadAgain, Complete,
       Save, CutOff, loopVars, Forget
  <2>2. QED
    BY <2>1 DEF Remember, Forget
<1>2. After(memory, memory', 0) /\ memory \in Mem(Lists, 0) /\ memory' \in Mem(Lists, 0)
  BY StepAfter DEF LoopInv, MemPart, After
<1>3. Faults(memory) \in Nat /\ Faults(memory') \in Nat /\ Faults(memory') >= Faults(memory)
  <2>1. Faults(memory) \in Nat /\ Faults(memory') \in Nat
    BY <1>2, FaultsType
  <2>2. Faults(memory') >= Faults(memory) + 0
    BY <1>2 DEF After
  <2>3. QED
    BY <2>1, <2>2
<1>4. Faults(memory)' = Faults(memory')
  BY DEF Faults
<1>5. Many => Many'
  BY <1>3, <1>4 DEF Many
<1>6. QED
  BY <1>1, <1>3, <1>4, <1>5 DEF Excused


LEMMA RepeatInvInit == LoopInit => RepeatInv
<1>1. LoopInit => step \in Idle /\ \A t \in Tasks : runsOf[t] <= 1
  BY DEF LoopInit, Idle
<1>2. QED
  BY <1>1 DEF RepeatInv, Once

LEMMA PlanRepeats ==
  ASSUME LoopInv, PlanInv, WritePlan, step' \notin Idle
  PROVE  RepeatInv'
<1> DEFINE s == [i \in DOMAIN Plan |-> New(i, Plan[i])]
           k == [memory EXCEPT !.copy = s]
           O == {Outcome([k EXCEPT !.redis = s], s)} \cup UNION {{Outcome(n, s), Outcome([n EXCEPT !.redis = s], s)} : n \in Down(k)}
<1>1. memory \in Mem(Lists, 0)
  BY DEF LoopInv, MemPart
<1>2. memory.redis = Nothing /\ iteration = 0
  BY DEF PlanInv, WritePlan
<1>3. s \in Lists
  BY <1>1, PlanTyped
<1> HIDE DEF s
<1>4. After(memory, k, 0) /\ k.redis = Nothing /\ k.copy = s /\ k \in Mem(Lists, 0)
  BY <1>1, <1>2, <1>3, AfterSet DEF After
<1> HIDE DEF k
<1>5. PICK o \in Audited(O) : Remember(o.mem) /\ step' = "snapshot" /\ o.got # Broken
  BY DEF WritePlan, k, s, Idle
<1>6. ASSUME NEW p \in O
      PROVE  /\ p.mem \in Mem(Lists, 0)
             /\ p.mem.redis = p.mem.copy \/ (p.mem.redis = Nothing /\ Faults(p.mem) >= 1)
  <2>1. CASE p = Outcome([k EXCEPT !.redis = s], s)
    <3>1. p.mem = [k EXCEPT !.redis = s]
      BY <2>1 DEF Outcome
    <3>2. /\ After(k, [k EXCEPT !.redis = s], 0)
          /\ [k EXCEPT !.redis = s].redis = s /\ [k EXCEPT !.redis = s].copy = s
      BY <1>3, <1>4, AfterSet
    <3>3. QED
      BY <3>1, <3>2 DEF After
  <2>2. ASSUME NEW n \in Down(k), p = Outcome(n, s) \/ p = Outcome([n EXCEPT !.redis = s], s)
        PROVE  /\ p.mem \in Mem(Lists, 0)
               /\ p.mem.redis = p.mem.copy \/ (p.mem.redis = Nothing /\ Faults(p.mem) >= 1)
    <3>1. p.mem = n \/ p.mem = [n EXCEPT !.redis = s]
      BY <2>2 DEF Outcome
    <3>2. After(k, n, 1) /\ n.redis = Nothing /\ n.copy = s /\ n \in Mem(Lists, 0)
      BY <1>4, DownCosts DEF Same, After
    <3>3. Faults(n) >= 1
      <4>1. Faults(n) >= Faults(k) + 1 /\ Faults(k) \in Nat /\ Faults(n) \in Nat
        BY <1>4, <3>2, FaultsType DEF After
      <4>2. QED
        BY <4>1
    <3>4. /\ After(n, [n EXCEPT !.redis = s], 0)
          /\ [n EXCEPT !.redis = s].redis = s /\ [n EXCEPT !.redis = s].copy = s
      BY <1>3, <3>2, AfterSet
    <3>5. [n EXCEPT !.redis = s] \in Mem(Lists, 0)
      BY <3>4 DEF After
    <3>6. QED
      BY <3>1, <3>2, <3>3, <3>4, <3>5
  <2>3. QED
    BY <2>1, <2>2
<1>7. o \in O
  <2> HIDE DEF O
  <2>1. \A p \in O : p.mem \in Mem(Lists, 0)
    BY <1>6
  <2>2. QED
    BY <1>5, <2>1, AuditedCosts
<1> HIDE DEF O
<1>8. memory' = o.mem /\ step' = "snapshot" /\ runsOf' = runsOf
  BY <1>5 DEF Remember, WritePlan
<1>9. \A t \in Tasks : runsOf'[t] = 0
  <2>1. runsOf \in [Tasks -> 0 .. Ceiling] /\ \A t \in Tasks : runsOf[t] <= 0
    BY <1>2 DEF LoopInv, ControlPart, RunBound
  <2>2. \A t \in Tasks : runsOf[t] \in Nat
    BY <2>1, LoopAssumption DEF LoopAssumption
  <2>3. QED
    BY <1>8, <2>1, <2>2
<1>10. memory' \in Mem(Lists, 0) /\ (memory'.redis = memory'.copy \/ (memory'.redis = Nothing /\ Faults(memory') >= 1))
  BY <1>6, <1>7, <1>8
<1>11. memory'.copy # Nothing
  BY <1>10, FaultsType, LoopAssumption DEF Lists, LoopAssumption
<1>12. Paired'
  BY <1>8, <1>10, <1>11 DEF Paired, Faults
<1>13. Viewed' /\ InHand' /\ Rested' /\ Once'
  BY <1>8, <1>9 DEF Viewed, Viewing, InHand, Holding, Rested, Once
<1>14. QED
  BY <1>12, <1>13 DEF RepeatInv

LEMMA PlacesIds == \A s, id : Places(s, id) # {} <=> id \in Ids(s)
BY DEF Places, Ids

(* Up to one fault, both copies are lists of the same identifiers. *)
LEMMA Level ==
  ASSUME NEW m \in Mem(Lists, 0), m.redis # Nothing => Ids(m.copy) = Ids(m.redis)
  PROVE  m \in Mem(HasIds(Ids(Base(m))), 0)
<1> DEFINE G == HasIds(Ids(Base(m)))
<1>1. G \in SUBSET Lists
  BY DEF HasIds
<1>2. m.copy \in G /\ m.redis \in G \cup {Nothing}
  BY FaultsType DEF HasIds, Base
<1> HIDE DEF G
<1>3. m \in Mem(G, 0)
  BY <1>1, <1>2, MemLists
<1>4. QED
  BY <1>3 DEF G

LEMMA LevelIds ==
  ASSUME NEW X, NEW m \in Mem(HasIds(X), 0)
  PROVE  m \in Mem(Lists, 0) /\ Ids(m.copy) = X /\ (m.redis # Nothing => Ids(m.redis) = X) /\ Ids(Base(m)) = X
<1>1. HasIds(X) \in SUBSET Lists
  BY DEF HasIds
<1>2. m \in Mem(Lists, 0) /\ m.copy \in HasIds(X) /\ m.redis \in HasIds(X) \cup {Nothing}
  <2> DEFINE G == HasIds(X)
  <2>0. G \in SUBSET Lists /\ m \in Mem(G, 0)
    BY <1>1
  <2> HIDE DEF G
  <2>1. m \in Mem(Lists, 0)
    BY <2>0, MemLists
  <2>2. m.copy \in G /\ m.redis \in G \cup {Nothing}
    BY <2>0, <2>1, MemLists
  <2>3. QED
    BY <2>1, <2>2 DEF G
<1>3. QED
  BY <1>2 DEF HasIds, Base

(* A task that the memory has is marked in both copies, or two faults. *)
LEMMA MarkedAlike ==
  ASSUME NEW m \in Mem(Lists, 0), NEW id, id \in Ids(Base(m)), NEW st \in Taking, NEW o \in UpdateTask(m, id, st)
  PROVE  /\ After(m, o.mem, 0)
         /\ \/ After(m, o.mem, 2)
            \/ /\ o.mem.redis = Mark(Base(m), id, st) /\ o.mem.copy = Mark(Base(m), id, st)
               /\ o.mem \in Mem(HasIds(Ids(Base(m))), 0)
<1> DEFINE z == Mark(Base(m), id, st)
<1>1. st \in Status
  BY DEF Taking, Status
<1>2. Base(m) \in Lists /\ Places(Base(m), id) # {}
  BY FaultsType, PlacesIds
<1>3. After(m, o.mem, 0) /\ (After(m, o.mem, 2) \/ (o.mem.redis = z /\ o.mem.copy = z))
  BY <1>1, <1>2, UpdateCosts
<1>4. Later(Base(m), z)
  BY <1>2, MarkLater
<1> HIDE DEF z
<1>5. z \in Lists /\ Ids(z) = Ids(Base(m))
  BY <1>4 DEF Later, Ids
<1>6. ASSUME o.mem.redis = z, o.mem.copy = z PROVE o.mem \in Mem(HasIds(Ids(Base(m))), 0)
  <2>1. o.mem \in Mem(Lists, 0)
    BY <1>3 DEF After
  <2>2. z # Nothing
    BY <1>5, LoopAssumption DEF Lists, LoopAssumption
  <2>3. Base(o.mem) = z /\ Ids(o.mem.copy) = Ids(o.mem.redis)
    BY <1>6, <2>2 DEF Base
  <2>4. o.mem \in Mem(HasIds(Ids(Base(o.mem))), 0)
    BY <2>1, <2>3, Level
  <2>5. QED
    BY <1>5, <2>3, <2>4
<1>7. QED
  BY <1>3, <1>6 DEF z

(* Both copies keep listing the same tasks up to one fault. *)
LEMMA LevelStep ==
  ASSUME LoopInv, [LoopNext]_loopVars, step \notin Idle, ~Inject, Paired, Faults(memory) <= 1
  PROVE  /\ memory \in Mem(HasIds(Ids(Base(memory))), 0)
         /\ memory.redis # Nothing \/ step \notin {"snapshot", "save"} => memory' \in Mem(HasIds(Ids(Base(memory))), 0)
<1>1. memory \in Mem(Lists, 0)
  BY DEF LoopInv, MemPart
<1>2. memory \in Mem(HasIds(Ids(Base(memory))), 0)
  BY <1>1, Level DEF Paired
<1> DEFINE G == HasIds(Ids(Base(memory)))
<1>3. Shut(G)
  BY ShutSets
<1> HIDE DEF G
<1>4. memory \in Mem(G, 0)
  BY <1>2 DEF G
<1>5. memory.redis # Nothing \/ step \notin {"snapshot", "save"} => memory' \in Mem(G, 0)
  BY <1>3, <1>4, StepShut
<1>6. QED
  BY <1>4, <1>5 DEF G

(* What a step without Inject does where Redis has the record: the copies  *)
(* come to list the same tasks, or stay as they were, or a fault is added. *)
LEMMA StepAlike ==
  ASSUME LoopInv, [LoopNext]_loopVars, step \notin Idle, ~Inject, Viewed, InHand, ~Many
  PROVE  \/ Same(memory, memory') \/ After(memory, memory', 1)
         \/ memory'.redis = memory'.copy
         \/ memory'.redis # Nothing => Ids(memory'.copy) = Ids(memory'.redis)
<1>1. memory \in Mem(Lists, 0)
  BY DEF LoopInv, MemPart
<1>2. Reads \/ Keeps => Same(memory, memory')
  BY <1>1, GetCosts DEF Reads, Keeps, Same
<1>3. memory' \in Unlogged(memory) => After(memory, memory', 1)
  BY <1>1, DownCosts
<1>4. memory' \in SavedAgain(memory) => memory'.redis = memory'.copy \/ After(memory, memory', 1)
  BY <1>1, SavedCosts
<1>5. Updates => memory'.redis = memory'.copy \/ After(memory, memory', 1)
  BY <1>1, StateCosts, AfterSteps DEF Updates
<1>6. ASSUME step \in Viewing, NEW id \in Ids(view), NEW st \in Taking, Takes(id, st)
      PROVE  memory'.redis = memory'.copy \/ After(memory, memory', 1)
  <2>1. id \in Ids(Base(memory))
    BY <1>6 DEF Viewed
  <2>2. QED
    BY <1>1, <1>6, <2>1, MarkedAlike, AfterSteps DEF Takes
<1>7. ASSUME step = "react", Completes
      PROVE  \/ memory'.redis = memory'.copy \/ After(memory, memory', 1)
             \/ memory'.redis # Nothing => Ids(memory'.copy) = Ids(memory'.redis)
  <2> DEFINE X == Ids(Base(memory))
  <2>1. PICK o \in UpdateTask(memory, current.id, "COMPLETE") : memory' = o.mem \/ memory' \in CompleteAny(o.mem)
    BY <1>7 DEF Completes
  <2>2. current.id \in X
    <3>1. memory \in Mem(HasId(current.id), 0)
      BY <1>7 DEF InHand, Holding
    <3>2. HasId(current.id) \in SUBSET Lists
      BY DEF HasId
    <3>3. memory.copy \in HasId(current.id) /\ memory.redis \in HasId(current.id) \cup {Nothing}
      <4> DEFINE G == HasId(current.id)
      <4>1. memory \in Mem(G, 0) /\ G \in SUBSET Lists
        BY <3>1, <3>2
      <4> HIDE DEF G
      <4>2. memory.copy \in G /\ memory.redis \in G \cup {Nothing}
        BY <1>1, <4>1, MemLists
      <4>3. QED
        BY <4>2 DEF G
    <3>4. QED
      BY <3>3 DEF HasId, Base
  <2> HIDE DEF X
  <2>3. /\ After(memory, o.mem, 0)
        /\ After(memory, o.mem, 2) \/ (o.mem.redis = o.mem.copy /\ o.mem \in Mem(HasIds(X), 0))
    BY <1>1, <2>1, <2>2, MarkedAlike DEF Taking, X
  <2>4. o.mem \in Mem(Lists, 0)
    BY <2>3 DEF After
  <2>5. CASE memory' = o.mem
    BY <1>1, <2>3, <2>5, AfterSteps
  <2>6. CASE memory' \in CompleteAny(o.mem)
    <3>1. After(o.mem, memory', 0)
      BY <2>4, <2>6, AnyCosts
    <3>2. After(memory, o.mem, 2) => After(memory, memory', 1)
      BY <1>1, <3>1, AfterSteps
    <3>3. ASSUME o.mem \in Mem(HasIds(X), 0) PROVE memory'.redis # Nothing => Ids(memory'.copy) = Ids(memory'.redis)
      <4>1. Shut(HasIds(X))
        BY ShutSets
      <4>2. memory' \in Mem(HasIds(X), 0)
        BY <2>6, <3>3, <4>1, ShutAccess
      <4>3. QED
        BY <4>2, LevelIds
    <3>4. QED
      BY <2>3, <3>2, <3>3
  <2>7. QED
    BY <2>1, <2>5, <2>6
<1>8. QED
  BY <1>2, <1>3, <1>4, <1>5, <1>6, <1>7, StepKinds

LEMMA PairedStep ==
  ASSUME LoopInv, [LoopNext]_loopVars, step \notin Idle, step' \notin Idle, Paired, Viewed, InHand
  PROVE  Paired'
<1> DEFINE f == Faults(memory)
           g == Faults(memory')
<1>1. memory \in Mem(Lists, 0) /\ memory' \in Mem(Lists, 0) /\ After(memory, memory', 0)
  BY StepAfter DEF LoopInv, MemPart, After
<1>2. f \in Nat /\ g \in Nat /\ g >= f /\ (memory.redis # Nothing => memory'.redis # Nothing)
      /\ \A k \in Nat : After(memory, memory', k) => g >= f + k
  <2>1. f \in Nat /\ g \in Nat
    BY <1>1, FaultsType
  <2>2. g >= f + 0
    BY <1>1 DEF After
  <2>3. QED
    BY <1>1, <2>1, <2>2 DEF After
<1>3. Faults(memory)' = g
  BY DEF Faults
<1> HIDE DEF f, g
<1>4. SUFFICES ASSUME ~UNCHANGED loopVars
               PROVE  /\ memory'.redis = Nothing => g >= 3
                      /\ memory'.redis # Nothing => /\ g <= 1 => Ids(memory'.copy) = Ids(memory'.redis)
                                                    /\ g <= 2 => Ids(memory'.copy) \subseteq Ids(memory'.redis)
  <2>1. CASE UNCHANGED loopVars
    BY <2>1 DEF Paired, Faults, loopVars
  <2>2. CASE ~UNCHANGED loopVars
    <3>1. step' # "snapshot"
      BY <2>2 DEF LoopNext, AgentStep, WritePlan, PublishSnapshot, Scan, Prune, Pruned, NextIteration, CeilingReached,
         CompleteOrphan, Reread, PassOver, TakeTask, Reflect, Prepare, RunTool, Ground, Inject, ReadAgain, Complete,
         Save, CutOff, Idle
    <3>2. g >= 3 => g >= (IF step' = "snapshot" THEN 1 ELSE 3)
      BY <3>1
    <3>3. QED
      BY <1>3, <1>4, <2>2, <3>2 DEF Paired
  <2>3. QED
    BY <2>1, <2>2
<1>5. memory'.copy # Nothing
  BY <1>1, FaultsType, LoopAssumption DEF Lists, LoopAssumption
<1>6. CASE memory.redis = Nothing
  <2>1. CASE step # "snapshot"
    BY <1>2, <1>6, <2>1 DEF Paired, f
  <2>2. CASE step = "snapshot"
    <3>1. f >= 1
      BY <1>6, <2>2 DEF Paired, f
    <3>2. PICK o \in UpdateState(memory, Nothing) : memory' = o.mem
      BY <1>4, <2>2 DEF LoopNext, AgentStep, WritePlan, PublishSnapshot, Scan, Prune, Pruned, NextIteration, CeilingReached,
         CompleteOrphan, Reread, PassOver, TakeTask, Reflect, Prepare, RunTool, Ground, Inject, ReadAgain, Complete,
         Save, CutOff, Idle, Remember
    <3>3. memory'.redis = memory'.copy \/ After(memory, memory', 2)
      BY <1>1, <3>2, StateCosts
    <3>4. After(memory, memory', 2) => g >= 3
      <4>1. After(memory, memory', 2) => g >= f + 2
        BY <1>2
      <4>2. QED
        BY <1>2, <3>1, <4>1
    <3>5. QED
      BY <1>2, <1>5, <3>3, <3>4
  <2>3. QED
    BY <2>1, <2>2
<1>7. CASE memory.redis # Nothing /\ ~Inject
  <2>0. memory'.redis # Nothing
    BY <1>2, <1>7
  <2>1. CASE f <= 1
    <3>1. memory' \in Mem(HasIds(Ids(Base(memory))), 0)
      BY <1>7, <2>1, LevelStep DEF f
    <3>2. Ids(memory'.copy) = Ids(memory'.redis)
      BY <2>0, <3>1, LevelIds
    <3>3. QED
      BY <2>0, <3>2
  <2>2. CASE g >= 3
    BY <1>2, <2>0, <2>2
  <2>3. CASE f = 2 /\ g = 2
    <3>1. ~Many
      BY <2>3 DEF Many, f
    <3>2. ~After(memory, memory', 1)
      BY <1>2, <2>3
    <3>3. Ids(memory'.copy) \subseteq Ids(memory'.redis)
      <4>1. Ids(memory.copy) \subseteq Ids(memory.redis)
        BY <1>7, <2>3 DEF Paired, f
      <4>2. Same(memory, memory') => Ids(memory'.copy) \subseteq Ids(memory'.redis)
        BY <4>1 DEF Same
      <4>3. memory'.redis = memory'.copy => Ids(memory'.copy) = Ids(memory'.redis)
        OBVIOUS
      <4>4. \/ Same(memory, memory') \/ memory'.redis = memory'.copy \/ Ids(memory'.copy) = Ids(memory'.redis)
        BY <1>7, <2>0, <3>1, <3>2, StepAlike
      <4>5. QED
        BY <4>2, <4>3, <4>4
    <3>4. QED
      BY <2>0, <2>3, <3>3
  <2>4. QED
    BY <1>2, <2>1, <2>2, <2>3
<1>8. CASE memory.redis # Nothing /\ Inject
  <2>0. memory'.redis # Nothing
    BY <1>2, <1>8
  <2>1. CASE Reads
    <3>1. Same(memory, memory')
      BY <1>1, <2>1, GetCosts DEF Reads
    <3>2. QED
      BY <1>2, <1>8, <3>1 DEF Same, Paired, f
  <2>2. ASSUME NEW o \in GetState(memory), NEW e \in Task, NEW c \in CreateTask(o.mem, e), memory' = c.mem
        PROVE  /\ g <= 1 => Ids(memory'.copy) = Ids(memory'.redis)
               /\ g <= 2 => Ids(memory'.copy) \subseteq Ids(memory'.redis)
    <3>1. Same(memory, o.mem) /\ After(memory, o.mem, 0) /\ o.mem \in Mem(Lists, 0)
      BY <1>1, <2>2, GetCosts DEF After
    <3>2. o.mem.redis = memory.redis /\ o.mem.copy = memory.copy
      BY <3>1 DEF Same
    <3>3. \/ memory'.redis = memory'.copy
          \/ After(o.mem, memory', 2) /\ memory'.copy = memory.copy /\ memory'.redis \in {memory.redis, Append(memory.redis, e)}
          \/ After(o.mem, memory', 3)
      BY <1>8, <2>2, <3>1, <3>2, CreateCosts
    <3>4. /\ After(o.mem, memory', 2) => After(memory, memory', 2)
          /\ After(o.mem, memory', 3) => g >= 3
      <4>1. After(o.mem, memory', 2) => After(memory, memory', 2)
        BY <1>1, <3>1, AfterSteps
      <4>2. After(o.mem, memory', 3) => After(memory, memory', 3)
        BY <1>1, <3>1, AfterBoth
      <4>3. After(memory, memory', 3) => g >= f + 3
        BY <1>2
      <4>4. QED
        BY <1>2, <4>1, <4>2, <4>3
    <3>5. ASSUME After(memory, memory', 2), memory'.copy = memory.copy,
                 memory'.redis \in {memory.redis, Append(memory.redis, e)}, g <= 2
          PROVE  g > 1 /\ Ids(memory'.copy) \subseteq Ids(memory'.redis)
      <4>1. g >= f + 2
        BY <1>2, <3>5
      <4>2. f = 0 /\ g > 1
        BY <1>2, <3>5, <4>1
      <4>3. Ids(memory.copy) = Ids(memory.redis) /\ memory.redis \in Lists
        BY <1>1, <1>8, <4>2, FaultsType DEF Paired, f
      <4>4. Ids(memory.redis) \subseteq Ids(memory'.redis)
        BY <3>5, <4>3, Appended
      <4>5. QED
        BY <3>5, <4>2, <4>3, <4>4
    <3>6. QED
      BY <1>2, <3>3, <3>4, <3>5
  <2>3. QED
    BY <1>8, <2>0, <2>1, <2>2, InjectKinds
<1>9. QED
  BY <1>6, <1>7, <1>8

(* What the step does to the faults, in figures. *)
LEMMA FaultsOfStep ==
  ASSUME LoopInv, [LoopNext]_loopVars, step \notin Idle
  PROVE  /\ Faults(memory) \in Nat /\ Faults(memory') \in Nat /\ Faults(memory') >= Faults(memory)
         /\ Many' <=> Faults(memory') > 3
         /\ \A k \in Nat : After(memory, memory', k) => Faults(memory') >= Faults(memory) + k
<1>1. Faults(memory)' = Faults(memory')
  BY DEF Faults
<1>2. QED
  BY <1>1, ExcusedStays DEF Many, After

(* A list that was read. *)
LEMMA ViewRead ==
  ASSUME LoopInv, [LoopNext]_loopVars, step \notin Idle \cup Holding, Paired, Rested,
         NEW o \in GetState(memory), memory' = o.mem, view' = o.got, o.got # Broken, runsOf' = runsOf
  PROVE  /\ ~Many' => Ids(view') \subseteq Ids(Base(memory'))
         /\ Fresh'
<1>1. memory \in Mem(Lists, 0)
  BY DEF LoopInv, MemPart
<1>2. /\ Same(memory, memory') /\ (view' = Base(memory) \/ After(memory, memory', 1))
      /\ view' \in {Nothing, memory.copy, memory.redis} /\ view' \in Lists
  BY <1>1, GetCosts DEF Broken
<1>3. Base(memory') = Base(memory)
  BY <1>2 DEF Same, Base
<1>4. ASSUME ~Many' PROVE Ids(view') \subseteq Ids(Base(memory))
  <2>1. CASE view' = Base(memory)
    BY <2>1
  <2>2. CASE After(memory, memory', 1) /\ view' # Base(memory)
    <3>1. Faults(memory) <= 2
      <4>1. Faults(memory') >= Faults(memory) + 1
        BY <2>2, FaultsOfStep
      <4>2. QED
        BY <1>4, <4>1, FaultsOfStep
    <3>2. view' # Nothing
      BY <1>2, LoopAssumption DEF Lists, LoopAssumption
    <3>3. memory.redis # Nothing /\ view' = memory.copy /\ Base(memory) = memory.redis
      BY <1>2, <2>2, <3>2 DEF Base
    <3>4. QED
      BY <3>1, <3>3 DEF Paired
  <2>3. QED
    BY <1>2, <2>1, <2>2
<1>5. ASSUME NEW i \in DOMAIN view', view'[i].status = "PENDING", runsOf[view'[i].what] # 0
      PROVE  view'[i].what \in doubled' \/ Many'
  <2> DEFINE t == view'[i].what
  <2>1. t \in Tasks /\ runsOf[t] > 0
    <3>1. view'[i] \in Task
      BY <1>2 DEF Lists
    <3>2. t \in Tasks
      BY <3>1, StepNames
    <3>3. runsOf[t] \in Nat
      BY <3>2, LoopAssumption DEF LoopInv, ControlPart, LoopAssumption
    <3>4. QED
      BY <1>5, <3>2, <3>3
  <2>2. PICK x \in Tasks : x = t
    BY <2>1
  <2>3. Excused(x) \/ Known(Settled(x))
    BY <2>1, <2>2 DEF Rested
  <2>4. ~Known(Settled(x))
    <3>1. ASSUME memory \in Mem(Settled(x), 0) PROVE FALSE
      <4>1. Shut(Settled(x))
        BY ShutSets
      <4>2. o.got \in Settled(x) \cup {Nothing}
        BY <3>1, <4>1, ShutAccess
      <4>3. view' \in Settled(x)
        BY <4>2 DEF Broken
      <4>4. QED
        BY <1>5, <2>2, <4>3 DEF Settled
    <3>2. QED
      BY <3>1 DEF Known
  <2>5. QED
    BY <2>2, <2>3, <2>4, ExcusedStays
<1>6. Fresh'
  BY <1>5 DEF Fresh, Excused
<1>7. QED
  BY <1>3, <1>4, <1>6

LEMMA ViewedStep ==
  ASSUME LoopInv, [LoopNext]_loopVars, step \notin Idle, Paired, Viewed, Rested
  PROVE  Viewed'
<1>1. memory \in Mem(Lists, 0) /\ view \in Lists
  BY DEF LoopInv, MemPart, ControlPart, Lists
<1>2. CASE UNCHANGED loopVars
  BY <1>2 DEF Viewed, Fresh, Many, Excused, Faults, Base, Ids, loopVars
<1>3. ASSUME NEW o \in GetState(memory), memory' = o.mem, view' = o.got, o.got # Broken, runsOf' = runsOf, step \notin Holding
      PROVE  Viewed'
  BY <1>3, ViewRead DEF Viewed
<1>4. CASE Scan \/ NextIteration \/ ReadAgain
  <2>1. PICK o \in GetState(memory) : memory' = o.mem /\ ((o.got = Broken /\ step' \notin Viewing) \/ (o.got # Broken /\ view' = o.got))
    BY <1>4 DEF Scan, NextIteration, ReadAgain, Remember, Viewing
  <2>2. runsOf' = runsOf /\ step \notin Holding
    BY <1>4 DEF Scan, NextIteration, ReadAgain, Holding
  <2>3. CASE step' \notin Viewing
    BY <2>3 DEF Viewed, Viewing
  <2>4. QED
    BY <1>3, <2>1, <2>2, <2>3
<1>5. CASE Reread
  <2>1. PICK o \in GetState(memory) : memory' = o.mem /\ view' = IF o.got = Broken THEN view ELSE o.got
    BY <1>5 DEF Reread, Remember
  <2>2. runsOf' = runsOf /\ step = "orphans"
    BY <1>5 DEF Reread
  <2>3. CASE o.got = Broken
    <3>1. view' = view /\ Base(memory') = Base(memory)
      BY <1>1, <2>1, <2>3, GetCosts DEF Same, Base
    <3>2. ~Many' => Ids(view') \subseteq Ids(Base(memory'))
      BY <2>2, <3>1, ExcusedStays DEF Viewed, Viewing
    <3>3. Fresh'
      <4>1. ASSUME NEW i \in DOMAIN view, view[i].status = "PENDING", runsOf[view[i].what] # 0
            PROVE  view[i].what \in doubled' \/ Many'
        BY <2>2, <4>1, ExcusedStays DEF Viewed, Fresh
      <4>2. QED
        BY <2>2, <3>1, <4>1 DEF Fresh, Excused
    <3>4. QED
      BY <3>2, <3>3 DEF Viewed
  <2>4. CASE o.got # Broken
    BY <1>3, <2>1, <2>2, <2>4 DEF Holding
  <2>5. QED
    BY <2>3, <2>4
(* A task that the view has is marked: the memory lists what it listed. *)
<1>6. ASSUME step \in Viewing, ~Inject, NEW id \in Ids(view), NEW st \in Taking, Takes(id, st), Ids(view') = Ids(view), ~Many'
      PROVE  Ids(view') \subseteq Ids(Base(memory'))
  <2> DEFINE X == Ids(Base(memory))
  <2>1. Ids(view) \subseteq X
    BY <1>6, ExcusedStays DEF Viewed
  <2>2. PICK o \in UpdateTask(memory, id, st) : memory' = o.mem
    BY <1>6 DEF Takes
  <2>3. After(memory, memory', 2) \/ memory' \in Mem(HasIds(X), 0)
    BY <1>1, <1>6, <2>1, <2>2, MarkedAlike
  <2>4. ASSUME After(memory, memory', 2) PROVE memory' \in Mem(HasIds(X), 0)
    <3>1. Faults(memory) <= 1
      <4>1. Faults(memory') >= Faults(memory) + 2
        BY <2>4, FaultsOfStep
      <4>2. QED
        BY <1>6, <4>1, FaultsOfStep
    <3>2. step \notin {"snapshot", "save"}
      BY <1>6 DEF Viewing
    <3>3. QED
      BY <1>6, <3>1, <3>2, LevelStep
  <2> HIDE DEF X
  <2>5. Ids(Base(memory')) = X
    BY <2>3, <2>4, LevelIds
  <2>6. QED
    BY <1>6, <2>1, <2>5
<1>7. CASE Prune
  <2>1. PICK i \in Prunable : /\ Takes(view[i].id, "COMPLETE") /\ view' = MarkedAt(view, i, "COMPLETE")
                              /\ step = "prune" /\ step' \in {"head", "prune"}
    BY <1>7 DEF Prune, Takes, Remember, MarkedAt
  <2>2. i \in DOMAIN view /\ view[i].id \in Ids(view)
    BY <2>1 DEF Prunable, Ids
  <2>3. Ids(view') = Ids(view)
    <3> DEFINE r == MarkedAt(view, i, "COMPLETE")
    <3>0. view \in Seq(Task) /\ "COMPLETE" \in Status
      BY <1>1 DEF Lists, Status
    <3>1. DOMAIN r = DOMAIN view /\ \A j \in DOMAIN view : r[j].id = view[j].id
      BY <2>2, <3>0, MarkedEntry
    <3> HIDE DEF r
    <3>2. view' = r
      BY <2>1 DEF r
    <3>3. QED
      BY <3>1, <3>2 DEF Ids
  <2>4. step \in Viewing /\ ~Inject /\ "COMPLETE" \in Taking
    BY <2>1 DEF Viewing, Inject, Taking
  <2>5. ~Many' => Ids(view') \subseteq Ids(Base(memory'))
    BY <1>6, <2>1, <2>2, <2>3, <2>4
  <2>6. QED
    BY <2>1, <2>5 DEF Viewed
<1>8. CASE CompleteOrphan
  <2> DEFINE id == First(view, "IN_PROGRESS").id
  <2>1. Takes(id, "COMPLETE") /\ view' = Mark(view, id, "COMPLETE") /\ step = "orphans" /\ runsOf' = runsOf
        /\ First(view, "IN_PROGRESS") # NoTask
    BY <1>8 DEF CompleteOrphan, Takes, Remember
  <2>2. id \in Ids(view) /\ Places(view, id) # {}
    <3>1. \E i \in DOMAIN view : First(view, "IN_PROGRESS") = view[i]
      BY <1>1, <2>1, FirstOne DEF Lists
    <3>2. id \in Ids(view)
      BY <3>1 DEF Ids
    <3>3. QED
      BY <3>2, PlacesIds
  <2>3. step \in Viewing /\ ~Inject /\ "COMPLETE" \in Taking
    BY <2>1 DEF Viewing, Inject, Taking
  <2>4. Later(view, view')
    BY <1>1, <2>1, <2>2, <2>3, MarkLater
  <2>5. Ids(view') = Ids(view)
    BY <2>4 DEF Later, Ids
  <2> HIDE DEF id
  <2>6. ~Many' => Ids(view') \subseteq Ids(Base(memory'))
    BY <1>6, <2>1, <2>2, <2>3, <2>5
  <2>7. Fresh'
    <3>1. ASSUME NEW i \in DOMAIN view', view'[i].status = "PENDING", runsOf[view'[i].what] # 0
          PROVE  view'[i].what \in doubled' \/ Many'
      <4>1. i \in DOMAIN view /\ view[i].what = view'[i].what
        BY <2>4, <3>1 DEF Later
      <4>2. view[i].status = "PENDING"
        BY <2>4, <3>1, <4>1 DEF Later
      <4>3. QED
        BY <2>1, <3>1, <4>1, <4>2, ExcusedStays DEF Viewed, Fresh
    <3>2. QED
      BY <2>1, <3>1 DEF Fresh, Excused
  <2>8. QED
    BY <2>6, <2>7 DEF Viewed
<1>9. ASSUME ~(UNCHANGED loopVars \/ Scan \/ NextIteration \/ ReadAgain \/ Reread \/ Prune \/ CompleteOrphan)
      PROVE  step' \notin Viewing
  BY <1>9 DEF LoopNext, AgentStep, WritePlan, PublishSnapshot, Pruned, CeilingReached, PassOver, TakeTask, Reflect,
     Prepare, RunTool, Ground, Inject, Complete, Save, CutOff, Viewing
<1>10. step' \notin Viewing => Viewed'
  BY DEF Viewed, Viewing
<1>11. QED
  BY <1>2, <1>4, <1>5, <1>7, <1>8, <1>9, <1>10

(* Inject appends only what the list it read does not name. *)
LEMMA InjectShut ==
  ASSUME LoopInv, Inject, NEW G, Shut(G), memory \in Mem(G, 0),
         (\E s \in G : Head(wanted) \notin Named(s)) => \A x \in G : Append(x, New(made + 1, Head(wanted))) \in G
  PROVE  memory' \in Mem(G, 0)
<1>1. Reads => memory' \in Mem(G, 0)
  BY ShutAccess DEF Reads
<1>2. ASSUME NEW o \in GetState(memory), o.got # Broken, Head(wanted) \notin Named(o.got),
             NEW c \in CreateTask(o.mem, New(made + 1, Head(wanted))), memory' = c.mem
      PROVE  memory' \in Mem(G, 0)
  <2> DEFINE e == New(made + 1, Head(wanted))
  <2>1. o.mem \in Mem(G, 0) /\ o.got \in G
    BY <1>2, ShutAccess DEF Broken
  <2>2. \A x \in G : Append(x, e) \in G
    BY <1>2, <2>1
  <2>3. G \in SUBSET Seq(Task) /\ 0 \in Nat
    BY DEF Shut, Lists
  <2> HIDE DEF e
  <2>4. CreateTask(o.mem, e) \subseteq Out(G, 0)
    BY <2>1, <2>2, <2>3, CreateTaskOut
  <2>5. c \in Out(G, 0)
    BY <1>2, <2>4 DEF e
  <2>6. QED
    BY <1>2, <2>5 DEF Out
<1>3. QED
  BY <1>1, <1>2, InjectKinds

(* A task that both copies have settled stays settled in both. *)
LEMMA SettledStays ==
  ASSUME LoopInv, [LoopNext]_loopVars, step \notin Idle, NEW t, Known(Settled(t))
  PROVE  memory' \in Mem(Settled(t), 0) /\ memory'.redis # Nothing
<1> DEFINE G == Settled(t)
<1>1. Shut(G) /\ memory \in Mem(G, 0) /\ memory.redis # Nothing
  BY ShutSets DEF Known
<1>2. memory'.redis # Nothing
  BY <1>1, StepAfter DEF After
<1>3. CASE Inject
  <2> DEFINE e == New(made + 1, Head(wanted))
  <2>1. e \in Task /\ e.what = Head(wanted)
    <3>1. Head(wanted) \in Tasks /\ made + 1 \in Nat
      BY <1>3 DEF Inject, LoopInv, ControlPart
    <3>2. QED
      BY <3>1, StepNames DEF New
  <2> HIDE DEF e
  <2>2. ASSUME NEW s \in G, Head(wanted) \notin Named(s), NEW x \in G PROVE Append(x, e) \in G
    <3>1. t # e.what
      BY <2>1, <2>2 DEF Settled
    <3>2. x \in Lists
      BY <2>2 DEF Settled
    <3>3. QED
      BY <2>1, <2>2, <3>1, <3>2, Appended
  <2> HIDE DEF G
  <2>3. (\E s \in G : Head(wanted) \notin Named(s)) => \A x \in G : Append(x, New(made + 1, Head(wanted))) \in G
    BY <2>2 DEF e
  <2>4. memory' \in Mem(G, 0)
    BY <1>1, <1>3, <2>3, InjectShut
  <2>5. QED
    BY <1>2, <2>4 DEF G
<1>4. CASE ~Inject
  <2> HIDE DEF G
  <2>1. memory' \in Mem(G, 0)
    BY <1>1, <1>4, StepShut
  <2>2. QED
    BY <1>2, <2>1 DEF G
<1>5. QED
  BY <1>3, <1>4

LEMMA HasIdStays ==
  ASSUME LoopInv, [LoopNext]_loopVars, step \in Holding, NEW c, memory \in Mem(HasId(c), 0)
  PROVE  memory' \in Mem(HasId(c), 0)
<1> DEFINE G == HasId(c)
<1>1. Shut(G) /\ memory \in Mem(G, 0) /\ step \notin Idle \cup {"snapshot", "save"}
  BY ShutSets DEF Holding, Idle
<1>2. CASE Inject
  <2>1. New(made + 1, Head(wanted)) \in Task
    <3>1. Head(wanted) \in Tasks /\ made + 1 \in Nat
      BY <1>2 DEF Inject, LoopInv, ControlPart
    <3>2. QED
      BY <3>1, StepNames
  <2>2. ASSUME NEW x \in G PROVE Append(x, New(made + 1, Head(wanted))) \in G
    <3>1. x \in Lists
      BY <2>2 DEF HasId
    <3>2. QED
      BY <2>1, <2>2, <3>1, Appended
  <2> HIDE DEF G
  <2>3. memory' \in Mem(G, 0)
    BY <1>1, <1>2, <2>2, InjectShut
  <2>4. QED
    BY <2>3 DEF G
<1>3. CASE ~Inject
  <2> HIDE DEF G
  <2>1. memory' \in Mem(G, 0)
    BY <1>1, <1>3, StepShut
  <2>2. QED
    BY <2>1 DEF G
<1>4. QED
  BY <1>2, <1>3

(* Lists of the same identifiers have what is one of them. *)
LEMMA HasOne ==
  ASSUME NEW X, NEW c \in X, NEW m \in Mem(HasIds(X), 0)
  PROVE  m \in Mem(HasId(c), 0)
<1> DEFINE G == HasId(c)
<1>1. m \in Mem(Lists, 0) /\ Ids(m.copy) = X /\ (m.redis # Nothing => Ids(m.redis) = X)
  BY LevelIds
<1>2. m.copy \in G /\ m.redis \in G \cup {Nothing} /\ G \in SUBSET Lists
  BY <1>1, FaultsType DEF HasId
<1> HIDE DEF G
<1>3. m \in Mem(G, 0)
  BY <1>1, <1>2, MemLists
<1>4. QED
  BY <1>3 DEF G

(* What the identifiers stand for. *)
LEMMA IdsTell ==
  ASSUME LoopInv, PlanInv, step \notin Idle
  PROVE  \E N : /\ \A i \in DOMAIN Base(memory) : Base(memory)[i].what = N[Base(memory)[i].id]
                /\ \A i \in DOMAIN view : view[i].what = N[view[i].id]
                /\ step \in Holding => current.what = N[current.id]
<1>1. PICK N \in [1 .. made -> Tasks] : Follows(N)
  BY DEF PlanInv
<1>2. Base(memory) \in Good(N, made, Taken, Owed)
  <2> DEFINE G == Good(N, made, Taken, Owed)
  <2>1. memory \in Mem(G, memory.losses)
    BY <1>1 DEF Follows
  <2> HIDE DEF G
  <2>2. Base(memory) \in G
    BY <2>1 DEF Mem, Base
  <2>3. QED
    BY <2>2 DEF G
<1>3. QED
  BY <1>1, <1>2 DEF Follows, Good

(* Both copies are the same list, in which the task was just taken up. *)
LEMMA JustTaken ==
  ASSUME NEW m \in Mem(Lists, 0), Remember(m), NEW t \in Tasks, m.redis = m.copy,
         m.copy \in Settled(t) \cup Twofold(t)
  PROVE  t \in doubled' \/ (m \in Mem(Settled(t), 0) /\ m.redis # Nothing)
<1>1. CASE m.copy \in Settled(t)
  <2> DEFINE G == Settled(t)
  <2>1. G \in SUBSET Lists /\ m.copy \in G /\ m.redis \in G
    BY <1>1 DEF Settled
  <2> HIDE DEF G
  <2>2. m \in Mem(G, 0)
    BY <2>1, MemLists
  <2>3. m.redis # Nothing
    BY <2>1, LoopAssumption DEF Lists, LoopAssumption
  <2>4. QED
    BY <2>2, <2>3 DEF G
<1>2. CASE m.copy \in Twofold(t)
  <2>1. Cardinality({i \in DOMAIN m.copy : m.copy[i].what = t}) > 1
    BY <1>2, TwiceCounted
  <2>2. t \in doubled'
    BY <2>1 DEF Remember
  <2>3. QED
    BY <2>2
<1>3. QED
  BY <1>1, <1>2

LEMMA TakenInHand ==
  ASSUME LoopInv, PlanInv, TakeTask, Paired, Viewed
  PROVE  InHand'
<1>0. [LoopNext]_loopVars /\ step = "choose" /\ step \notin Idle /\ ~Inject
  BY DEF LoopNext, AgentStep, TakeTask, Idle, Inject
<1>1. memory \in Mem(Lists, 0) /\ view \in Seq(Task) /\ runsOf \in [Tasks -> 0 .. Ceiling]
  BY DEF LoopInv, MemPart, ControlPart
<1>2. PICK t : t = First(view, "PENDING")
  OBVIOUS
<1>3. PICK i \in DOMAIN view : t = view[i] /\ view[i].status = "PENDING"
  BY <1>1, <1>2, FirstOne DEF TakeTask
<1>4. t \in Task /\ t.what \in Tasks /\ t.id \in Ids(view)
  <2>1. view[i] \in Task
    BY <1>1
  <2>2. QED
    BY <1>3, <2>1, StepNames DEF Ids
<1>5. PICK o \in UpdateTask(memory, t.id, "IN_PROGRESS") : Remember(o.mem)
  BY <1>2 DEF TakeTask
<1>6. memory' = o.mem /\ step' = "prepare" /\ current' = t /\ runsOf' = runsOf
  BY <1>2, <1>5 DEF TakeTask, Remember
<1>7. runsOf[t.what] = 0 \/ t.what \in doubled' \/ Many'
  <2>1. runsOf[t.what] = 0 \/ Excused(t.what)
    BY <1>0, <1>3 DEF Viewed, Fresh
  <2>2. QED
    BY <1>0, <2>1, ExcusedStays
<1> DEFINE X == Ids(Base(memory))
<1>8. ~Many => t.id \in X
  BY <1>0, <1>4 DEF Viewed, Viewing
<1>9. ASSUME ~Many
      PROVE  \/ After(memory, memory', 2)
             \/ /\ memory'.redis = Mark(Base(memory), t.id, "IN_PROGRESS")
                /\ memory'.copy = Mark(Base(memory), t.id, "IN_PROGRESS")
                /\ memory' \in Mem(HasIds(X), 0)
  BY <1>1, <1>5, <1>6, <1>8, <1>9, MarkedAlike DEF Taking
<1> HIDE DEF X
<1>10. ASSUME ~Many' PROVE memory' \in Mem(HasId(t.id), 0)
  <2>1. ~Many
    BY <1>0, <1>10, ExcusedStays
  <2>2. ASSUME After(memory, memory', 2) PROVE memory' \in Mem(HasIds(X), 0)
    <3>1. Faults(memory) <= 1
      <4>1. Faults(memory') >= Faults(memory) + 2
        BY <1>0, <2>2, FaultsOfStep
      <4>2. QED
        BY <1>0, <1>10, <4>1, FaultsOfStep
    <3>2. QED
      BY <1>0, <3>1, LevelStep DEF X
  <2>3. memory' \in Mem(HasIds(X), 0) /\ t.id \in X
    BY <1>8, <1>9, <2>1, <2>2
  <2>4. QED
    BY <2>3, HasOne
<1>11. ASSUME Faults(memory') < 2
       PROVE  t.what \in doubled' \/ (memory' \in Mem(Settled(t.what), 0) /\ memory'.redis # Nothing)
  <2>1. Faults(memory) \in Nat /\ Faults(memory') \in Nat /\ Faults(memory) < 2 /\ ~Many /\ ~After(memory, memory', 2)
    <3>1. /\ Faults(memory) \in Nat /\ Faults(memory') \in Nat /\ Faults(memory') >= Faults(memory)
          /\ After(memory, memory', 2) => Faults(memory') >= Faults(memory) + 2
      BY <1>0, FaultsOfStep
    <3>2. Faults(memory) < 2 /\ ~ (Faults(memory') >= Faults(memory) + 2)
      BY <1>11, <3>1
    <3>3. QED
      BY <3>1, <3>2 DEF Many
  <2>2. PICK N : /\ \A j \in DOMAIN Base(memory) : Base(memory)[j].what = N[Base(memory)[j].id]
                 /\ \A j \in DOMAIN view : view[j].what = N[view[j].id]
    BY <1>0, IdsTell
  <2>3. \A j \in DOMAIN Base(memory) : Base(memory)[j].id = t.id => Base(memory)[j].what = t.what
    BY <1>3, <2>2
  <2>4. Base(memory) \in Lists /\ Places(Base(memory), t.id) # {} /\ "IN_PROGRESS" \in Taking
    BY <1>1, <1>8, <2>1, FaultsType, PlacesIds DEF X, Taking
  <2>5. Mark(Base(memory), t.id, "IN_PROGRESS") \in Settled(t.what) \cup Twofold(t.what)
    BY <2>3, <2>4, TakenUp
  <2>6. memory'.redis = memory'.copy /\ memory'.copy \in Settled(t.what) \cup Twofold(t.what)
    BY <1>9, <2>1, <2>5
  <2>7. o.mem \in Mem(Lists, 0)
    BY <1>0, <1>6, StepAfter DEF After
  <2>8. QED
    BY <1>4, <1>5, <1>6, <2>6, <2>7, JustTaken
<1>12. Faults(memory') \in Nat
  BY <1>0, FaultsOfStep
<1>13. t.what \in doubled' \/ Faults(memory') >= 2 \/ (memory' \in Mem(Settled(t.what), 0) /\ memory'.redis # Nothing)
  BY <1>11, <1>12
<1>14. QED
  BY <1>6, <1>7, <1>10, <1>13 DEF InHand, Known, Excused, Faults

LEMMA InHandStep ==
  ASSUME LoopInv, PlanInv, [LoopNext]_loopVars, step \notin Idle, Paired, Viewed, InHand
  PROVE  InHand'
<1>1. CASE TakeTask
  BY <1>1, TakenInHand
<1>2. CASE step \in Holding /\ step' \in Holding /\ current' = current /\ (step' \in {"prepare", "run"} => runsOf' = runsOf)
  <2>1. PICK t : t = current
    OBVIOUS
  <2>2. ~Many' => memory' \in Mem(HasId(t.id), 0)
    <3>1. ~Many' => memory \in Mem(HasId(t.id), 0)
      BY <1>2, <2>1, ExcusedStays DEF InHand
    <3>2. QED
      BY <1>2, <3>1, HasIdStays
  <2>3. t.what \in doubled' \/ Faults(memory') >= 2 \/ (memory' \in Mem(Settled(t.what), 0) /\ memory'.redis # Nothing)
    <3>1. t.what \in doubled \/ Faults(memory) >= 2 \/ Known(Settled(t.what))
      BY <1>2, <2>1 DEF InHand
    <3>2. t.what \in doubled => t.what \in doubled'
      BY ExcusedStays
    <3>3. Faults(memory) >= 2 => Faults(memory') >= 2
      <4>1. Faults(memory) \in Nat /\ Faults(memory') \in Nat /\ Faults(memory') >= Faults(memory)
        BY FaultsOfStep
      <4>2. QED
        BY <4>1
    <3>4. Known(Settled(t.what)) => memory' \in Mem(Settled(t.what), 0) /\ memory'.redis # Nothing
      BY SettledStays
    <3>5. QED
      BY <3>1, <3>2, <3>3, <3>4
  <2>4. step' \in {"prepare", "run"} => runsOf'[t.what] = 0 \/ t.what \in doubled' \/ Many'
    <3>1. ASSUME step' \in {"prepare", "run"} PROVE step \in {"prepare", "run"} /\ runsOf' = runsOf
      BY <1>2, <3>1 DEF LoopNext, AgentStep, WritePlan, PublishSnapshot, Scan, Prune, Pruned, NextIteration, CeilingReached,
         CompleteOrphan, Reread, PassOver, TakeTask, Reflect, Prepare, RunTool, Ground, Inject, ReadAgain, Complete,
         Save, CutOff, loopVars, Holding
    <3>2. step \in {"prepare", "run"} => runsOf[t.what] = 0 \/ Excused(t.what)
      BY <1>2, <2>1 DEF InHand
    <3>3. QED
      BY <3>1, <3>2, ExcusedStays
  <2>5. current' = t
    BY <1>2, <2>1
  <2>6. QED
    BY <2>2, <2>3, <2>4, <2>5 DEF InHand, Known, Excused, Faults
<1>3. ASSUME step' \in Holding, ~TakeTask
      PROVE  step \in Holding /\ current' = current /\ (step' \in {"prepare", "run"} => runsOf' = runsOf)
  BY <1>3 DEF LoopNext, AgentStep, WritePlan, PublishSnapshot, Scan, Prune, Pruned, NextIteration, CeilingReached,
     CompleteOrphan, Reread, PassOver, Reflect, Prepare, RunTool, Ground, Inject, ReadAgain, Complete,
     Save, CutOff, loopVars, Holding
<1>4. step' \notin Holding => InHand'
  BY DEF InHand, Holding
<1>5. QED
  BY <1>1, <1>2, <1>3, <1>4

(* What is put down is marked in both copies, or was appended twice, or    *)
(* there were four faults: marking it failed for two, after two others.    *)
LEMMA PutDown ==
  ASSUME LoopInv, PlanInv, Complete, InHand, NEW t \in Tasks, t = current.what
  PROVE  t \in doubled' \/ Many' \/ (memory' \in Mem(Settled(t), 0) /\ memory'.redis # Nothing)
<1>0. [LoopNext]_loopVars /\ step = "react" /\ step \notin Idle /\ step \in Holding
  BY DEF LoopNext, AgentStep, Complete, Idle, Holding
<1>1. memory \in Mem(Lists, 0)
  BY DEF LoopInv, MemPart
<1>2. CASE t \in doubled
  BY <1>0, <1>2, ExcusedStays
<1>3. CASE Known(Settled(t))
  BY <1>0, <1>3, SettledStays
<1>4. CASE Many
  BY <1>0, <1>4, ExcusedStays
<1>5. CASE Faults(memory) >= 2 /\ ~Many
  <2> DEFINE B == Base(memory)
  <2>1. PICK c : c = current.id
    OBVIOUS
  <2>2. PICK o \in UpdateTask(memory, c, "COMPLETE") :
          \E m \in (IF o.got = Broken THEN CompleteAny(o.mem) ELSE {o.mem}) : Remember(m)
    BY <2>1 DEF Complete
  <2>3. PICK m : Remember(m) /\ (m = o.mem \/ m \in CompleteAny(o.mem))
    BY <2>2
  <2>4. memory' = m /\ B \in Lists /\ "COMPLETE" \in Taking
    BY <1>1, <2>3, FaultsType DEF Remember, Taking
  <2>5. c \in Ids(B)
    <3> DEFINE G == HasId(c)
    <3>1. memory \in Mem(G, 0) /\ G \in SUBSET Lists
      BY <1>0, <1>5, <2>1 DEF InHand, HasId
    <3> HIDE DEF G
    <3>2. memory.copy \in G /\ memory.redis \in G \cup {Nothing}
      BY <1>1, <3>1, MemLists
    <3>3. B \in G
      BY <3>2 DEF Base
    <3>4. QED
      BY <3>3 DEF G, HasId
  <2> DEFINE z == Mark(B, c, "COMPLETE")
  <2>6. z \in Settled(t) \cup Twofold(t)
    <3>1. PICK N : /\ \A j \in DOMAIN B : B[j].what = N[B[j].id]
                   /\ step \in Holding => current.what = N[current.id]
      BY <1>0, IdsTell
    <3>2. \A j \in DOMAIN B : B[j].id = c => B[j].what = t
      BY <1>0, <2>1, <3>1
    <3>3. Places(B, c) # {}
      BY <2>5, PlacesIds
    <3> HIDE DEF B
    <3>4. QED
      BY <2>4, <3>2, <3>3, TakenUp
  <2>7. After(memory, o.mem, 0) /\ (After(memory, o.mem, 2) \/ (o.mem.redis = z /\ o.mem.copy = z))
    BY <1>1, <2>2, <2>4, <2>5, MarkedAlike
  <2> HIDE DEF z, B
  <2>8. o.mem \in Mem(Lists, 0) /\ After(o.mem, m, 0)
    BY <2>3, <2>7, AnyCosts, AfterSelf DEF After
  <2>9. ASSUME After(memory, o.mem, 2) PROVE Many'
    <3>1. After(memory, m, 2)
      BY <1>1, <2>8, <2>9, AfterSteps
    <3>2. Faults(memory') >= Faults(memory) + 2
      BY <1>0, <2>4, <3>1, FaultsOfStep
    <3>3. Faults(memory) \in Nat /\ Faults(memory') \in Nat
      BY <1>0, FaultsOfStep
    <3>4. Faults(memory') > 3
      BY <1>5, <3>2, <3>3
    <3>5. QED
      BY <1>0, <3>4, FaultsOfStep
(* Whatever set of lists has the marked one has those of both copies. *)
  <2>10. ASSUME o.mem.redis = z, o.mem.copy = z, NEW G, G = Settled(t) \/ G = Twofold(t), z \in G
         PROVE  m \in Mem(G, 0) /\ m.copy \in G
    <3>1. Shut(G) /\ G \in SUBSET Lists
      BY <2>10, ShutSets DEF Shut
    <3>2. o.mem \in Mem(G, 0)
      BY <2>8, <2>10, <3>1, MemLists
    <3>3. m \in Mem(G, 0)
      BY <2>3, <3>1, <3>2, ShutAccess
    <3>4. QED
      BY <3>1, <3>3, MemLists
  <2>11. ASSUME o.mem.redis = z, o.mem.copy = z, z \in Settled(t)
         PROVE  memory' \in Mem(Settled(t), 0) /\ memory'.redis # Nothing
    <3>1. z # Nothing
      BY <2>11, LoopAssumption DEF Settled, Lists, LoopAssumption
    <3>2. m.redis # Nothing
      BY <2>8, <2>11, <3>1 DEF After
    <3>3. QED
      BY <2>4, <2>10, <2>11, <3>2
  <2>12. ASSUME o.mem.redis = z, o.mem.copy = z, z \in Twofold(t)
         PROVE  t \in doubled'
    <3>1. m.copy \in Twofold(t)
      BY <2>10, <2>12
    <3>2. Cardinality({i \in DOMAIN m.copy : m.copy[i].what = t}) > 1
      BY <3>1, TwiceCounted
    <3>3. QED
      BY <2>3, <3>2 DEF Remember
  <2>13. QED
    BY <2>6, <2>7, <2>9, <2>11, <2>12
<1>6. t \in doubled \/ Faults(memory) >= 2 \/ Known(Settled(t))
  BY <1>0 DEF InHand
<1>7. QED
  BY <1>2, <1>3, <1>4, <1>5, <1>6

LEMMA RestedStep ==
  ASSUME LoopInv, PlanInv, [LoopNext]_loopVars, step \notin Idle, step' \notin Idle, InHand, Rested
  PROVE  Rested'
<1>1. runsOf \in [Tasks -> 0 .. Ceiling]
  BY DEF LoopInv, ControlPart
<1>2. ASSUME NEW t \in Tasks, runsOf'[t] > 0, ~(step' \in Holding /\ current'.what = t)
      PROVE  t \in doubled' \/ Many' \/ (memory' \in Mem(Settled(t), 0) /\ memory'.redis # Nothing)
  <2>1. runsOf[t] \in Nat
    BY <1>1, LoopAssumption DEF LoopAssumption
  <2>2. runsOf[t] > 0
    <3>1. CASE RunTool
      <4>1. step' \in Holding /\ current' = current /\ runsOf' = [runsOf EXCEPT ![current.what] = @ + 1]
        BY <3>1 DEF RunTool, Holding
      <4>2. current.what # t
        BY <1>2, <4>1
      <4>3. runsOf'[t] = runsOf[t]
        BY <1>1, <4>1, <4>2
      <4>4. QED
        BY <1>2, <4>3
    <3>2. CASE ~RunTool
      <4>1. runsOf' = runsOf
        BY <3>2 DEF LoopNext, AgentStep, WritePlan, PublishSnapshot, Scan, Prune, Pruned, NextIteration, CeilingReached,
           CompleteOrphan, Reread, PassOver, TakeTask, Reflect, Prepare, Ground, Inject, ReadAgain, Complete,
           Save, CutOff, loopVars
      <4>2. QED
        BY <1>2, <4>1
    <3>3. QED
      BY <3>1, <3>2
  <2>3. CASE ~(step \in Holding /\ current.what = t)
    <3>1. Excused(t) \/ Known(Settled(t))
      BY <2>2, <2>3 DEF Rested
    <3>2. QED
      BY <3>1, ExcusedStays, SettledStays
  <2>4. CASE step \in Holding /\ current.what = t
    <3>1. Complete
      BY <1>2, <2>4 DEF LoopNext, AgentStep, WritePlan, PublishSnapshot, Scan, Prune, Pruned, NextIteration, CeilingReached,
         CompleteOrphan, Reread, PassOver, TakeTask, Reflect, Prepare, RunTool, Ground, Inject, ReadAgain,
         Save, CutOff, loopVars, Holding, Idle
    <3>2. QED
      BY <2>4, <3>1, PutDown
  <2>5. QED
    BY <2>3, <2>4
<1>3. QED
  BY <1>2 DEF Rested, Excused, Known

LEMMA OnceStep ==
  ASSUME LoopInv, PlanInv, [LoopNext]_loopVars, Once, step \notin Idle => InHand
  PROVE  Once'
<1>1. runsOf \in [Tasks -> 0 .. Ceiling] /\ \A t \in Tasks : runsOf[t] \in Nat
  BY LoopAssumption DEF LoopInv, ControlPart, LoopAssumption
<1>2. CASE step = "plan"
  <2>1. runsOf' = runsOf
    BY <1>2 DEF LoopNext, AgentStep, WritePlan, PublishSnapshot, Scan, Prune, Pruned, NextIteration, CeilingReached,
       CompleteOrphan, Reread, PassOver, TakeTask, Reflect, Prepare, RunTool, Ground, Inject, ReadAgain, Complete,
       Save, CutOff, loopVars
  <2>2. \A t \in Tasks : runsOf[t] <= 0
    BY <1>2 DEF PlanInv, LoopInv, ControlPart, RunBound
  <2>3. \A t \in Tasks : runsOf[t] <= 1
    BY <1>1, <2>2
  <2>4. QED
    BY <2>1, <2>3 DEF Once
<1>3. CASE step \in {"raised", "cut off"}
  <2>1. UNCHANGED loopVars
    BY <1>3 DEF LoopNext, AgentStep, WritePlan, PublishSnapshot, Scan, Prune, Pruned, NextIteration, CeilingReached,
       CompleteOrphan, Reread, PassOver, TakeTask, Reflect, Prepare, RunTool, Ground, Inject, ReadAgain, Complete,
       Save, CutOff, AgentEnds
  <2>2. QED
    BY <2>1 DEF Once, Excused, Many, Faults, loopVars
<1>4. CASE step \notin Idle
  <2>1. ASSUME NEW t \in Tasks PROVE runsOf'[t] <= 1 \/ t \in doubled' \/ Many'
    <3>1. CASE runsOf'[t] = runsOf[t]
      BY <1>4, <3>1, ExcusedStays DEF Once
    <3>2. CASE RunTool /\ current.what = t
      <4>1. runsOf[t] = 0 \/ Excused(t)
        BY <1>4, <3>2 DEF InHand, RunTool, Holding
      <4>2. runsOf'[t] = runsOf[t] + 1
        BY <1>1, <3>2 DEF RunTool
      <4>3. runsOf[t] = 0 => runsOf'[t] <= 1
        BY <4>2
      <4>4. QED
        BY <1>4, <4>1, <4>3, ExcusedStays
    <3>3. CASE RunTool /\ current.what # t
      <4>1. runsOf' = [runsOf EXCEPT ![current.what] = @ + 1]
        BY <3>3 DEF RunTool
      <4>2. runsOf'[t] = runsOf[t]
        BY <1>1, <3>3, <4>1
      <4>3. QED
        BY <3>1, <4>2
    <3>4. CASE ~RunTool
      <4>1. runsOf' = runsOf
        BY <3>4 DEF LoopNext, AgentStep, WritePlan, PublishSnapshot, Scan, Prune, Pruned, NextIteration, CeilingReached,
           CompleteOrphan, Reread, PassOver, TakeTask, Reflect, Prepare, Ground, Inject, ReadAgain, Complete,
           Save, CutOff, loopVars
      <4>2. QED
        BY <3>1, <4>1
    <3>5. QED
      BY <3>2, <3>3, <3>4
  <2>2. QED
    BY <2>1 DEF Once, Excused
<1>5. QED
  BY <1>2, <1>3, <1>4 DEF Idle

LEMMA RepeatInvStep == LoopInv /\ PlanInv /\ RepeatInv /\ [LoopNext]_loopVars => RepeatInv'
<1> SUFFICES ASSUME LoopInv, PlanInv, RepeatInv, [LoopNext]_loopVars PROVE RepeatInv'
  OBVIOUS
<1>1. Once'
  BY OnceStep DEF RepeatInv
<1>2. ASSUME step' \notin Idle, step \in Idle PROVE RepeatInv'
  <2>1. WritePlan
    BY <1>2 DEF LoopNext, AgentStep, WritePlan, PublishSnapshot, Scan, Prune, Pruned, NextIteration,
       CeilingReached, CompleteOrphan, Reread, PassOver, TakeTask, Reflect, Prepare, RunTool, Ground, Inject,
       ReadAgain, Complete, Save, CutOff, loopVars, Idle
  <2>2. QED
    BY <1>2, <2>1, PlanRepeats
<1>3. ASSUME step' \notin Idle, step \notin Idle PROVE Paired' /\ Viewed' /\ InHand' /\ Rested'
  <2>1. Paired /\ Viewed /\ InHand /\ Rested
    BY <1>3 DEF RepeatInv
  <2>2. Paired'
    BY <1>3, <2>1, PairedStep
  <2>3. Viewed'
    BY <1>3, <2>1, ViewedStep
  <2>4. InHand'
    BY <1>3, <2>1, InHandStep
  <2>5. Rested'
    BY <1>3, <2>1, RestedStep
  <2>6. QED
    BY <2>2, <2>3, <2>4, <2>5
<1>4. step' \notin Idle => Paired' /\ Viewed' /\ InHand' /\ Rested'
  BY <1>2, <1>3 DEF RepeatInv
<1>5. QED
  BY <1>1, <1>4 DEF RepeatInv

LEMMA RepeatInvSuffices == LoopInv /\ RepeatInv => RepeatsExplained
<1> SUFFICES ASSUME LoopInv, RepeatInv, memory.outages + memory.losses <= 3, NEW t \in Tasks, runsOf[t] > 1
             PROVE  t \in doubled
  BY DEF RepeatsExplained
<1>1. runsOf[t] \in Nat /\ Faults(memory) \in Nat
  BY FaultsType, LoopAssumption DEF LoopInv, MemPart, ControlPart, LoopAssumption
<1>2. ~Many
  BY <1>1 DEF Many, Faults
<1>3. ~(runsOf[t] <= 1)
  BY <1>1
<1>4. QED
  BY <1>2, <1>3 DEF RepeatInv, Once, Excused

(* However up to three lost commands or log entries hit the accesses to    *)
(* the working memory, the loop runs no tool twice, unless the task of the *)
(* tool was appended a second time.                                        *)
THEOREM RepeatsHaveCause == LoopSpec => []RepeatsExplained
<1>1. LoopInit => LoopInv /\ PlanInv /\ RepeatInv
  BY LoopInvInit, PlanInvInit, RepeatInvInit
<1>2. LoopInv /\ PlanInv /\ RepeatInv /\ [LoopNext]_loopVars => LoopInv' /\ PlanInv' /\ RepeatInv'
  BY LoopInvStep, PlanInvStep, RepeatInvStep
<1>3. LoopInv /\ PlanInv /\ RepeatInv => RepeatsExplained
  BY RepeatInvSuffices
<1>4. QED
  BY <1>1, <1>2, <1>3, PTL DEF LoopSpec
=============================================================================
