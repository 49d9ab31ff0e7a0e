-------------------------- MODULE GrilledRunProofs --------------------------
(***************************************************************************)
(* The failure cases of GrilledRun, for any processes, any failure         *)
(* signatures, every budget of attempts and any number of deaths, revivals *)
(* and claims that expire.                                                 *)
(***************************************************************************)
EXTENDS GrilledRun, FiniteSetTheorems, SequenceTheorems, WellFoundedInduction, TLAPS

Listed(s, c) == \E i \in DOMAIN s.updated : s.updated[i] = c

\* No generation is younger than attempt n.
Bounded(s, n) ==
    \A c \in Signatures : s.case[c].state # "absent" => s.case[c].generation <= n

\* A case that exists is listed.  An outcome belongs to a generation that has
\* been claimed, one to each, and a remediation rests on the one of its own.
TableOK(s) ==
    /\ s \in Table
    /\ \A c \in Signatures : s.case[c].state = "absent" => s.case[c] = AbsentCase
    /\ \A c \in Signatures : s.case[c].state # "absent" => Listed(s, c)
    /\ \A o \in s.outbox :
          /\ o.generation <= s.case[o.case].generation
          /\ s.case[o.case].state \in Grillable \cup {"absent"} =>
                o.generation < s.case[o.case].generation
    /\ \A o, p \in s.outbox : o.case = p.case /\ o.generation = p.generation => o = p
    /\ \A c \in Signatures :
          s.case[c].state = "remediation_running" =>
              \E o \in s.outbox : /\ o.case = c
                                  /\ o.generation = s.case[c].generation
                                  /\ o.outcome = "runner-fixable"

\* The steps under the lease of the run, those before an attempt is begun, and
\* those between the choice of a case and its decision.
Leased == {"leased", "ready", "working", "booking", "releasing"}
Attempting == {"recovering", "acquiring", "leased", "ready"}
Deciding == {"ensuring", "claiming", "judging", "parking"}

NoneGrillable == \A c \in Signatures : cases.case[c].state \notin Grillable
Remedied == \E c \in Signatures : cases.case[c].state = "remediation_running"
Calm == ~flaky /\ crashes = 0 /\ revivals = 0

\* A process that has the lease is alone on the run; the attempt it works at is
\* younger than every generation.
WorkOK(w, p) ==
    /\ p.at \in Leased => lease = [holder |-> w, live |-> TRUE]
    /\ p.at = "ready" => run.state \in Executable
    /\ p.at = "working" => run.state = "running"
    /\ p.at \in {"working", "booking"} =>
          run.attempts >= 1 /\ Bounded(cases, run.attempts - 1)
    /\ p.at = "booking" =>
          /\ p.repeated \in Cases
          /\ p.repeated # NoSignature => run.attempts < MaxAttempts
    /\ p.at = "ensuring" => run.attempts >= 2
    /\ p.at \in {"ensuring", "claiming", "judging"} => p.case \in Signatures
    /\ p.at = "closing" => goal = "completed"

\* What a process that works alone may rely on between two steps.
AloneOK(p) ==
    /\ p.at \in Deciding \cup Attempting => run.state \in Executable /\ goal = "active"
    /\ p.at = "judging" => HoldsClaim(cases, p.case, p.generation, p.fence)
    /\ p.at \in Attempting /\ ShouldGrill => run.latest \notin Signatures \/ Remedied
    /\ p.at = "refusing" => run.value = "red"
    /\ \A c \in Signatures :
          cases.case[c].state = "resolved" =>
              /\ run.state = "verified" /\ run.value = "green"
              /\ goal \in {"active", "completed"}

\* Undisturbed, it leaves one case at most to a challenger, and none behind.
CalmOK(p) ==
    /\ p.at \in Attempting \cup {"working", "booking", "ensuring"} => NoneGrillable
    /\ \A c, d \in Signatures :
          cases.case[c].state \in Grillable /\ cases.case[d].state \in Grillable => c = d
    /\ p.at \in {"claiming", "judging"} =>
          \A c \in Signatures : cases.case[c].state \in Grillable => c = p.case
    /\ p.at = "ensuring" => run.attempts < MaxAttempts
    /\ run.attempts = MaxAttempts => NoneGrillable
    /\ p.at # "parking" /\ goal = "active" =>
          \A o \in cases.outbox : o.outcome = "runner-fixable"

RunOK == run.state = "verified" => run.latest = Passed
ClosedOK ==
    \A c \in Signatures :
        cases.case[c].closed => cases.case[c].state = "resolved" /\ goal = "completed"

Inv ==
    /\ TypeOK
    /\ TableOK(cases)
    /\ Bounded(cases, run.attempts)
    /\ RunOK
    /\ ClosedOK
    /\ \A w \in Workers : WorkOK(w, session[w])
    /\ \A w \in Workers : crew = {w} => AloneOK(session[w])
    /\ \A w \in Workers : crew = {w} /\ Calm => CalmOK(session[w])

-----------------------------------------------------------------------------
\* The last of a finite set of indices, and the newest case of a table.

LEMMA Smallest ==
  ASSUME NEW T \in SUBSET Nat, T # {}
  PROVE  \E n \in T : \A m \in T : n <= m
<1> DEFINE Less == {p \in Nat \X Nat : p[1] < p[2]}
<1>1. Less = OpToRel(<, Nat)
  BY DEF OpToRel
<1>2. IsWellFoundedOn(Less, Nat)
  BY <1>1, NatLessThanWellFounded
<1>3. PICK n \in T : \A m \in T : <<m, n>> \notin Less
  <2> HIDE DEF Less
  <2> QED BY <1>2, WFMin
<1>4. ASSUME NEW m \in T PROVE n <= m
  <2>1. <<m, n>> \notin Less
    BY <1>3
  <2>2. n \in Nat /\ m \in Nat
    OBVIOUS
  <2>3. ~ (m < n)
    BY <2>1, <2>2
  <2> QED BY <2>2, <2>3
<1> QED BY <1>4

LEMMA MaxFact ==
  ASSUME NEW n \in Nat, NEW T \in SUBSET 1..n, T # {}
  PROVE  Max(T) \in T /\ \A m \in T : m <= Max(T)
<1> DEFINE D == {n - i : i \in T}
<1>1. D \in SUBSET Nat /\ D # {}
  <2>1. \A i \in T : i \in 1..n /\ n - i \in Nat
    OBVIOUS
  <2>2. \A d \in D : d \in Nat
    BY <2>1
  <2>3. PICK i \in T : TRUE
    OBVIOUS
  <2>4. n - i \in D
    OBVIOUS
  <2> QED BY <2>2, <2>4
<1>2. PICK d \in D : \A e \in D : d <= e
  <2> HIDE DEF D
  <2> QED BY <1>1, Smallest
<1>3. PICK i \in T : d = n - i
  OBVIOUS
<1>4. ASSUME NEW m \in T PROVE m <= i
  <2>1. n - m \in D
    OBVIOUS
  <2>2. d <= n - m
    BY <1>2, <2>1
  <2>3. m \in Nat /\ i \in Nat
    OBVIOUS
  <2> QED BY <1>3, <2>2, <2>3
<1> QED BY <1>4 DEF Max

LEMMA RemoveFirstFact ==
  ASSUME NEW u \in Seq(Signatures), NEW c \in Signatures
  PROVE  /\ RemoveFirst(u, c) \in Seq(Signatures)
         /\ \A i \in DOMAIN u : u[i] # c =>
               \E j \in DOMAIN RemoveFirst(u, c) : RemoveFirst(u, c)[j] = u[i]
<1>0. Len(u) \in Nat /\ DOMAIN u = 1..Len(u) /\ \A i \in 1..Len(u) : u[i] \in Signatures
  BY LenProperties, ElementOfSeq
<1>1. CASE ~ \E i \in 1..Len(u) : u[i] = c
  BY <1>0, <1>1 DEF RemoveFirst
<1>2. CASE \E i \in 1..Len(u) : u[i] = c
  <2> DEFINE I == {i \in 1..Len(u) : u[i] = c}
             m == Min(I)
             v == SubSeq(u, 1, m - 1)
             w == SubSeq(u, m + 1, Len(u))
  <2>1. I \in SUBSET Nat /\ I # {}
    BY <1>0, <1>2
  <2>2. PICK n \in I : \A k \in I : n <= k
    <3> HIDE DEF I
    <3> QED BY <2>1, Smallest
  <2>3. m \in I
    <3>1. \E x \in I : \A y \in I : x =< y
      BY <2>2
    <3> HIDE DEF I
    <3> QED BY <3>1 DEF Min
  <2>4. RemoveFirst(u, c) = v \o w
    BY <1>2, <2>1 DEF RemoveFirst, RemoveAt, SelectInSeq
  <2>5. m \in 1..Len(u) /\ u[m] = c
    <3> HIDE DEF m
    <3> QED BY <2>3
  <2> HIDE DEF m
  <2>6. /\ v \in Seq(Signatures) /\ Len(v) = m - 1
        /\ \A i \in 1..(m - 1) : v[i] = u[i]
    <3>1. m - 1 \in Int /\ \A i \in 1..(m - 1) : u[i] \in Signatures
      BY <1>0, <2>5
    <3>2. /\ v \in Seq(Signatures) /\ Len(v) = IF 1 <= m - 1 THEN m - 1 - 1 + 1 ELSE 0
          /\ \A i \in 1..(m - 1 - 1 + 1) : v[i] = u[1 + i - 1]
      BY <3>1, SubSeqProperties
    <3> QED BY <2>5, <3>2
  <2>7. /\ w \in Seq(Signatures) /\ Len(w) = Len(u) - m
        /\ \A i \in 1..(Len(u) - m) : w[i] = u[m + i]
    <3>1. m + 1 \in Int /\ Len(u) \in Int /\ \A i \in (m + 1)..Len(u) : u[i] \in Signatures
      BY <1>0, <2>5
    <3>2. /\ w \in Seq(Signatures) /\ Len(w) = IF m + 1 <= Len(u) THEN Len(u) - (m + 1) + 1 ELSE 0
          /\ \A i \in 1..(Len(u) - (m + 1) + 1) : w[i] = u[(m + 1) + i - 1]
      BY <3>1, SubSeqProperties
    <3> HIDE DEF w
    <3>3. Len(w) = Len(u) - m
      <4>1. Len(w) = IF m + 1 <= Len(u) THEN Len(u) - (m + 1) + 1 ELSE 0
        BY <3>2
      <4>2. m \in Nat /\ Len(u) \in Nat /\ m <= Len(u)
        BY <1>0, <2>5
      <4>3. CASE m = Len(u)
        BY <4>1, <4>2, <4>3
      <4>4. CASE m # Len(u)
        BY <4>1, <4>2, <4>4
      <4> QED BY <4>3, <4>4
    <3>4. ASSUME NEW i \in 1..(Len(u) - m) PROVE w[i] = u[m + i]
      <4>1. i \in 1..(Len(u) - (m + 1) + 1) /\ (m + 1) + i - 1 = m + i
        BY <1>0, <2>5
      <4> QED BY <3>2, <4>1
    <3> QED BY <3>2, <3>3, <3>4
  <2> HIDE DEF v, w
  <2>8. /\ v \o w \in Seq(Signatures) /\ Len(v \o w) = Len(v) + Len(w)
        /\ DOMAIN (v \o w) = 1..Len(v \o w)
        /\ \A i \in 1..(Len(v) + Len(w)) : (v \o w)[i] = IF i <= Len(v) THEN v[i] ELSE w[i - Len(v)]
    BY <2>6, <2>7, ConcatProperties, LenProperties
  <2>9. ASSUME NEW i \in DOMAIN u, u[i] # c
        PROVE  \E j \in DOMAIN (v \o w) : (v \o w)[j] = u[i]
    <3>1. i \in 1..Len(u) /\ i # m
      BY <1>0, <2>5, <2>9
    <3>2. CASE i < m
      <4>1. i \in DOMAIN (v \o w) /\ (v \o w)[i] = u[i]
        BY <1>0, <2>5, <2>6, <2>7, <2>8, <3>1, <3>2
      <4> QED BY <4>1
    <3>3. CASE i > m
      <4>1. /\ i - 1 \in DOMAIN (v \o w) /\ ~ (i - 1 <= Len(v)) /\ (i - 1) - Len(v) = i - m
            /\ i - m \in 1..(Len(u) - m)
        BY <1>0, <2>5, <2>6, <2>7, <2>8, <3>1, <3>3
      <4>2. (v \o w)[i - 1] = w[i - m]
        BY <2>8, <4>1
      <4>3. m + (i - m) = i
        BY <1>0, <2>5, <3>1
      <4>4. w[i - m] = u[m + (i - m)]
        BY <2>7, <4>1
      <4> QED BY <4>1, <4>2, <4>3, <4>4
    <3> QED BY <1>0, <2>5, <3>1, <3>2, <3>3
  <2> QED BY <2>4, <2>8, <2>9
<1> QED BY <1>1, <1>2

LEMMA PutUpdated ==
  ASSUME NEW u \in Seq(Signatures), NEW c \in Signatures
  PROVE  /\ Append(RemoveFirst(u, c), c) \in Seq(Signatures)
         /\ \A d : d = c \/ (\E i \in DOMAIN u : u[i] = d) =>
               \E j \in DOMAIN Append(RemoveFirst(u, c), c) : Append(RemoveFirst(u, c), c)[j] = d
<1> DEFINE r == RemoveFirst(u, c)
           a == Append(r, c)
<1>1. r \in Seq(Signatures) /\ \A i \in DOMAIN u : u[i] # c => \E j \in DOMAIN r : r[j] = u[i]
  BY RemoveFirstFact
<1> HIDE DEF r
<1>2. /\ a \in Seq(Signatures) /\ Len(a) = Len(r) + 1 /\ \A i \in 1..Len(r) : a[i] = r[i]
      /\ a[Len(r) + 1] = c
  BY <1>1, AppendProperties
<1>3. DOMAIN a = 1..Len(a) /\ DOMAIN r = 1..Len(r) /\ Len(r) \in Nat
  BY <1>1, <1>2, LenProperties
<1> HIDE DEF a
<1>4. ASSUME NEW d, d = c \/ \E i \in DOMAIN u : u[i] = d
      PROVE  \E j \in DOMAIN a : a[j] = d
  <2>1. CASE d = c
    <3>1. Len(r) + 1 \in DOMAIN a
      BY <1>2, <1>3
    <3> QED BY <1>2, <2>1, <3>1
  <2>2. CASE d # c
    <3>1. PICK i \in DOMAIN u : u[i] = d
      BY <1>4, <2>2
    <3>2. PICK j \in DOMAIN r : r[j] = d
      BY <1>1, <2>2, <3>1
    <3>3. j \in DOMAIN a /\ a[j] = d
      BY <1>2, <1>3, <3>2
    <3> QED BY <3>3
  <2> QED BY <2>1, <2>2
<1> QED BY <1>2, <1>4 DEF a, r

LEMMA LatestCaseFact ==
  ASSUME NEW s, s.updated \in Seq(Signatures), NEW X
  PROVE  /\ LatestCase(s, X) = NoSignature
            \/ /\ LatestCase(s, X) \in Signatures
               /\ s.case[LatestCase(s, X)].state \in X
         /\ LatestCase(s, X) = NoSignature =>
               \A i \in DOMAIN s.updated : s.case[s.updated[i]].state \notin X
<1> DEFINE I == InStates(s, X)
<1>1. Len(s.updated) \in Nat /\ DOMAIN s.updated = 1..Len(s.updated)
  BY LenProperties
<1>2. \A i \in DOMAIN s.updated : s.updated[i] \in Signatures
  BY <1>1, ElementOfSeq
<1>3. CASE I = {}
  BY <1>3 DEF LatestCase, InStates
<1>4. CASE I # {}
  <2>1. I \in SUBSET (1..Len(s.updated))
    BY <1>1 DEF InStates
  <2>2. Max(I) \in I
    <3> HIDE DEF I
    <3> QED BY <1>1, <1>4, <2>1, MaxFact
  <2>3. LatestCase(s, X) = s.updated[Max(I)]
    BY <1>4 DEF LatestCase
  <2>4. s.updated[Max(I)] \in Signatures /\ s.case[s.updated[Max(I)]].state \in X
    <3>1. \A i \in I : s.updated[i] \in Signatures /\ s.case[s.updated[i]].state \in X
      BY <1>2 DEF InStates
    <3> HIDE DEF I
    <3> QED BY <2>2, <3>1
  <2>5. NoSignature \notin Signatures
    BY SignaturesAssumption
  <2> QED BY <2>3, <2>4, <2>5
<1> QED BY <1>3, <1>4

-----------------------------------------------------------------------------
\* The transactions on the table.

LEMMA OrdinalsFact ==
  /\ Ordinals \subseteq Nat /\ 1 \in Ordinals
  /\ \A n \in Nat : n \in Ordinals <=> n >= 1 /\ n <= MaxAttempts
  /\ MaxAttempts \in Nat
BY MaxAttemptsAssumption DEF Ordinals

LEMMA AbsentFact ==
  /\ AbsentCase \in Case /\ AbsentCase.state = "absent" /\ AbsentCase.generation = 1
  /\ AbsentCase.closed = FALSE
BY OrdinalsFact DEF AbsentCase, Case

LEMMA RowFields ==
  ASSUME NEW s \in Table, NEW c \in Signatures
  PROVE  /\ s.case[c] \in Case
         /\ s.case[c].state \in CaseStates \cup {"absent"}
         /\ s.case[c].generation \in Ordinals /\ s.case[c].generation \in Nat
         /\ s.case[c].fence \in Nat
         /\ s.case[c].live \in BOOLEAN /\ s.case[c].closed \in BOOLEAN
BY OrdinalsFact DEF Table, Case

LEMMA PutFact ==
  ASSUME NEW s \in Table, NEW c \in Signatures, NEW row \in Case,
         NEW t, t = Put(s, c, row)
  PROVE  /\ t \in Table
         /\ t.case[c] = row
         /\ \A d \in Signatures : d # c => t.case[d] = s.case[d]
         /\ t.outbox = s.outbox
         /\ \A d \in Signatures : d = c \/ Listed(s, d) => Listed(t, d)
<1>1. PICK k \in [Signatures -> Case], u \in Seq(Signatures), o \in SUBSET Outcome :
        s = [case |-> k, updated |-> u, outbox |-> o]
  BY DEF Table
<1>2. PICK v : v = Append(RemoveFirst(u, c), c)
  OBVIOUS
<1>3. v \in Seq(Signatures) /\ \A d : d = c \/ (\E i \in DOMAIN u : u[i] = d) => \E j \in DOMAIN v : v[j] = d
  <2>1. /\ Append(RemoveFirst(u, c), c) \in Seq(Signatures)
        /\ \A d : d = c \/ (\E i \in DOMAIN u : u[i] = d) =>
              \E j \in DOMAIN Append(RemoveFirst(u, c), c) : Append(RemoveFirst(u, c), c)[j] = d
    BY PutUpdated
  <2> QED BY <1>2, <2>1
<1>4. t = [case |-> [k EXCEPT ![c] = row], updated |-> v, outbox |-> o]
  BY <1>1, <1>2 DEF Put
<1>5. t.case = [k EXCEPT ![c] = row] /\ t.updated = v /\ t.outbox = o
  BY <1>4
<1>6. s.case = k /\ s.updated = u /\ s.outbox = o
  BY <1>1
<1>7. [k EXCEPT ![c] = row] \in [Signatures -> Case]
  OBVIOUS
<1>8. t \in Table
  BY <1>3, <1>4, <1>7 DEF Table
<1>9. \A d \in Signatures : d = c \/ Listed(s, d) => Listed(t, d)
  BY <1>3, <1>5, <1>6 DEF Listed
<1> QED BY <1>5, <1>6, <1>8, <1>9

\* The ways the transactions rewrite a row: as changes of two or three fields.
LEMMA StateAndLive ==
  ASSUME NEW old \in Case, NEW x, NEW b,
         NEW row, row = [old EXCEPT !.state = x, !.live = b]
  PROVE  row = [state |-> x, generation |-> old.generation, fence |-> old.fence,
                live |-> b, closed |-> old.closed]
<1>1. PICK first : first = [state |-> x, generation |-> old.generation, fence |-> old.fence,
                            live |-> old.live, closed |-> old.closed]
  OBVIOUS
<1>2. [old EXCEPT !.state = x] = first
  BY <1>1 DEF Case
<1>3. row = [first EXCEPT !.live = b]
  BY <1>2
<1> QED BY <1>1, <1>3

LEMMA StateFenceLive ==
  ASSUME NEW old \in Case, NEW x, NEW f, NEW b,
         NEW row, row = [old EXCEPT !.state = x, !.fence = f, !.live = b]
  PROVE  row = [state |-> x, generation |-> old.generation, fence |-> f,
                live |-> b, closed |-> old.closed]
<1>1. PICK first : first = [state |-> x, generation |-> old.generation, fence |-> old.fence,
                            live |-> old.live, closed |-> old.closed]
  OBVIOUS
<1>2. [old EXCEPT !.state = x] = first
  BY <1>1 DEF Case
<1>3. PICK second : second = [state |-> x, generation |-> old.generation, fence |-> f,
                              live |-> old.live, closed |-> old.closed]
  OBVIOUS
<1>4. [first EXCEPT !.fence = f] = second
  BY <1>3, <1>1 DEF Case
<1>5. row = [second EXCEPT !.live = b]
  BY <1>2, <1>4
<1> QED BY <1>3, <1>5

\* A row may be rewritten if it keeps its generation or begins another, and is
\* open again only with a generation nobody has answered for.
LEMMA PutOK ==
  ASSUME NEW s, TableOK(s), NEW c \in Signatures, NEW row \in Case,
         row.state # "absent", row.state # "remediation_running",
         row.generation >= s.case[c].generation,
         row.state \in Grillable =>
            \/ s.case[c].state \in Grillable \cup {"absent"}
            \/ row.generation > s.case[c].generation
  PROVE  TableOK(Put(s, c, row))
<1>0. PICK t : t = Put(s, c, row)
  OBVIOUS
<1>1. s \in Table
  BY DEF TableOK
<1>2. /\ t \in Table /\ t.case[c] = row /\ t.outbox = s.outbox
      /\ \A d \in Signatures : d # c => t.case[d] = s.case[d]
      /\ \A d \in Signatures : d = c \/ Listed(s, d) => Listed(t, d)
  BY <1>0, <1>1, PutFact
<1>3. \A d \in Signatures : t.case[d].state = "absent" => t.case[d] = AbsentCase
  BY <1>2 DEF TableOK
<1>4. \A d \in Signatures : t.case[d].state # "absent" => Listed(t, d)
  BY <1>2 DEF TableOK
<1>5. ASSUME NEW o \in t.outbox
      PROVE  /\ o.generation <= t.case[o.case].generation
             /\ t.case[o.case].state \in Grillable \cup {"absent"} =>
                   o.generation < t.case[o.case].generation
  <2>1. o \in s.outbox /\ o.case \in Signatures /\ o.generation \in Nat
    BY <1>1, <1>2, OrdinalsFact DEF Table, Outcome
  <2>2. /\ o.generation <= s.case[o.case].generation
        /\ s.case[o.case].state \in Grillable \cup {"absent"} =>
              o.generation < s.case[o.case].generation
    BY <2>1 DEF TableOK
  <2>3. CASE o.case # c
    BY <1>2, <2>1, <2>2, <2>3
  <2>4. CASE o.case = c
    <3>1. s.case[c].generation \in Nat /\ row.generation \in Nat
      BY <1>1, RowFields, OrdinalsFact DEF Case
    <3> QED BY <1>2, <2>1, <2>2, <2>4, <3>1
  <2> QED BY <2>3, <2>4
<1>6. \A o, p \in t.outbox : o.case = p.case /\ o.generation = p.generation => o = p
  BY <1>2 DEF TableOK
<1>7. ASSUME NEW d \in Signatures, t.case[d].state = "remediation_running"
      PROVE  \E o \in t.outbox : /\ o.case = d
                                 /\ o.generation = t.case[d].generation
                                 /\ o.outcome = "runner-fixable"
  <2>1. d # c
    BY <1>2, <1>7
  <2> QED BY <1>2, <1>7, <2>1 DEF TableOK
<1>8. TableOK(t)
  BY <1>2, <1>3, <1>4, <1>5, <1>6, <1>7 DEF TableOK
<1> QED BY <1>0, <1>8

LEMMA EnsureOK ==
  ASSUME NEW s, TableOK(s), NEW c \in Signatures, NEW t, t = EnsureFailureCase(s, c)
  PROVE  /\ TableOK(t) /\ t.outbox = s.outbox
         /\ \A d \in Signatures : d # c => t.case[d] = s.case[d]
         /\ s.case[c].state # "absent" => t = s
         /\ s.case[c].state = "absent" =>
               /\ t.case[c].state = "grill_required"
               /\ t.case[c].generation = AbsentCase.generation
               /\ ~t.case[c].closed
<1> DEFINE row == [AbsentCase EXCEPT !.state = "grill_required"]
<1>1. s \in Table
  BY DEF TableOK
<1>2. /\ row \in Case /\ row.state = "grill_required" /\ ~row.closed
      /\ row.generation = AbsentCase.generation
  BY OrdinalsFact DEF AbsentCase, Case, CaseStates, Grillable
<1> HIDE DEF row
<1>3. CASE s.case[c].state # "absent"
  BY <1>3 DEF EnsureFailureCase
<1>4. CASE s.case[c].state = "absent"
  <2>1. t = Put(s, c, row)
    BY <1>4 DEF EnsureFailureCase, row
  <2>2. row.generation >= s.case[c].generation
    BY <1>2, <1>4, AbsentFact DEF TableOK
  <2>3. TableOK(Put(s, c, row))
    BY <1>2, <1>4, <2>2, PutOK
  <2>4. /\ t.case[c] = row /\ t.outbox = s.outbox
        /\ \A d \in Signatures : d # c => t.case[d] = s.case[d]
    BY <1>1, <1>2, <2>1, PutFact
  <2> QED BY <1>2, <1>4, <2>1, <2>3, <2>4
<1> QED BY <1>3, <1>4

LEMMA ClaimOK ==
  ASSUME NEW s, TableOK(s), NEW c \in Signatures, CanClaim(s, c),
         NEW t, t = ClaimGrill(s, c)
  PROVE  /\ TableOK(t) /\ t.outbox = s.outbox
         /\ \A d \in Signatures : d # c => t.case[d] = s.case[d]
         /\ t.case[c].state = "grill_claimed"
         /\ t.case[c].generation = s.case[c].generation
         /\ t.case[c].fence = s.case[c].fence + 1
         /\ t.case[c].closed = s.case[c].closed
         /\ s.case[c].state \in Grillable
<1> DEFINE row == [s.case[c] EXCEPT !.state = "grill_claimed", !.fence = @ + 1, !.live = TRUE]
<1>1. s \in Table
  BY DEF TableOK
<1>2. /\ row \in Case /\ row.state = "grill_claimed" /\ row.generation = s.case[c].generation
      /\ row.fence = s.case[c].fence + 1 /\ row.closed = s.case[c].closed
  <2>1. PICK old \in Case : s.case[c] = old
    BY <1>1, RowFields
  <2>2. PICK new : new = row
    OBVIOUS
  <2>3. PICK f, x, b : f = old.fence + 1 /\ x = "grill_claimed" /\ b = TRUE
    OBVIOUS
  <2>4. new = [old EXCEPT !.state = x, !.fence = f, !.live = b]
    BY <2>1, <2>2, <2>3
  <2>5. new = [state |-> x, generation |-> old.generation, fence |-> f,
               live |-> b, closed |-> old.closed]
    BY <2>4, StateFenceLive
  <2>6. f \in Nat /\ x \in CaseStates /\ b \in BOOLEAN
    BY <2>3 DEF Case, CaseStates, Grillable
  <2> HIDE DEF row
  <2> QED BY <2>1, <2>2, <2>3, <2>5, <2>6 DEF Case
<1> HIDE DEF row
<1>3. s.case[c].state \in Grillable
  BY DEF CanClaim, Grillable
<1>4. TableOK(Put(s, c, row))
  <2>1. row.generation >= s.case[c].generation
    BY <1>1, <1>2, RowFields
  <2> QED BY <1>2, <1>3, <2>1, PutOK
<1>5. t = Put(s, c, row)
  BY DEF ClaimGrill, row
<1>6. /\ t.case[c] = row /\ t.outbox = s.outbox
      /\ \A d \in Signatures : d # c => t.case[d] = s.case[d]
  BY <1>1, <1>2, <1>5, PutFact
<1> QED BY <1>2, <1>3, <1>4, <1>5, <1>6

LEMMA LatestOfTable ==
  ASSUME NEW s, TableOK(s), NEW X, "absent" \notin X, NEW c, c = LatestCase(s, X)
  PROVE  /\ c = NoSignature \/ (c \in Signatures /\ s.case[c].state \in X)
         /\ c = NoSignature <=> \A d \in Signatures : s.case[d].state \notin X
<1>1. s.updated \in Seq(Signatures)
  BY DEF TableOK, Table
<1>2. /\ c = NoSignature \/ (c \in Signatures /\ s.case[c].state \in X)
      /\ c = NoSignature => \A i \in DOMAIN s.updated : s.case[s.updated[i]].state \notin X
  BY <1>1, LatestCaseFact
<1>3. ASSUME c = NoSignature, NEW d \in Signatures PROVE s.case[d].state \notin X
  <2>1. CASE s.case[d].state = "absent"
    BY <2>1
  <2>2. CASE s.case[d].state # "absent"
    BY <1>2, <1>3, <2>2 DEF TableOK, Listed
  <2> QED BY <2>1, <2>2
<1> QED BY <1>2, <1>3

\* An answer under a claim that stands, and one that comes too late.
LEMMA OutcomeOK ==
  ASSUME NEW s, TableOK(s), NEW c \in Signatures, NEW g, NEW f, NEW outcome \in Outcomes,
         NEW t, t = RecordOutcome(s, c, g, f, outcome)
  PROVE  /\ TableOK(t)
         /\ ~HoldsClaim(s, c, g, f) => t = s
         /\ HoldsClaim(s, c, g, f) =>
               /\ s.case[c].state = "grill_claimed"
               /\ \A d \in Signatures : d # c => t.case[d] = s.case[d]
               /\ t.case[c].state = IF outcome = "runner-fixable"
                                    THEN "remediation_running" ELSE "human_required"
               /\ t.case[c].generation = s.case[c].generation
               /\ t.case[c].closed = s.case[c].closed
               /\ \A o \in t.outbox : o \in s.outbox \/ o.outcome = outcome
<1>1. CASE ~HoldsClaim(s, c, g, f)
  BY <1>1 DEF RecordOutcome
<1>2. CASE HoldsClaim(s, c, g, f)
  <2>1. /\ s.case[c].state = "grill_claimed" /\ g = s.case[c].generation /\ f = s.case[c].fence
    BY <1>2 DEF HoldsClaim
  <2>2. s \in Table /\ g \in Ordinals /\ g \in Nat /\ f \in Nat
    BY <2>1, RowFields DEF TableOK
  <2>3. PICK old \in Case : old = s.case[c]
    BY <2>2, RowFields
  <2>4. PICK x, b : /\ x = IF outcome = "runner-fixable"
                           THEN "remediation_running" ELSE "human_required"
                    /\ b = FALSE
    OBVIOUS
  <2>5. PICK row : row = [old EXCEPT !.state = x, !.live = b]
    OBVIOUS
  <2>6. row = [state |-> x, generation |-> old.generation, fence |-> old.fence,
               live |-> b, closed |-> old.closed]
    BY <2>5, StateAndLive
  <2>7. x \in CaseStates /\ b \in BOOLEAN /\ x \notin Grillable \cup {"absent"}
    BY <2>4 DEF CaseStates, Grillable
  <2>8. /\ row \in Case /\ row.state = x /\ row.generation = g /\ row.closed = s.case[c].closed
    BY <2>1, <2>3, <2>6, <2>7 DEF Case
  <2>9. PICK p : p = Put(s, c, row)
    OBVIOUS
  <2>10. /\ p \in Table /\ p.case[c] = row /\ p.outbox = s.outbox
         /\ \A d \in Signatures : d # c => p.case[d] = s.case[d]
         /\ \A d \in Signatures : d = c \/ Listed(s, d) => Listed(p, d)
    BY <2>2, <2>8, <2>9, PutFact
  <2>11. PICK new : new = [case |-> c, generation |-> g, fence |-> f, outcome |-> outcome]
    OBVIOUS
  <2>12. new \in Outcome /\ new.case = c /\ new.generation = g /\ new.outcome = outcome
    BY <2>2, <2>11 DEF Outcome
  <2>13. t = [p EXCEPT !.outbox = @ \cup {new}]
    BY <1>2, <2>3, <2>4, <2>5, <2>9, <2>11 DEF RecordOutcome
  <2>14. /\ t \in Table /\ t.case = p.case /\ t.updated = p.updated
         /\ t.outbox = s.outbox \cup {new}
    BY <2>10, <2>12, <2>13 DEF Table
  <2>15. /\ t.case[c] = row /\ \A d \in Signatures : d # c => t.case[d] = s.case[d]
    BY <2>10, <2>14
  <2>16. TableOK(t)
    <3>1. \A d \in Signatures : t.case[d].state = "absent" => t.case[d] = AbsentCase
      BY <2>7, <2>8, <2>15 DEF TableOK
    <3>2. \A d \in Signatures : t.case[d].state # "absent" => Listed(t, d)
      BY <2>10, <2>14, <2>15 DEF TableOK, Listed
    <3>3. ASSUME NEW o \in s.outbox
          PROVE  /\ o.case \in Signatures /\ o.generation \in Nat
                 /\ o.generation <= s.case[o.case].generation
                 /\ s.case[o.case].state \in Grillable \cup {"absent"} =>
                       o.generation < s.case[o.case].generation
      BY <2>2, OrdinalsFact DEF TableOK, Table, Outcome
    <3>4. ASSUME NEW o \in t.outbox
          PROVE  /\ o.generation <= t.case[o.case].generation
                 /\ t.case[o.case].state \in Grillable \cup {"absent"} =>
                       o.generation < t.case[o.case].generation
      <4>1. CASE o = new
        BY <2>2, <2>7, <2>8, <2>12, <2>15, <4>1
      <4>2. CASE o # new /\ o.case = c
        BY <2>1, <2>7, <2>8, <2>14, <2>15, <3>3, <4>2
      <4>3. CASE o # new /\ o.case # c
        BY <2>14, <2>15, <3>3, <4>3
      <4> QED BY <4>1, <4>2, <4>3
    <3>5. ASSUME NEW o \in s.outbox, o.case = c PROVE o.generation # g
      <4>1. o.generation < s.case[c].generation
        BY <2>1, <3>3, <3>5 DEF Grillable
      <4> QED BY <2>1, <2>2, <3>3, <4>1
    <3>6. \A o, q \in t.outbox : o.case = q.case /\ o.generation = q.generation => o = q
      BY <2>12, <2>14, <3>5 DEF TableOK
    <3>7. ASSUME NEW d \in Signatures, t.case[d].state = "remediation_running"
          PROVE  \E o \in t.outbox : /\ o.case = d
                                     /\ o.generation = t.case[d].generation
                                     /\ o.outcome = "runner-fixable"
      <4>1. CASE d = c
        BY <2>4, <2>8, <2>12, <2>14, <2>15, <3>7, <4>1
      <4>2. CASE d # c
        BY <2>14, <2>15, <3>7, <4>2 DEF TableOK
      <4> QED BY <4>1, <4>2
    <3> QED BY <2>14, <3>1, <3>2, <3>4, <3>6, <3>7 DEF TableOK
  <2> QED BY <1>2, <2>1, <2>4, <2>8, <2>12, <2>14, <2>15, <2>16
<1> QED BY <1>1, <1>2

\* The transaction changes one row that was under remediation, if there is one.
LEMMA ResolutionOK ==
  ASSUME NEW s, TableOK(s), NEW n \in Nat, n <= MaxAttempts,
         NEW resolved \in BOOLEAN, NEW regrill \in BOOLEAN,
         Bounded(s, n), regrill => n >= 1 /\ Bounded(s, n - 1),
         NEW c, c = LatestCase(s, {"remediation_running"}),
         NEW t, t = RecordResolution(s, n, resolved, regrill)
  PROVE  /\ TableOK(t) /\ Bounded(t, n) /\ t.outbox = s.outbox
         /\ c = NoSignature =>
               /\ t = s
               /\ \A d \in Signatures : s.case[d].state # "remediation_running"
         /\ c # NoSignature =>
               /\ c \in Signatures /\ s.case[c].state = "remediation_running"
               /\ \A d \in Signatures : d # c => t.case[d] = s.case[d]
               /\ t.case[c].closed = s.case[c].closed
               /\ resolved => t.case[c].state = "resolved"
               /\ ~resolved /\ regrill /\ n < MaxAttempts => t.case[c].state = "grill_required"
               /\ ~resolved /\ ~(regrill /\ n < MaxAttempts) => t.case[c].state = "human_required"
         /\ ~regrill => \A m \in Nat : Bounded(s, m) => Bounded(t, m)
<1>1. c = LatestCase(s, {"remediation_running"})
  OBVIOUS
<1>2. /\ c = NoSignature \/ (c \in Signatures /\ s.case[c].state = "remediation_running")
      /\ c = NoSignature => \A d \in Signatures : s.case[d].state # "remediation_running"
  BY <1>1, LatestOfTable
<1>3. CASE c = NoSignature
  <2>1. t = s
    BY <1>1, <1>3 DEF RecordResolution
  <2> QED BY <1>2, <1>3, <2>1
<1>4. CASE c # NoSignature
  <2> DEFINE again == ~resolved /\ regrill /\ n < MaxAttempts
  <2>1. c \in Signatures /\ s.case[c].state = "remediation_running" /\ s \in Table
    BY <1>2, <1>4 DEF TableOK
  <2>2. PICK old \in Case : old = s.case[c]
    BY <2>1, RowFields
  <2>3. old.generation \in Nat /\ old.generation \in Ordinals /\ old.generation <= n
    BY <2>1, <2>2, RowFields DEF Bounded
  <2>4. PICK x, g, b : /\ x = IF resolved THEN "resolved"
                              ELSE IF again THEN "grill_required" ELSE "human_required"
                       /\ g = IF again THEN old.generation + 1 ELSE old.generation
                       /\ b = FALSE
    OBVIOUS
  <2>5. PICK row : row = [old EXCEPT !.state = x, !.generation = g, !.live = b]
    OBVIOUS
  <2>6. row = [state |-> x, generation |-> g, fence |-> old.fence,
               live |-> b, closed |-> old.closed]
    <3>1. PICK first : first = [state |-> x, generation |-> old.generation, fence |-> old.fence,
                                live |-> old.live, closed |-> old.closed]
      OBVIOUS
    <3>2. [old EXCEPT !.state = x] = first
      BY <3>1 DEF Case
    <3>3. PICK second : second = [state |-> x, generation |-> g, fence |-> old.fence,
                                  live |-> old.live, closed |-> old.closed]
      OBVIOUS
    <3>4. [first EXCEPT !.generation = g] = second
      BY <3>1, <3>3 DEF Case
    <3>5. row = [second EXCEPT !.live = b]
      BY <2>5, <3>2, <3>4
    <3> QED BY <3>3, <3>5
  <2>7. t = Put(s, c, row)
    BY <1>1, <1>4, <2>2, <2>4, <2>5 DEF RecordResolution
  <2>8. /\ x \in CaseStates /\ b \in BOOLEAN /\ x # "absent" /\ x # "remediation_running"
        /\ x \in Grillable => again
    BY <2>4 DEF CaseStates, Grillable
  <2>9. /\ g \in Ordinals /\ g \in Nat /\ g >= old.generation /\ g <= n
        /\ again => g > old.generation
    <3>1. CASE again
      <4>1. old.generation <= n - 1 /\ n \in Nat /\ n < MaxAttempts
        BY <2>1, <2>2, <3>1 DEF Bounded
      <4>2. g = old.generation + 1
        BY <2>4, <3>1
      <4>3. g \in Nat /\ g >= 1 /\ g <= MaxAttempts /\ g <= n /\ g > old.generation
        BY <2>3, <4>1, <4>2, OrdinalsFact
      <4> QED BY <4>3, <2>3, OrdinalsFact
    <3>2. CASE ~again
      BY <2>3, <2>4, <3>2
    <3> QED BY <3>1, <3>2
  <2> HIDE DEF again
  <2>10. row \in Case /\ row.state = x /\ row.generation = g /\ row.closed = s.case[c].closed
    BY <2>2, <2>6, <2>8, <2>9 DEF Case
  <2>11. /\ t \in Table /\ t.case[c] = row /\ t.outbox = s.outbox
         /\ \A d \in Signatures : d # c => t.case[d] = s.case[d]
    BY <2>1, <2>7, <2>10, PutFact
  <2>12. TableOK(t)
    <3>1. TableOK(Put(s, c, row))
      BY <2>1, <2>2, <2>8, <2>9, <2>10, PutOK
    <3> QED BY <2>7, <3>1
  <2>13. Bounded(t, n)
    BY <2>9, <2>10, <2>11 DEF Bounded
  <2>14. ~regrill => \A m \in Nat : Bounded(s, m) => Bounded(t, m)
    <3>1. ~regrill => g = s.case[c].generation
      BY <2>2, <2>4 DEF again
    <3> QED BY <2>1, <2>8, <2>10, <2>11, <3>1 DEF Bounded
  <2>15. /\ resolved => x = "resolved"
         /\ ~resolved /\ regrill /\ n < MaxAttempts => x = "grill_required"
         /\ ~resolved /\ ~(regrill /\ n < MaxAttempts) => x = "human_required"
    BY <2>4 DEF again
  <2> QED BY <1>4, <2>1, <2>10, <2>11, <2>12, <2>13, <2>14, <2>15
<1> QED BY <1>3, <1>4

LEMMA NextNodeOK ==
  ASSUME NEW s, TableOK(s), NEW t, t = RecordNextNode(s)
  PROVE  /\ TableOK(t) /\ t.outbox = s.outbox
         /\ \A d \in Signatures :
               /\ t.case[d].state = s.case[d].state
               /\ t.case[d].generation = s.case[d].generation
               /\ t.case[d].closed => s.case[d].closed \/ s.case[d].state = "resolved"
<1>1. PICK c : c = LatestCase(s, {"resolved"})
  OBVIOUS
<1>2. c = NoSignature \/ (c \in Signatures /\ s.case[c].state = "resolved")
  BY <1>1, LatestOfTable
<1>3. CASE c = NoSignature
  BY <1>1, <1>3 DEF RecordNextNode
<1>4. CASE c # NoSignature
  <2>1. c \in Signatures /\ s.case[c].state = "resolved" /\ s \in Table
    BY <1>2, <1>4 DEF TableOK
  <2>2. PICK old \in Case : old = s.case[c]
    BY <2>1, RowFields
  <2>3. PICK row : row = [old EXCEPT !.closed = TRUE]
    OBVIOUS
  <2>4. /\ row \in Case /\ row.state = "resolved" /\ row.generation = s.case[c].generation
    BY <2>1, <2>2, <2>3 DEF Case
  <2>5. t = Put(s, c, row)
    BY <1>1, <1>4, <2>2, <2>3 DEF RecordNextNode
  <2>6. /\ t.case[c] = row /\ t.outbox = s.outbox
        /\ \A d \in Signatures : d # c => t.case[d] = s.case[d]
    BY <2>1, <2>4, <2>5, PutFact
  <2>7. TableOK(Put(s, c, row))
    <3>1. row.generation >= s.case[c].generation
      BY <2>1, <2>4, RowFields
    <3>2. row.state \notin Grillable
      BY <2>4 DEF Grillable
    <3> QED BY <2>1, <2>4, <3>1, <3>2, PutOK
  <2> QED BY <2>1, <2>4, <2>5, <2>6, <2>7
<1> QED BY <1>3, <1>4

LEMMA ExpiryOK ==
  ASSUME NEW s, TableOK(s), NEW c \in Signatures, s.case[c].live,
         NEW t, t = [s EXCEPT !.case[c].live = FALSE]
  PROVE  /\ TableOK(t) /\ t.outbox = s.outbox
         /\ \A d \in Signatures :
               /\ t.case[d].state = s.case[d].state
               /\ t.case[d].generation = s.case[d].generation
               /\ t.case[d].fence = s.case[d].fence
               /\ t.case[d].closed = s.case[d].closed
<1>1. PICK k \in [Signatures -> Case], u \in Seq(Signatures), o \in SUBSET Outcome :
        s = [case |-> k, updated |-> u, outbox |-> o]
  BY DEF TableOK, Table
<1>2. PICK old \in Case : old = k[c]
  OBVIOUS
<1>3. PICK row : row = [old EXCEPT !.live = FALSE]
  OBVIOUS
<1>4. /\ row \in Case /\ row.state = old.state /\ row.generation = old.generation
      /\ row.fence = old.fence /\ row.closed = old.closed
  BY <1>3 DEF Case
<1>5. s.case = k /\ s.updated = u /\ s.outbox = o
  BY <1>1
<1>6. t = [s EXCEPT !.case = [k EXCEPT ![c] = [k[c] EXCEPT !.live = FALSE]]]
  BY <1>5
<1>7. PICK v : v = [k EXCEPT ![c] = row]
  OBVIOUS
<1>8. t = [case |-> v, updated |-> u, outbox |-> o] /\ t.case = v /\ t.updated = u /\ t.outbox = o
  <2>1. t = [case |-> v, updated |-> u, outbox |-> o]
    BY <1>1, <1>2, <1>3, <1>6, <1>7
  <2>2. PICK new : new = [case |-> v, updated |-> u, outbox |-> o]
    OBVIOUS
  <2>3. new.case = v /\ new.updated = u /\ new.outbox = o
    BY <2>2
  <2>4. t = new
    BY <2>1, <2>2
  <2> QED BY <2>2, <2>3, <2>4
<1>9. t.case[c] = row /\ \A d \in Signatures : d # c => t.case[d] = k[d]
  BY <1>7, <1>8
<1>10. \A d \in Signatures :
          /\ t.case[d].state = s.case[d].state
          /\ t.case[d].generation = s.case[d].generation
          /\ t.case[d].fence = s.case[d].fence
          /\ t.case[d].closed = s.case[d].closed
  BY <1>2, <1>4, <1>5, <1>9
<1>11. v \in [Signatures -> Case]
  BY <1>4, <1>7
<1>12. t \in Table
  BY <1>8, <1>11 DEF Table
<1>13. s.case[c].state # "absent"
  <2>1. AbsentCase.live = FALSE
    BY DEF AbsentCase
  <2> QED BY <2>1 DEF TableOK
<1>14. \A d \in Signatures : t.case[d].state = "absent" => t.case[d] = AbsentCase
  <2>1. t.case[c].state # "absent"
    BY <1>10, <1>13
  <2>2. \A d \in Signatures : d # c => t.case[d] = s.case[d]
    BY <1>5, <1>9
  <2> QED BY <2>1, <2>2 DEF TableOK
<1>15. \A d \in Signatures : t.case[d].state # "absent" => Listed(t, d)
  BY <1>5, <1>8, <1>10 DEF TableOK, Listed
<1>16. \A p \in s.outbox : p.case \in Signatures
  BY <1>5 DEF Outcome
<1>17. \A p \in t.outbox :
          /\ p.generation <= t.case[p.case].generation
          /\ t.case[p.case].state \in Grillable \cup {"absent"} =>
                p.generation < t.case[p.case].generation
  BY <1>5, <1>8, <1>10, <1>16 DEF TableOK
<1>18. /\ \A p, q \in t.outbox : p.case = q.case /\ p.generation = q.generation => p = q
       /\ \A d \in Signatures :
             t.case[d].state = "remediation_running" =>
                \E p \in t.outbox : /\ p.case = d
                                    /\ p.generation = t.case[d].generation
                                    /\ p.outcome = "runner-fixable"
  BY <1>5, <1>8, <1>10 DEF TableOK
<1> QED BY <1>5, <1>8, <1>10, <1>12, <1>14, <1>15, <1>17, <1>18 DEF TableOK

-----------------------------------------------------------------------------
\* Steps of the state machine.

LeaseRow == [holder: Workers \cup {Nobody, Gone}, live: BOOLEAN]
Goals == {"active", "human_required", "stopped", "completed"}

LEMMA Fields ==
  ASSUME TypeOK
  PROVE  /\ run.state \in Executable \cup Settled \cup {"running"}
         /\ run.attempts \in Nat /\ run.attempts <= MaxAttempts
         /\ run.ceiling \in Nat /\ run.ceiling <= MaxAttempts
         /\ run.last \in Results /\ run.latest \in Results
         /\ lease \in LeaseRow /\ goal \in Goals
         /\ crew \subseteq Workers
         /\ \A w \in Workers : session[w] \in Session
<1>1. run \in RunRow
  BY DEF TypeOK
<1>2. run.attempts \in 0..MaxAttempts /\ run.ceiling \in Ordinals
  BY <1>1 DEF RunRow
<1>3. run.attempts \in Nat /\ run.attempts <= MaxAttempts
  BY <1>2, OrdinalsFact
<1>4. run.ceiling \in Nat /\ run.ceiling <= MaxAttempts
  BY <1>2, OrdinalsFact
<1>5. crew \subseteq Workers
  BY DEF TypeOK, Workers
<1>6. run.state \in Executable \cup Settled \cup {"running"} /\ run.last \in Results /\ run.latest \in Results
  BY <1>1 DEF RunRow
<1> QED BY <1>3, <1>4, <1>5, <1>6 DEF TypeOK, LeaseRow, Goals

LEMMA CasesFact == Signatures \subseteq Cases /\ NoSignature \in Cases /\ NoSignature \notin Signatures
                   /\ Passed \notin Signatures
BY SignaturesAssumption DEF Cases

LEMMA GotoFact ==
  ASSUME TypeOK, NEW v \in Workers, NEW step \in Steps, Goto(v, step)
  PROVE  \E p, new \in Session :
            /\ p = session[v] /\ session' = [session EXCEPT ![v] = new]
            /\ new.at = step /\ new.case = p.case /\ new.repeated = p.repeated
            /\ new.generation = p.generation /\ new.fence = p.fence
<1>1. session \in [Workers -> Session]
  BY DEF TypeOK
<1>2. PICK p \in Session : p = session[v]
  BY <1>1
<1>3. PICK new : new = [p EXCEPT !.at = step]
  OBVIOUS
<1>4. /\ new \in Session /\ new.at = step /\ new.case = p.case /\ new.repeated = p.repeated
      /\ new.generation = p.generation /\ new.fence = p.fence
  BY <1>3 DEF Session
<1>5. session' = [session EXCEPT ![v] = new]
  BY <1>1, <1>2, <1>3 DEF Goto
<1> QED BY <1>2, <1>4, <1>5

LEMMA ProgressFact ==
  ASSUME TypeOK, NEW v \in Workers, NEW step \in Steps, Progress(v, step)
  PROVE  \E p, new \in Session :
            /\ p = session[v] /\ session' = [session EXCEPT ![v] = new]
            /\ new.at = step /\ new.case = p.case /\ new.repeated = p.repeated
            /\ new.generation = p.generation /\ new.fence = p.fence
<1>1. session \in [Workers -> Session]
  BY DEF TypeOK
<1>2. PICK p \in Session : p = session[v]
  BY <1>1
<1>3. PICK mid : mid = [p EXCEPT !.at = step]
  OBVIOUS
<1>4. /\ mid \in Session /\ mid.at = step /\ mid.case = p.case /\ mid.repeated = p.repeated
      /\ mid.generation = p.generation /\ mid.fence = p.fence
  BY <1>3 DEF Session
<1>5. PICK new : new = [mid EXCEPT !.moved = TRUE]
  OBVIOUS
<1>6. /\ new \in Session /\ new.at = step /\ new.case = p.case /\ new.repeated = p.repeated
      /\ new.generation = p.generation /\ new.fence = p.fence
  BY <1>4, <1>5 DEF Session
<1>7. session' = [session EXCEPT ![v] = new]
  <2>1. session' = [[session EXCEPT ![v].at = step] EXCEPT ![v].moved = TRUE]
    BY DEF Progress
  <2>2. [session EXCEPT ![v].at = step] = [session EXCEPT ![v] = mid]
    BY <1>1, <1>2, <1>3
  <2> QED BY <1>1, <1>5, <2>1, <2>2
<1> QED BY <1>2, <1>6, <1>7

LEMMA OffFact ==
  /\ Off \in Session /\ Off.at = "off"
  /\ [Off EXCEPT !.at = "startup"] \in Session /\ [Off EXCEPT !.at = "startup"].at = "startup"
<1>1. IdleLimit \in Nat /\ IdleLimit >= 1
  BY IdleLimitAssumption
<1>2. Off \in Session /\ Off.at = "off"
  <2>1. 0 \in 0..IdleLimit /\ 0 \in Nat
    BY <1>1
  <2>2. 1 \in Ordinals /\ NoSignature \in Cases /\ NoSignature \in Results
    BY OrdinalsFact, CasesFact DEF Results
  <2>3. "off" \in Steps
    BY DEF Steps
  <2> QED BY <2>1, <2>2, <2>3 DEF Off, Session
<1>3. "startup" \in Steps
  BY DEF Steps
<1> QED BY <1>2, <1>3 DEF Session

\* A process that is not on the run keeps what it relies on: the run and its
\* lease change under the lease, or when nobody's protects it.
LEMMA OthersWork ==
  ASSUME Inv, NEW v, NEW w \in Workers, w # v, NEW p, p = session[w],
         \/ run' = run /\ lease' = lease
            /\ (Bounded(cases, run.attempts - 1) => Bounded(cases', run.attempts - 1))
         \/ lease.holder = v
         \/ ~lease.live,
         run'.attempts >= run.attempts, run'.attempts \in Nat,
         goal = "completed" => goal' = "completed"
  PROVE  WorkOK(w, p)'
<1>1. WorkOK(w, p)
  BY DEF Inv
<1>2. run.attempts \in Nat
  BY Fields DEF Inv
<1>3. CASE p.at \in Leased
  <2>1. lease = [holder |-> w, live |-> TRUE]
    BY <1>1, <1>3 DEF WorkOK
  <2>2. lease.holder # v /\ lease.live
    BY <2>1
  <2>3. /\ run' = run /\ lease' = lease
        /\ Bounded(cases, run.attempts - 1) => Bounded(cases', run.attempts - 1)
    BY <2>2
  <2> QED BY <1>1, <1>3, <2>3 DEF WorkOK, Leased
<1>4. CASE p.at \notin Leased
  <2>1. p.at = "ensuring" => run'.attempts >= 2
    BY <1>1, <1>2 DEF WorkOK
  <2>2. p.at \notin {"ready", "working", "booking"}
    BY <1>4 DEF Leased
  <2>3. /\ p.at \in {"ensuring", "claiming", "judging"} => p.case \in Signatures
        /\ p.at = "closing" => goal' = "completed"
    BY <1>1 DEF WorkOK
  <2> QED BY <1>4, <2>1, <2>2, <2>3 DEF WorkOK
<1> QED BY <1>3, <1>4

LEMMA ActorStep ==
  ASSUME Inv, NEW v \in Workers, v \in crew,
         NEW new \in Session, session' = [session EXCEPT ![v] = new],
         UNCHANGED <<crew, flaky>>, crashes' \in 0..MaxCrashes, revivals' \in 0..MaxRevivals,
         run' \in RunRow, lease' \in LeaseRow, goal' \in Goals,
         TableOK(cases'), Bounded(cases', run'.attempts), RunOK', ClosedOK',
         \/ run' = run /\ lease' = lease
            /\ (Bounded(cases, run.attempts - 1) => Bounded(cases', run.attempts - 1))
         \/ lease.holder = v
         \/ ~lease.live,
         run'.attempts >= run.attempts,
         goal = "completed" => goal' = "completed",
         WorkOK(v, new)',
         crew = {v} => AloneOK(new)',
         crew = {v} /\ Calm' => CalmOK(new)'
  PROVE  Inv'
<1>1. session \in [Workers -> Session]
  BY DEF Inv, TypeOK
<1>2. session' \in [Workers -> Session] /\ session'[v] = new
      /\ \A w \in Workers : w # v => session'[w] = session[w]
  BY <1>1
<1>3. TypeOK'
  BY <1>2 DEF Inv, TypeOK, TableOK, LeaseRow, Goals
<1>4. run'.attempts \in Nat
  BY OrdinalsFact DEF RunRow
<1>5. ASSUME NEW w \in Workers PROVE WorkOK(w, session[w])'
  <2>1. CASE w = v
    BY <1>2, <2>1 DEF WorkOK
  <2>2. CASE w # v
    <3>1. PICK p : p = session[w]
      OBVIOUS
    <3>2. WorkOK(w, p)'
      BY <1>4, <2>2, <3>1, OthersWork
    <3>3. session'[w] = p
      BY <1>2, <2>2, <3>1
    <3> QED BY <3>2, <3>3 DEF WorkOK
  <2> QED BY <2>1, <2>2
<1>6. ASSUME NEW w \in Workers, crew' = {w} PROVE AloneOK(session[w])' /\ (Calm' => CalmOK(session[w])')
  <2>1. w = v /\ crew = {v}
    BY <1>6
  <2>2. AloneOK(session[w])'
    BY <1>2, <2>1 DEF AloneOK
  <2>3. Calm' => CalmOK(session[w])'
    BY <1>2, <2>1 DEF CalmOK
  <2> QED BY <2>2, <2>3
<1> QED BY <1>3, <1>5, <1>6 DEF Inv

LEMMA Kept ==
  ASSUME Inv
  PROVE  /\ run \in RunRow /\ lease \in LeaseRow /\ goal \in Goals
         /\ TableOK(cases) /\ Bounded(cases, run.attempts) /\ RunOK /\ ClosedOK
         /\ crashes \in 0..MaxCrashes /\ revivals \in 0..MaxRevivals
         /\ run.attempts \in Nat /\ run.attempts <= MaxAttempts
BY Fields DEF Inv, TypeOK, LeaseRow, Goals

LEMMA Mine ==
  ASSUME Inv, NEW v \in Workers, NEW p, p = session[v]
  PROVE  /\ p \in Session /\ WorkOK(v, p)
         /\ crew = {v} => AloneOK(p)
         /\ crew = {v} /\ Calm => CalmOK(p)
BY DEF Inv, TypeOK

\* The steps of which nothing is asked.
Plain == {"off", "startup", "event", "dispatch", "ending", "reducing", "advancing"}

LEMMA PlainWork ==
  ASSUME NEW v, NEW new, new.at \in Plain
  PROVE  WorkOK(v, new) /\ WorkOK(v, new)'
BY DEF Plain, WorkOK, Leased

LEMMA SessionStep ==
  ASSUME Inv, NEW v \in Workers, v \in crew,
         NEW new \in Session, session' = [session EXCEPT ![v] = new],
         UNCHANGED <<store, bounds>>,
         WorkOK(v, new), crew = {v} => AloneOK(new), crew = {v} /\ Calm => CalmOK(new)
  PROVE  Inv'
<1>1. UNCHANGED <<run, lease, cases, goal, crew, flaky, crashes, revivals>>
  BY DEF store, bounds
<1>2. WorkOK(v, new)' /\ (crew = {v} => AloneOK(new)') /\ (crew = {v} /\ Calm' => CalmOK(new)')
  BY <1>1 DEF WorkOK, AloneOK, CalmOK, Calm, Remedied, NoneGrillable, ShouldGrill, HoldsClaim, Bounded
<1>3. RunOK' /\ ClosedOK'
  BY <1>1, Kept DEF RunOK, ClosedOK
<1>4. /\ run' \in RunRow /\ lease' \in LeaseRow /\ goal' \in Goals
      /\ crashes' \in 0..MaxCrashes /\ revivals' \in 0..MaxRevivals
      /\ TableOK(cases') /\ Bounded(cases', run'.attempts) /\ run'.attempts >= run.attempts
  BY <1>1, Kept
<1>5. /\ run' = run /\ lease' = lease
      /\ Bounded(cases, run.attempts - 1) => Bounded(cases', run.attempts - 1)
  BY <1>1
<1> QED BY <1>1, <1>2, <1>3, <1>4, <1>5, ActorStep

LEMMA PlainStep ==
  ASSUME Inv, NEW v \in Workers, v \in crew, session[v].at # "parking",
         NEW new \in Session, new.at \in Plain, session' = [session EXCEPT ![v] = new],
         UNCHANGED <<store, bounds>>
  PROVE  Inv'
<1>1. PICK p : p = session[v]
  OBVIOUS
<1>2. WorkOK(v, new)
  BY PlainWork
<1>3. ASSUME crew = {v} PROVE AloneOK(new)
  <2>1. AloneOK(p)
    BY <1>1, <1>3, Mine
  <2> QED BY <2>1 DEF AloneOK, Plain, Deciding, Attempting
<1>4. ASSUME crew = {v}, Calm PROVE CalmOK(new)
  <2>1. CalmOK(p) /\ p.at # "parking"
    BY <1>1, <1>4, Mine
  <2> QED BY <2>1 DEF CalmOK, Plain, Attempting
<1> QED BY <1>2, <1>3, <1>4, SessionStep

\* A step that changes the failure cases only.
LEMMA CasesStep ==
  ASSUME Inv, NEW v \in Workers, v \in crew,
         NEW new \in Session, session' = [session EXCEPT ![v] = new],
         UNCHANGED <<run, lease, goal, bounds>>,
         TableOK(cases'), Bounded(cases', run.attempts), ClosedOK',
         \/ Bounded(cases, run.attempts - 1) => Bounded(cases', run.attempts - 1)
         \/ lease.holder = v,
         WorkOK(v, new)', crew = {v} => AloneOK(new)', crew = {v} /\ Calm => CalmOK(new)'
  PROVE  Inv'
<1>1. UNCHANGED <<run, lease, goal, crew, flaky, crashes, revivals>>
  BY DEF bounds
<1>2. RunOK' /\ (Calm' <=> Calm)
  BY <1>1, Kept DEF RunOK, Calm
<1>3. /\ run' \in RunRow /\ lease' \in LeaseRow /\ goal' \in Goals
      /\ crashes' \in 0..MaxCrashes /\ revivals' \in 0..MaxRevivals
      /\ Bounded(cases', run'.attempts) /\ run'.attempts >= run.attempts
  BY <1>1, Kept
<1>4. \/ /\ run' = run /\ lease' = lease
         /\ Bounded(cases, run.attempts - 1) => Bounded(cases', run.attempts - 1)
      \/ lease.holder = v
  BY <1>1
<1>5. (crew = {v} => AloneOK(new)') /\ (crew = {v} /\ Calm' => CalmOK(new)')
  BY <1>2
<1> QED BY <1>1, <1>2, <1>3, <1>4, <1>5, ActorStep

\* The goal leaves "active", or the session ends.
LEMMA GoalStep ==
  ASSUME Inv, NEW v \in Workers, v \in crew,
         NEW state \in Goals \ {"active"}, NEW step \in Plain \cup {"closing"},
         MoveGoal(v, state, step), UNCHANGED <<run, lease, cases, bounds>>,
         step = "closing" => state = "completed",
         crew = {v} /\ goal = "active" /\ state # "completed" =>
            \A c \in Signatures : cases.case[c].state # "resolved"
  PROVE  Inv'
<1>1. UNCHANGED <<run, lease, cases, crew, flaky, crashes, revivals>>
  BY DEF bounds
<1>2. PICK new \in Session :
         /\ session' = [session EXCEPT ![v] = new]
         /\ \/ goal = "active" /\ goal' = state /\ new.at = step
            \/ goal # "active" /\ goal' = goal /\ new.at = "off"
  <2>1. CASE goal = "active"
    <3>1. goal' = state /\ Progress(v, step)
      BY <2>1 DEF MoveGoal
    <3>2. step \in Steps
      BY DEF Plain, Steps
    <3> QED BY <2>1, <3>1, <3>2, ProgressFact DEF Inv
  <2>2. CASE goal # "active"
    BY <2>2, OffFact DEF MoveGoal
  <2> QED BY <2>1, <2>2
<1>3. goal' \in Goals /\ goal' # "active" /\ (goal = "completed" => goal' = "completed")
  BY <1>2, Kept
<1>4. RunOK' /\ (Calm' <=> Calm)
  BY <1>1, Kept DEF RunOK, Calm
<1>5. ClosedOK'
  BY <1>1, <1>3, Kept DEF ClosedOK
<1>6. WorkOK(v, new)'
  <2>1. CASE new.at \in Plain
    BY <2>1, PlainWork
  <2>2. CASE new.at = "closing"
    BY <1>2, <2>2 DEF WorkOK, Leased
  <2> QED BY <1>2, <2>1, <2>2 DEF Plain
<1>7. new.at \in {"off", "startup", "event", "dispatch", "ending", "reducing", "advancing", "closing"}
  BY <1>2 DEF Plain
<1>8. PICK p : p = session[v]
  OBVIOUS
<1>9. ASSUME crew = {v} PROVE AloneOK(new)'
  <2>1. AloneOK(p)
    BY <1>8, <1>9, Mine
  <2>2. \A c \in Signatures :
           cases'.case[c].state = "resolved" =>
              /\ run'.state = "verified" /\ run'.value = "green"
              /\ goal' \in {"active", "completed"}
    BY <1>1, <1>2, <1>9, <2>1 DEF AloneOK
  <2> QED BY <1>7, <2>2 DEF AloneOK, Deciding, Attempting
<1>10. ASSUME crew = {v}, Calm PROVE CalmOK(new)'
  <2>1. CalmOK(p)
    BY <1>8, <1>10, Mine
  <2>2. NoneGrillable' <=> NoneGrillable
    BY <1>1 DEF NoneGrillable
  <2> QED BY <1>1, <1>3, <1>7, <2>1, <2>2 DEF CalmOK, Attempting
<1>11. /\ run' \in RunRow /\ lease' \in LeaseRow
       /\ crashes' \in 0..MaxCrashes /\ revivals' \in 0..MaxRevivals
       /\ TableOK(cases') /\ Bounded(cases', run'.attempts) /\ run'.attempts >= run.attempts
  BY <1>1, Kept
<1>12. /\ run' = run /\ lease' = lease
       /\ Bounded(cases, run.attempts - 1) => Bounded(cases', run.attempts - 1)
  BY <1>1
<1>13. crew = {v} /\ Calm' => CalmOK(new)'
  BY <1>4, <1>10
<1> QED BY <1>1, <1>2, <1>3, <1>4, <1>5, <1>6, <1>9, <1>11, <1>12, <1>13, ActorStep

-----------------------------------------------------------------------------
\* The session and the head of a tick.

LEMMA StartSessionStep ==
  ASSUME Inv, NEW v \in Workers, StartSession(v)
  PROVE  Inv'
<1>1. v \in crew /\ session[v].at = "off" /\ Goto(v, "startup") /\ UNCHANGED <<store, bounds>>
  BY DEF StartSession, At
<1>2. PICK new \in Session : session' = [session EXCEPT ![v] = new] /\ new.at = "startup"
  BY <1>1, GotoFact DEF Inv, Steps
<1> QED BY <1>1, <1>2, PlainStep DEF Plain

LEMMA EndTickStep ==
  ASSUME Inv, NEW v \in Workers, EndTick(v)
  PROVE  Inv'
<1>1. v \in crew /\ session[v].at = "ending" /\ UNCHANGED <<store, bounds>>
  BY DEF EndTick, At
<1>2. PICK new \in Session : session' = [session EXCEPT ![v] = new] /\ new.at \in {"off", "startup"}
  <2>1. CASE session[v].moved
    BY <2>1, OffFact DEF EndTick
  <2>2. CASE ~session[v].moved /\ session[v].idle + 1 >= IdleLimit
    BY <2>2, OffFact DEF EndTick
  <2>3. CASE ~session[v].moved /\ ~(session[v].idle + 1 >= IdleLimit)
    <3>1. PICK streak : streak = session[v].idle + 1
      OBVIOUS
    <3>2. streak \in 0..IdleLimit
      <4>1. session[v].idle \in 0..IdleLimit
        BY Mine DEF Session
      <4>2. session[v].idle \in Nat /\ IdleLimit \in Nat
        BY <4>1, IdleLimitAssumption
      <4> QED BY <2>3, <3>1, <4>2
    <3>3. PICK first : first = [Off EXCEPT !.at = "startup"]
      OBVIOUS
    <3>4. first \in Session /\ first.at = "startup"
      BY <3>3, OffFact
    <3>5. PICK new : new = [first EXCEPT !.idle = streak]
      OBVIOUS
    <3>6. new \in Session /\ new.at = "startup"
      BY <3>2, <3>4, <3>5 DEF Session
    <3>7. session' = [session EXCEPT ![v] = new]
      BY <2>3, <3>1, <3>3, <3>5 DEF EndTick
    <3> QED BY <3>6, <3>7
  <2> QED BY <2>1, <2>2, <2>3
<1> QED BY <1>1, <1>2, PlainStep DEF Plain

LEMMA NothingToReduceStep ==
  ASSUME Inv, NEW v \in Workers, NothingToReduce(v)
  PROVE  Inv'
<1>1. PICK step : step = session[v].then
  OBVIOUS
<1>2. step \in {"event", "ending"}
  BY <1>1, Mine DEF Session
<1>3. v \in crew /\ session[v].at = "reducing" /\ Goto(v, step) /\ UNCHANGED <<store, bounds>>
  BY <1>1 DEF NothingToReduce, At
<1>4. PICK new \in Session : session' = [session EXCEPT ![v] = new] /\ new.at = step
  BY <1>2, <1>3, GotoFact DEF Inv, Steps
<1> QED BY <1>2, <1>3, <1>4, PlainStep DEF Plain

LEMMA NoneOpenFact ==
  ASSUME TableOK(cases), LatestCase(cases, Grillable) = NoSignature
  PROVE  NoneGrillable
<1>1. "absent" \notin Grillable
  BY DEF Grillable
<1> QED BY <1>1, LatestOfTable DEF NoneGrillable

LEMMA DispatchStep ==
  ASSUME Inv, NEW v \in Workers, Dispatch(v)
  PROVE  Inv'
<1>1. PICK p \in Session : p = session[v]
  BY Mine
<1>2. v \in crew /\ p.at = "dispatch" /\ UNCHANGED <<store, bounds>>
  BY <1>1 DEF Dispatch, At
<1>3. PICK open : open = LatestCase(cases, Grillable)
  OBVIOUS
<1>4. open = NoSignature => NoneGrillable
  BY <1>3, NoneOpenFact, Kept
<1>5. open = NoSignature \/ (open \in Signatures /\ cases.case[open].state \in Grillable)
  BY <1>3, LatestOfTable, Kept DEF Grillable
<1>6. CASE ~Eligible
  <2>1. PICK new : new = [p EXCEPT !.at = "ending"]
    OBVIOUS
  <2>2. new \in Session /\ new.at = "ending"
    BY <2>1 DEF Session, Steps
  <2>3. session' = [session EXCEPT ![v] = new]
    BY <1>1, <1>6, <2>1 DEF Dispatch
  <2> QED BY <1>1, <1>2, <2>2, <2>3, PlainStep DEF Plain
<1>7. CASE Eligible /\ open # NoSignature
  <2>1. PICK mid : mid = [p EXCEPT !.at = "claiming"]
    OBVIOUS
  <2>2. mid \in Session /\ mid.at = "claiming"
    BY <2>1 DEF Session, Steps
  <2>3. PICK new : new = [mid EXCEPT !.case = open]
    OBVIOUS
  <2>4. new \in Session /\ new.at = "claiming" /\ new.case = open
    BY <1>5, <1>7, <2>2, <2>3, CasesFact DEF Session
  <2>5. session' = [session EXCEPT ![v] = new]
    BY <1>1, <1>3, <1>7, <2>1, <2>3 DEF Dispatch
  <2>6. WorkOK(v, new)
    BY <1>5, <1>7, <2>4 DEF WorkOK, Leased
  <2>7. ASSUME crew = {v} PROVE AloneOK(new)
    <3>1. AloneOK(p)
      BY <1>1, <2>7, Mine
    <3> QED BY <1>7, <2>4, <3>1 DEF AloneOK, Eligible, Attempting
  <2>8. ASSUME crew = {v}, Calm PROVE CalmOK(new)
    <3>1. CalmOK(p)
      BY <1>1, <2>8, Mine
    <3> QED BY <1>2, <1>5, <1>7, <2>4, <3>1 DEF CalmOK, Attempting
  <2> QED BY <1>2, <2>4, <2>5, <2>6, <2>7, <2>8, SessionStep
<1>8. CASE Eligible /\ open = NoSignature /\ ShouldGrill /\ run.latest \in Signatures
  <2>1. PICK mid : mid = [p EXCEPT !.at = "ensuring"]
    OBVIOUS
  <2>2. mid \in Session /\ mid.at = "ensuring"
    BY <2>1 DEF Session, Steps
  <2>3. PICK new : new = [mid EXCEPT !.case = run.latest]
    OBVIOUS
  <2>4. new \in Session /\ new.at = "ensuring" /\ new.case = run.latest
    BY <1>8, <2>2, <2>3, CasesFact DEF Session
  <2>5. session' = [session EXCEPT ![v] = new]
    BY <1>1, <1>3, <1>8, <2>1, <2>3 DEF Dispatch
  <2>6. WorkOK(v, new)
    BY <1>8, <2>4 DEF WorkOK, Leased, ShouldGrill
  <2>7. ASSUME crew = {v} PROVE AloneOK(new)
    <3>1. AloneOK(p)
      BY <1>1, <2>7, Mine
    <3> QED BY <1>8, <2>4, <3>1 DEF AloneOK, Eligible, Attempting
  <2>8. ASSUME crew = {v}, Calm PROVE CalmOK(new)
    <3>1. CalmOK(p)
      BY <1>1, <2>8, Mine
    <3>2. run.attempts < MaxAttempts
      BY <1>8, OrdinalsFact DEF ShouldGrill
    <3> QED BY <1>2, <1>4, <1>8, <2>4, <3>1, <3>2 DEF CalmOK
  <2> QED BY <1>2, <2>4, <2>5, <2>6, <2>7, <2>8, SessionStep
<1>9. CASE Eligible /\ open = NoSignature /\ ~(ShouldGrill /\ run.latest \in Signatures)
  <2>1. PICK new : new = [p EXCEPT !.at = "recovering"]
    OBVIOUS
  <2>2. new \in Session /\ new.at = "recovering"
    BY <2>1 DEF Session, Steps
  <2>3. session' = [session EXCEPT ![v] = new]
    BY <1>1, <1>3, <1>9, <2>1 DEF Dispatch
  <2>4. WorkOK(v, new)
    BY <2>2 DEF WorkOK, Leased
  <2>5. ASSUME crew = {v} PROVE AloneOK(new)
    <3>1. AloneOK(p)
      BY <1>1, <2>5, Mine
    <3> QED BY <1>9, <2>2, <3>1 DEF AloneOK, Eligible
  <2>6. ASSUME crew = {v}, Calm PROVE CalmOK(new)
    <3>1. CalmOK(p)
      BY <1>1, <2>6, Mine
    <3> QED BY <1>2, <1>4, <1>9, <2>2, <3>1 DEF CalmOK
  <2> QED BY <1>2, <2>2, <2>3, <2>4, <2>5, <2>6, SessionStep
<1> QED BY <1>6, <1>7, <1>8, <1>9

-----------------------------------------------------------------------------
\* The challenger.

LEMMA EnsureCaseStep ==
  ASSUME Inv, NEW v \in Workers, EnsureCase(v)
  PROVE  Inv'
<1>1. PICK p \in Session, new \in Session :
         /\ p = session[v] /\ session' = [session EXCEPT ![v] = new]
         /\ new.at = "claiming" /\ new.case = p.case
  BY GotoFact DEF EnsureCase, Inv, Steps
<1>2. /\ v \in crew /\ p.at = "ensuring" /\ UNCHANGED <<run, lease, goal, bounds>>
      /\ cases' = EnsureFailureCase(cases, p.case)
  BY <1>1 DEF EnsureCase, At
<1>3. UNCHANGED <<run, lease, goal>>
  BY <1>2
<1>4. run.attempts >= 2 /\ run.attempts \in Nat /\ p.case \in Signatures
  BY <1>1, <1>2, Mine, Kept DEF WorkOK
<1>5. PICK c \in Signatures : c = p.case
  BY <1>4
<1>6. PICK t : t = EnsureFailureCase(cases, c)
  OBVIOUS
<1>7. /\ TableOK(t) /\ t.outbox = cases.outbox
      /\ \A d \in Signatures : d # c => t.case[d] = cases.case[d]
      /\ cases.case[c].state # "absent" => t = cases
      /\ cases.case[c].state = "absent" =>
            /\ t.case[c].state = "grill_required"
            /\ t.case[c].generation = AbsentCase.generation
            /\ ~t.case[c].closed
  BY <1>6, EnsureOK, Kept
<1>8. cases' = t
  BY <1>2, <1>5, <1>6
<1>9. \A m \in Nat : m >= 1 /\ Bounded(cases, m) => Bounded(t, m)
  BY <1>7, AbsentFact DEF Bounded
<1>10. Bounded(t, run.attempts) /\ (Bounded(cases, run.attempts - 1) => Bounded(t, run.attempts - 1))
  <2>1. run.attempts - 1 \in Nat /\ run.attempts - 1 >= 1
    BY <1>4
  <2>2. Bounded(cases, run.attempts) /\ run.attempts >= 1
    BY <1>4, Kept
  <2> QED BY <1>4, <1>9, <2>1, <2>2
<1>11. \A d \in Signatures :
          t.case[d].state \in {"resolved", "remediation_running"} \/ t.case[d].closed =>
             t.case[d] = cases.case[d]
  BY <1>7
<1>12. ClosedOK'
  BY <1>3, <1>8, <1>11, Kept DEF ClosedOK
<1>13. WorkOK(v, new)'
  BY <1>1, <1>4 DEF WorkOK, Leased
<1>14. ASSUME crew = {v} PROVE AloneOK(new)'
  <2>1. AloneOK(p)
    BY <1>1, <1>14, Mine
  <2>2. run.state \in Executable /\ goal = "active"
    BY <1>2, <2>1 DEF AloneOK, Deciding
  <2>3. \A d \in Signatures :
           cases'.case[d].state = "resolved" =>
              /\ run'.state = "verified" /\ run'.value = "green"
              /\ goal' \in {"active", "completed"}
    BY <1>3, <1>8, <1>11, <2>1 DEF AloneOK
  <2> QED BY <1>1, <1>3, <2>2, <2>3 DEF AloneOK, Attempting
<1>15. ASSUME crew = {v}, Calm PROVE CalmOK(new)'
  <2>1. CalmOK(p)
    BY <1>1, <1>15, Mine
  <2>2. NoneGrillable /\ run.attempts < MaxAttempts
    BY <1>2, <2>1 DEF CalmOK
  <2>3. \A d \in Signatures : t.case[d].state \in Grillable => d = c
    BY <1>7, <2>2 DEF NoneGrillable
  <2>4. goal = "active" => \A o \in t.outbox : o.outcome = "runner-fixable"
    BY <1>2, <1>7, <2>1 DEF CalmOK
  <2>5. run.attempts # MaxAttempts
    BY <1>4, <2>2
  <2> QED BY <1>1, <1>3, <1>5, <1>8, <2>3, <2>4, <2>5 DEF CalmOK, Attempting
<1> QED BY <1>1, <1>2, <1>7, <1>8, <1>10, <1>12, <1>13, <1>14, <1>15, CasesStep

LEMMA ClaimStep ==
  ASSUME Inv, NEW v \in Workers, Claim(v)
  PROVE  Inv'
<1>1. PICK p \in Session : p = session[v]
  BY Mine
<1>2. v \in crew /\ p.at = "claiming" /\ UNCHANGED <<run, lease, goal, bounds>>
  BY <1>1 DEF Claim, At
<1>3. UNCHANGED <<run, lease, goal>>
  BY <1>2
<1>4. PICK c \in Signatures : c = p.case
  BY <1>1, <1>2, Mine DEF WorkOK
<1>5. CASE ~CanClaim(cases, c)
  <2>1. Progress(v, "ending") /\ UNCHANGED cases
    BY <1>1, <1>4, <1>5 DEF Claim
  <2>2. PICK new \in Session : session' = [session EXCEPT ![v] = new] /\ new.at = "ending"
    BY <2>1, ProgressFact DEF Inv, Steps
  <2> QED BY <1>1, <1>2, <2>1, <2>2, PlainStep DEF Plain, store
<1>6. CASE CanClaim(cases, c)
  <2>1. PICK t : t = ClaimGrill(cases, c)
    OBVIOUS
  <2>2. /\ TableOK(t) /\ t.outbox = cases.outbox
        /\ \A d \in Signatures : d # c => t.case[d] = cases.case[d]
        /\ t.case[c].state = "grill_claimed"
        /\ t.case[c].generation = cases.case[c].generation
        /\ t.case[c].fence = cases.case[c].fence + 1
        /\ t.case[c].closed = cases.case[c].closed
        /\ cases.case[c].state \in Grillable
    BY <1>6, <2>1, ClaimOK, Kept
  <2>3. cases' = t
    BY <1>1, <1>4, <1>6, <2>1 DEF Claim
  <2>4. PICK new \in Session :
           /\ session' = [session EXCEPT ![v] = new]
           /\ new.at = "judging" /\ new.case = c
           /\ new.generation = t.case[c].generation /\ new.fence = t.case[c].fence
    <3>1. PICK g, f : g = cases.case[c].generation /\ f = cases.case[c].fence + 1
      OBVIOUS
    <3>2. g \in Ordinals /\ f \in Nat
      BY <3>1, RowFields, Kept DEF TableOK
    <3>3. PICK first : first = [p EXCEPT !.at = "judging"]
      OBVIOUS
    <3>4. first \in Session /\ first.at = "judging" /\ first.case = c
      BY <1>4, <3>3 DEF Session, Steps
    <3>5. PICK second : second = [first EXCEPT !.generation = g]
      OBVIOUS
    <3>6. /\ second \in Session /\ second.at = "judging" /\ second.case = c
          /\ second.generation = g
      BY <3>2, <3>4, <3>5 DEF Session
    <3>7. PICK new : new = [second EXCEPT !.fence = f]
      OBVIOUS
    <3>8. /\ new \in Session /\ new.at = "judging" /\ new.case = c
          /\ new.generation = g /\ new.fence = f
      BY <3>2, <3>6, <3>7 DEF Session
    <3>9. session' = [session EXCEPT ![v] = new]
      <4>1. session \in [Workers -> Session]
        BY DEF Inv, TypeOK
      <4>2. session' = [[[session EXCEPT ![v].at = "judging"]
                                  EXCEPT ![v].generation = g] EXCEPT ![v].fence = f]
        BY <1>1, <1>4, <1>6, <3>1 DEF Claim
      <4>3. [session EXCEPT ![v].at = "judging"] = [session EXCEPT ![v] = first]
        BY <1>1, <3>3, <4>1
      <4>4. [[session EXCEPT ![v] = first] EXCEPT ![v].generation = g] = [session EXCEPT ![v] = second]
        BY <3>5, <4>1
      <4>5. [[session EXCEPT ![v] = second] EXCEPT ![v].fence = f] = [session EXCEPT ![v] = new]
        BY <3>7, <4>1
      <4> QED BY <4>2, <4>3, <4>4, <4>5
    <3> QED BY <2>2, <3>1, <3>8, <3>9
  <2>5. \A d \in Signatures :
           /\ t.case[d].state = "absent" <=> cases.case[d].state = "absent"
           /\ t.case[d].generation = cases.case[d].generation
    BY <2>2 DEF Grillable
  <2>6. \A m \in Nat : Bounded(cases, m) => Bounded(t, m)
    BY <2>5 DEF Bounded
  <2>7. Bounded(t, run.attempts)
    BY <2>6, Kept
  <2>8. Bounded(cases, run.attempts - 1) => Bounded(t, run.attempts - 1)
    BY <2>5 DEF Bounded
  <2>9. \A d \in Signatures :
           t.case[d].state \in {"resolved", "remediation_running"} => t.case[d] = cases.case[d]
    BY <2>2
  <2>10. ClosedOK'
    <3>1. ~cases.case[c].closed
      BY <2>2, Kept DEF ClosedOK, Grillable
    <3>2. \A d \in Signatures : t.case[d].closed => t.case[d] = cases.case[d]
      BY <2>2, <3>1
    <3> QED BY <1>3, <2>3, <3>2, Kept DEF ClosedOK
  <2>11. WorkOK(v, new)'
    BY <2>4 DEF WorkOK, Leased
  <2>12. ASSUME crew = {v} PROVE AloneOK(new)'
    <3>1. AloneOK(p)
      BY <1>1, <2>12, Mine
    <3>2. run.state \in Executable /\ goal = "active"
      BY <1>2, <3>1 DEF AloneOK, Deciding
    <3>3. \A d \in Signatures :
             cases'.case[d].state = "resolved" =>
                /\ run'.state = "verified" /\ run'.value = "green"
                /\ goal' \in {"active", "completed"}
      BY <1>3, <2>3, <2>9, <3>1 DEF AloneOK
    <3>4. HoldsClaim(cases, new.case, new.generation, new.fence)'
      BY <2>2, <2>3, <2>4 DEF HoldsClaim
    <3> QED BY <1>3, <2>4, <3>2, <3>3, <3>4 DEF AloneOK, Attempting
  <2>13. ASSUME crew = {v}, Calm PROVE CalmOK(new)'
    <3>1. CalmOK(p)
      BY <1>1, <2>13, Mine
    <3>2. \A d \in Signatures : t.case[d].state \in Grillable => d = c
      BY <1>2, <1>4, <2>2, <3>1 DEF CalmOK
    <3>3. goal = "active" => \A o \in t.outbox : o.outcome = "runner-fixable"
      BY <1>2, <2>2, <3>1 DEF CalmOK
    <3>4. run.attempts # MaxAttempts
      BY <2>2, <3>1 DEF CalmOK, NoneGrillable
    <3> QED BY <1>3, <2>3, <2>4, <3>2, <3>3, <3>4 DEF CalmOK, Attempting
  <2> QED BY <1>2, <2>2, <2>3, <2>4, <2>7, <2>8, <2>10, <2>11, <2>12, <2>13, CasesStep
<1> QED BY <1>5, <1>6

LEMMA JudgeStep ==
  ASSUME Inv, NEW v \in Workers, Judge(v)
  PROVE  Inv'
<1>1. PICK p \in Session : p = session[v]
  BY Mine
<1>2. v \in crew /\ p.at = "judging" /\ UNCHANGED <<run, lease, goal, bounds>>
  BY <1>1 DEF Judge, At
<1>3. UNCHANGED <<run, lease, goal>>
  BY <1>2
<1>4. PICK c \in Signatures : c = p.case
  BY <1>1, <1>2, Mine DEF WorkOK
<1>5. PICK g, f : g = p.generation /\ f = p.fence
  OBVIOUS
<1>6. PICK outcome \in Outcomes :
         /\ cases' = RecordOutcome(cases, c, g, f, outcome)
         /\ Goto(v, AfterJudgement(outcome))
  BY <1>1, <1>4, <1>5 DEF Judge
<1>7. PICK step \in Steps : /\ step = AfterJudgement(outcome)
                            /\ step = IF outcome = "runner-fixable" THEN "recovering" ELSE "parking"
  BY DEF AfterJudgement, Steps
<1>8. PICK new \in Session : session' = [session EXCEPT ![v] = new] /\ new.at = step
  BY <1>6, <1>7, GotoFact DEF Inv
<1>9. PICK t : t = RecordOutcome(cases, c, g, f, outcome)
  OBVIOUS
<1>10. /\ TableOK(t)
       /\ ~HoldsClaim(cases, c, g, f) => t = cases
       /\ HoldsClaim(cases, c, g, f) =>
             /\ cases.case[c].state = "grill_claimed"
             /\ \A d \in Signatures : d # c => t.case[d] = cases.case[d]
             /\ t.case[c].state = IF outcome = "runner-fixable"
                                  THEN "remediation_running" ELSE "human_required"
             /\ t.case[c].generation = cases.case[c].generation
             /\ t.case[c].closed = cases.case[c].closed
             /\ \A o \in t.outbox : o \in cases.outbox \/ o.outcome = outcome
  BY <1>9, OutcomeOK, Kept
<1>11. cases' = t
  BY <1>6, <1>9
<1>12. \A d \in Signatures :
          /\ t.case[d].state = "absent" <=> cases.case[d].state = "absent"
          /\ t.case[d].generation = cases.case[d].generation
          /\ t.case[d].closed = cases.case[d].closed
          /\ t.case[d].state = "resolved" <=> cases.case[d].state = "resolved"
          /\ t.case[d].state \in Grillable => cases.case[d].state \in Grillable
  BY <1>10 DEF Grillable
<1>13. Bounded(t, run.attempts) /\ (Bounded(cases, run.attempts - 1) => Bounded(t, run.attempts - 1))
  BY <1>12, Kept DEF Bounded
<1>14. ClosedOK'
  BY <1>3, <1>11, <1>12, Kept DEF ClosedOK
<1>15. WorkOK(v, new)'
  BY <1>7, <1>8 DEF WorkOK, Leased
<1>16. ASSUME crew = {v} PROVE AloneOK(new)'
  <2>1. AloneOK(p)
    BY <1>1, <1>16, Mine
  <2>2. run.state \in Executable /\ goal = "active" /\ HoldsClaim(cases, c, g, f)
    BY <1>2, <1>4, <1>5, <2>1 DEF AloneOK, Deciding
  <2>3. \A d \in Signatures :
           cases'.case[d].state = "resolved" =>
              /\ run'.state = "verified" /\ run'.value = "green"
              /\ goal' \in {"active", "completed"}
    BY <1>3, <1>11, <1>12, <2>1 DEF AloneOK
  <2>4. step = "recovering" => Remedied'
    BY <1>7, <1>10, <1>11, <2>2 DEF Remedied
  <2> QED BY <1>3, <1>7, <1>8, <2>2, <2>3, <2>4 DEF AloneOK, Attempting
<1>17. ASSUME crew = {v}, Calm PROVE CalmOK(new)'
  <2>1. CalmOK(p) /\ AloneOK(p)
    BY <1>1, <1>17, Mine
  <2>2. HoldsClaim(cases, c, g, f)
    BY <1>2, <1>4, <1>5, <2>1 DEF AloneOK
  <2>3. \A d \in Signatures : t.case[d].state \notin Grillable
    <3>1. \A d \in Signatures : cases.case[d].state \in Grillable => d = c
      BY <1>2, <1>4, <2>1 DEF CalmOK
    <3>2. t.case[c].state \notin Grillable
      BY <1>10, <2>2 DEF Grillable
    <3> QED BY <1>12, <3>1, <3>2
  <2>4. step = "recovering" /\ goal = "active" => \A o \in t.outbox : o.outcome = "runner-fixable"
    BY <1>2, <1>7, <1>10, <2>1, <2>2 DEF CalmOK
  <2> QED BY <1>3, <1>7, <1>8, <1>11, <2>3, <2>4 DEF CalmOK, NoneGrillable
<1> QED BY <1>2, <1>8, <1>10, <1>11, <1>13, <1>14, <1>15, <1>16, <1>17, CasesStep

LEMMA ParkStep ==
  ASSUME Inv, NEW v \in Workers, Park(v)
  PROVE  Inv'
<1>1. PICK p \in Session : p = session[v]
  BY Mine
<1>2. /\ v \in crew /\ p.at = "parking" /\ MoveGoal(v, "human_required", "reducing")
      /\ UNCHANGED <<run, lease, cases, bounds>>
  BY <1>1 DEF Park, At
<1>3. ASSUME crew = {v}, NEW c \in Signatures PROVE cases.case[c].state # "resolved"
  <2>1. AloneOK(p)
    BY <1>1, <1>3, Mine
  <2>2. run.state \in Executable
    BY <1>2, <2>1 DEF AloneOK, Deciding
  <2> QED BY <2>1, <2>2 DEF AloneOK, Executable
<1>4. "human_required" \in Goals \ {"active"} /\ "reducing" \in Plain
  BY DEF Goals, Plain
<1> QED BY <1>2, <1>3, <1>4, GoalStep

-----------------------------------------------------------------------------
\* The reduction of a result.

LEMMA ThenFact ==
  ASSUME Inv, NEW v \in Workers
  PROVE  session[v].then \in Plain /\ session[v].then \in Steps
BY Mine DEF Session, Plain, Steps

LEMMA ReduceGivenUpStep ==
  ASSUME Inv, NEW v \in Workers, ReduceGivenUp(v)
  PROVE  Inv'
<1>1. PICK p \in Session : p = session[v]
  BY Mine
<1>2. PICK state, step :
         /\ MoveGoal(v, state, step) /\ state \in {"human_required", "stopped"}
         /\ step = session[v].then
  BY DEF ReduceGivenUp
<1>3. /\ v \in crew /\ UNCHANGED <<run, lease, cases, bounds>>
      /\ \/ run.latest = NoSignature
         \/ run.state # "verified"
         \/ run.value = "undelivered"
  BY DEF ReduceGivenUp, At
<1>4. ASSUME crew = {v}, NEW c \in Signatures PROVE cases.case[c].state # "resolved"
  <2>1. AloneOK(p)
    BY <1>1, <1>4, Mine
  <2>2. SUFFICES ASSUME cases.case[c].state = "resolved" PROVE FALSE
    OBVIOUS
  <2>3. run.state = "verified" /\ run.value = "green"
    BY <2>1, <2>2 DEF AloneOK
  <2>4. run.latest = Passed
    BY <2>3, Kept DEF RunOK
  <2> QED BY <1>3, <2>3, <2>4 DEF Passed, NoSignature
<1>5. state \in Goals \ {"active"} /\ step \in Plain /\ step # "closing"
  BY <1>2, ThenFact DEF Goals, Plain
<1> QED BY <1>2, <1>3, <1>4, <1>5, GoalStep

LEMMA RefuseGoalStep ==
  ASSUME Inv, NEW v \in Workers, RefuseGoal(v)
  PROVE  Inv'
<1>1. PICK p \in Session, step \in {"event", "ending"} : p = session[v] /\ step = p.then
  BY Mine DEF Session
<1>2. /\ v \in crew /\ p.at = "refusing" /\ MoveGoal(v, "human_required", step)
      /\ UNCHANGED <<run, lease, cases, bounds>>
  BY <1>1 DEF RefuseGoal, At
<1>3. ASSUME crew = {v}, NEW c \in Signatures PROVE cases.case[c].state # "resolved"
  <2>1. AloneOK(p)
    BY <1>1, <1>3, Mine
  <2> QED BY <1>2, <2>1 DEF AloneOK
<1>4. "human_required" \in Goals \ {"active"} /\ step \in Plain /\ step # "closing"
  BY <1>1, ThenFact DEF Goals, Plain
<1> QED BY <1>2, <1>3, <1>4, GoalStep

LEMMA CompleteGoalStep ==
  ASSUME Inv, NEW v \in Workers, CompleteGoal(v)
  PROVE  Inv'
<1>1. PICK step \in {"closing", session[v].then} : MoveGoal(v, "completed", step)
  BY DEF CompleteGoal
<1>2. v \in crew /\ UNCHANGED <<run, lease, cases, bounds>>
  BY DEF CompleteGoal, At
<1>3. "completed" \in Goals \ {"active"} /\ step \in Plain \cup {"closing"}
  BY ThenFact DEF Goals
<1> QED BY <1>1, <1>2, <1>3, GoalStep

LEMMA ReduceVerifiedStep ==
  ASSUME Inv, NEW v \in Workers, ReduceVerified(v)
  PROVE  Inv'
<1>1. PICK p \in Session : p = session[v]
  BY Mine
<1>2. /\ v \in crew /\ p.at = "reducing" /\ UNCHANGED <<run, lease, goal, bounds>>
      /\ run.state = "verified" /\ run.value \in {"green", "red"} /\ goal = "active"
  BY <1>1 DEF ReduceVerified, At, Reducible
<1>3. UNCHANGED <<run, lease, goal>>
  BY <1>2
<1>4. PICK step \in {"advancing", "refusing"} :
         /\ step = IF run.value = "green" THEN "advancing" ELSE "refusing"
         /\ Goto(v, step)
  BY DEF ReduceVerified
<1>5. PICK new \in Session : session' = [session EXCEPT ![v] = new] /\ new.at = step
  BY <1>4, GotoFact DEF Inv, Steps
<1>6. PICK n \in Nat, resolved \in BOOLEAN, regrill \in BOOLEAN :
         /\ n = run.attempts /\ n <= MaxAttempts
         /\ resolved = (run.value = "green") /\ regrill = FALSE
  BY Kept
<1>7. PICK c, t : /\ c = LatestCase(cases, {"remediation_running"})
                  /\ t = RecordResolution(cases, n, resolved, regrill)
  OBVIOUS
<1>8. cases' = t
  BY <1>6, <1>7 DEF ReduceVerified
<1>9. /\ TableOK(cases) /\ Bounded(cases, n) /\ ~regrill /\ n <= MaxAttempts
      /\ regrill => n >= 1 /\ Bounded(cases, n - 1)
  BY <1>6, Kept
<1>10. /\ TableOK(t) /\ Bounded(t, n) /\ t.outbox = cases.outbox
       /\ \A m \in Nat : Bounded(cases, m) => Bounded(t, m)
       /\ c = NoSignature => t = cases
       /\ c # NoSignature =>
             /\ c \in Signatures /\ cases.case[c].state = "remediation_running"
             /\ \A d \in Signatures : d # c => t.case[d] = cases.case[d]
             /\ t.case[c].closed = cases.case[c].closed
             /\ resolved => t.case[c].state = "resolved"
             /\ ~resolved => t.case[c].state = "human_required"
  <2>1. TableOK(t) /\ Bounded(t, n) /\ t.outbox = cases.outbox
    BY <1>7, <1>9, ResolutionOK
  <2>2. \A m \in Nat : Bounded(cases, m) => Bounded(t, m)
    BY <1>7, <1>9, ResolutionOK
  <2>3. c = NoSignature => t = cases
    BY <1>7 DEF RecordResolution
  <2>4. c # NoSignature =>
           /\ c \in Signatures /\ cases.case[c].state = "remediation_running"
           /\ \A d \in Signatures : d # c => t.case[d] = cases.case[d]
           /\ t.case[c].closed = cases.case[c].closed
    BY <1>7, <1>9, ResolutionOK
  <2>5. c # NoSignature =>
           /\ resolved => t.case[c].state = "resolved"
           /\ ~resolved => t.case[c].state = "human_required"
    BY <1>7, <1>9, ResolutionOK
  <2> QED BY <2>1, <2>2, <2>3, <2>4, <2>5
<1>11. \A d \in Signatures :
          /\ t.case[d].state = "resolved" => cases.case[d].state = "resolved" \/ resolved
          /\ t.case[d].closed =>
                cases.case[d].closed /\ (t.case[d].state = cases.case[d].state \/ ~cases.case[d].closed)
          /\ t.case[d].state \in Grillable => cases.case[d].state \in Grillable
  <2>1. CASE c = NoSignature
    BY <1>10, <2>1
  <2>2. CASE c # NoSignature
    <3>1. /\ c \in Signatures /\ cases.case[c].state = "remediation_running"
          /\ \A d \in Signatures : d # c => t.case[d] = cases.case[d]
          /\ t.case[c].closed = cases.case[c].closed
          /\ resolved => t.case[c].state = "resolved"
          /\ ~resolved => t.case[c].state = "human_required"
      BY <1>9, <1>10, <2>2
    <3>2. ~cases.case[c].closed
      BY <3>1, Kept DEF ClosedOK
    <3>3. t.case[c].state \notin Grillable /\ (t.case[c].state = "resolved" => resolved)
      BY <3>1 DEF Grillable
    <3> QED BY <3>1, <3>2, <3>3
  <2> QED BY <2>1, <2>2
<1>12. Bounded(t, run.attempts) /\ (Bounded(cases, run.attempts - 1) => Bounded(t, run.attempts - 1))
  <2>1. Bounded(t, run.attempts)
    BY <1>6, <1>10
  <2>2. CASE run.attempts >= 1
    <3>1. run.attempts - 1 \in Nat
      BY <1>6, <2>2
    <3> QED BY <1>9, <1>10, <2>1, <3>1
  <2>3. CASE run.attempts = 0
    <3>1. ASSUME NEW d \in Signatures PROVE t.case[d].state = "absent"
      <4>1. t.case[d].generation \in Ordinals
        BY <1>10, RowFields DEF TableOK
      <4>2. t.case[d].generation \in Nat /\ t.case[d].generation >= 1
        BY <4>1, OrdinalsFact
      <4> QED BY <2>1, <2>3, <4>2 DEF Bounded
    <3> QED BY <2>1, <3>1 DEF Bounded
  <2> QED BY <1>6, <2>2, <2>3
<1>13. ClosedOK'
  BY <1>3, <1>8, <1>11, Kept DEF ClosedOK
<1>14. WorkOK(v, new)'
  BY <1>4, <1>5 DEF WorkOK, Leased
<1>15. ASSUME crew = {v} PROVE AloneOK(new)'
  <2>1. AloneOK(p)
    BY <1>1, <1>15, Mine
  <2>2. \A d \in Signatures :
           cases'.case[d].state = "resolved" =>
              /\ run'.state = "verified" /\ run'.value = "green"
              /\ goal' \in {"active", "completed"}
    BY <1>2, <1>3, <1>6, <1>8, <1>11, <2>1 DEF AloneOK
  <2>3. step = "refusing" => run'.value = "red"
    BY <1>2, <1>3, <1>4
  <2> QED BY <1>5, <2>2, <2>3 DEF AloneOK, Deciding, Attempting
<1>16. ASSUME crew = {v}, Calm PROVE CalmOK(new)'
  <2>1. CalmOK(p)
    BY <1>1, <1>16, Mine
  <2>2. \A d, e \in Signatures :
           t.case[d].state \in Grillable /\ t.case[e].state \in Grillable => d = e
    BY <1>11, <2>1 DEF CalmOK
  <2>3. run.attempts = MaxAttempts => \A d \in Signatures : t.case[d].state \notin Grillable
    BY <1>11, <2>1 DEF CalmOK, NoneGrillable
  <2>4. \A o \in t.outbox : o.outcome = "runner-fixable"
    BY <1>2, <1>10, <2>1 DEF CalmOK
  <2> QED BY <1>3, <1>5, <1>8, <2>2, <2>3, <2>4 DEF CalmOK, Attempting, NoneGrillable
<1> QED BY <1>2, <1>5, <1>8, <1>10, <1>12, <1>13, <1>14, <1>15, <1>16, CasesStep

LEMMA CloseCaseStep ==
  ASSUME Inv, NEW v \in Workers, CloseCase(v)
  PROVE  Inv'
<1>1. PICK p \in Session, step \in {"event", "ending"} : p = session[v] /\ step = p.then
  BY Mine DEF Session
<1>2. /\ v \in crew /\ p.at = "closing" /\ UNCHANGED <<run, lease, goal, bounds>>
      /\ Goto(v, step)
  BY <1>1 DEF CloseCase, At
<1>3. UNCHANGED <<run, lease, goal>> /\ goal = "completed"
  BY <1>1, <1>2, Mine DEF WorkOK
<1>4. step \in Plain /\ step \in Steps
  BY <1>1, ThenFact
<1>5. PICK new \in Session : session' = [session EXCEPT ![v] = new] /\ new.at = step
  BY <1>2, <1>4, GotoFact DEF Inv
<1>6. PICK t : t = RecordNextNode(cases)
  OBVIOUS
<1>7. cases' = t
  BY <1>6 DEF CloseCase
<1>8. /\ TableOK(t) /\ t.outbox = cases.outbox
      /\ \A d \in Signatures :
            /\ t.case[d].state = cases.case[d].state
            /\ t.case[d].generation = cases.case[d].generation
            /\ t.case[d].closed => cases.case[d].closed \/ cases.case[d].state = "resolved"
  BY <1>6, NextNodeOK, Kept
<1>9. Bounded(t, run.attempts) /\ (Bounded(cases, run.attempts - 1) => Bounded(t, run.attempts - 1))
  BY <1>8, Kept DEF Bounded
<1>10. ClosedOK'
  BY <1>3, <1>7, <1>8, Kept DEF ClosedOK
<1>11. WorkOK(v, new)'
  BY <1>4, <1>5, PlainWork
<1>12. ASSUME crew = {v} PROVE AloneOK(new)'
  <2>1. AloneOK(p)
    BY <1>1, <1>12, Mine
  <2>2. \A d \in Signatures :
           cases'.case[d].state = "resolved" =>
              /\ run'.state = "verified" /\ run'.value = "green"
              /\ goal' \in {"active", "completed"}
    BY <1>3, <1>7, <1>8, <2>1 DEF AloneOK
  <2> QED BY <1>4, <1>5, <2>2 DEF AloneOK, Deciding, Attempting, Plain
<1>13. ASSUME crew = {v}, Calm PROVE CalmOK(new)'
  <2>1. CalmOK(p)
    BY <1>1, <1>13, Mine
  <2>2. \A d \in Signatures : t.case[d].state = cases.case[d].state
    BY <1>8
  <2>3. /\ \A c, d \in Signatures :
              t.case[c].state \in Grillable /\ t.case[d].state \in Grillable => c = d
        /\ run.attempts = MaxAttempts => \A c \in Signatures : t.case[c].state \notin Grillable
    BY <2>1, <2>2 DEF CalmOK, NoneGrillable
  <2> QED BY <1>3, <1>4, <1>5, <1>7, <2>3 DEF CalmOK, Attempting, NoneGrillable, Plain
<1> QED BY <1>2, <1>5, <1>7, <1>8, <1>9, <1>10, <1>11, <1>12, <1>13, CasesStep

-----------------------------------------------------------------------------
\* The run.

RunStates == Executable \cup Settled \cup {"running"}

\* A receipt is booked on the row of the run.
Receipt(row, x, y, z) == [row EXCEPT !.state = x, !.last = y, !.latest = z]

LEMMA ReceiptFact ==
  ASSUME NEW old \in RunRow, NEW x \in RunStates, NEW y \in Results, NEW z \in Results,
         NEW row, row = Receipt(old, x, y, z)
  PROVE  /\ row \in RunRow /\ row.state = x /\ row.attempts = old.attempts
         /\ row.last = y /\ row.latest = z
<1>1. PICK first : first = [old EXCEPT !.state = x]
  OBVIOUS
<1>2. first \in RunRow /\ first.state = x /\ first.attempts = old.attempts
  BY <1>1 DEF RunRow, RunStates
<1>3. PICK second : second = [first EXCEPT !.last = y]
  OBVIOUS
<1>4. /\ second \in RunRow /\ second.state = x /\ second.attempts = old.attempts
      /\ second.last = y
  BY <1>2, <1>3 DEF RunRow
<1>5. PICK third : third = [second EXCEPT !.latest = z]
  OBVIOUS
<1>6. /\ third \in RunRow /\ third.state = x /\ third.attempts = old.attempts
      /\ third.last = y /\ third.latest = z
  BY <1>4, <1>5 DEF RunRow
<1>7. third = row
  BY <1>1, <1>3, <1>5 DEF Receipt
<1> QED BY <1>6, <1>7

LEMMA RecoveryFact ==
  ASSUME Inv, RecoverStaleRun
  PROVE  /\ run' \in RunRow /\ lease' \in LeaseRow /\ run'.attempts = run.attempts
         /\ RunOK'
         /\ (run' = run /\ lease' = lease) \/ (run.state = "running" /\ ~lease.live)
<1>1. CASE ~(run.state = "running" /\ ~lease.live)
  <2>1. run' = run /\ lease' = lease
    BY <1>1 DEF RecoverStaleRun
  <2> QED BY <2>1, Kept DEF RunOK
<1>2. CASE run.state = "running" /\ ~lease.live
  <2>1. run' \in Reconciled /\ lease' = [holder |-> Nobody, live |-> FALSE]
    BY <1>2 DEF RecoverStaleRun
  <2>2. PICK old \in RunRow : old = run
    BY Kept
  <2>3. lease' \in LeaseRow
    BY <2>1 DEF LeaseRow
  <2>4. Passed \in Results /\ NoSignature \in Results /\ Signatures \subseteq Results
    BY DEF Results
  <2>5. PICK y \in Results, z \in Results, x \in {"retry_pending", "stopped", "human_required"} :
           run' = Receipt(old, x, y, z)
    <3>1. CASE run' = [run EXCEPT !.state = "retry_pending", !.last = NoSignature]
      <4>1. PICK first : first = [old EXCEPT !.state = "retry_pending"]
        OBVIOUS
      <4>2. first \in RunRow /\ first.latest = old.latest
        BY <4>1 DEF RunRow, Executable
      <4>3. PICK second : second = [first EXCEPT !.last = NoSignature]
        OBVIOUS
      <4>4. second \in RunRow /\ second.latest = old.latest
        BY <2>4, <4>2, <4>3 DEF RunRow
      <4>5. second = [second EXCEPT !.latest = old.latest]
        BY <4>4 DEF RunRow
      <4>6. second = Receipt(old, "retry_pending", NoSignature, old.latest)
        BY <4>1, <4>3, <4>5 DEF Receipt
      <4>7. run' = second
        BY <2>2, <3>1, <4>1, <4>3
      <4>8. old.latest \in Results
        BY DEF RunRow
      <4> QED BY <2>4, <4>6, <4>7, <4>8
    <3>2. ASSUME NEW r \in Signatures,
                 run' = [run EXCEPT !.state = IF run.attempts >= run.ceiling
                                              THEN "stopped" ELSE "retry_pending",
                                    !.last = r, !.latest = r]
          PROVE  \E y, z \in Results, x \in {"retry_pending", "stopped", "human_required"} :
                    run' = Receipt(old, x, y, z)
      <4>1. PICK x \in {"retry_pending", "stopped", "human_required"} :
               x = IF run.attempts >= run.ceiling THEN "stopped" ELSE "retry_pending"
        OBVIOUS
      <4>2. r \in Results /\ run' = Receipt(old, x, r, r)
        BY <2>2, <2>4, <3>2, <4>1 DEF Receipt
      <4> QED BY <4>2
    <3>3. CASE run' = [run EXCEPT !.state = "human_required", !.last = Passed, !.latest = Passed]
      <4>1. run' = Receipt(old, "human_required", Passed, Passed)
        BY <2>2, <3>3 DEF Receipt
      <4> QED BY <2>4, <4>1
    <3> QED BY <2>1, <3>1, <3>2, <3>3 DEF Reconciled
  <2>6. x \in RunStates /\ x # "verified"
    BY DEF RunStates, Executable, Settled
  <2>7. run' \in RunRow /\ run'.state = x /\ run'.attempts = old.attempts
    BY <2>5, <2>6, ReceiptFact
  <2>8. RunOK'
    BY <2>6, <2>7 DEF RunOK
  <2> QED BY <1>2, <2>2, <2>3, <2>7, <2>8
<1> QED BY <1>1, <1>2

LEMMA ProcessEventStep ==
  ASSUME Inv, NEW v \in Workers, ProcessEvent(v)
  PROVE  Inv'
<1>1. /\ v \in crew /\ session[v].at = "event"
      /\ UNCHANGED <<run, lease, cases, crew, flaky, crashes>>
  BY DEF ProcessEvent, At
<1>2. session \in [Workers -> Session]
  BY DEF Inv, TypeOK
<1>3. PICK p \in Session : p = session[v]
  BY <1>2
<1>4. PICK first : first = [p EXCEPT !.at = "dispatch"]
  OBVIOUS
<1>5. first \in Session /\ first.at = "dispatch"
  BY <1>4 DEF Session, Steps
<1>6. PICK second : second = [first EXCEPT !.then = "ending"]
  OBVIOUS
<1>7. second \in Session /\ second.at = "dispatch"
  BY <1>5, <1>6 DEF Session
<1>8. PICK third : third = [second EXCEPT !.moved = TRUE]
  OBVIOUS
<1>9. third \in Session /\ third.at = "dispatch"
  BY <1>7, <1>8 DEF Session
<1>10. [session EXCEPT ![v].at = "dispatch", ![v].then = "ending"] = [session EXCEPT ![v] = second]
  <2>1. [session EXCEPT ![v].at = "dispatch"] = [session EXCEPT ![v] = first]
    BY <1>2, <1>3, <1>4
  <2>2. [[session EXCEPT ![v] = first] EXCEPT ![v].then = "ending"] = [session EXCEPT ![v] = second]
    BY <1>2, <1>6
  <2> QED BY <2>1, <2>2
<1>11. CASE session' = [session EXCEPT ![v].at = "dispatch", ![v].then = "ending"]
            /\ UNCHANGED <<goal, revivals>>
  <2>1. session' = [session EXCEPT ![v] = second] /\ UNCHANGED <<store, bounds>>
    BY <1>1, <1>10, <1>11 DEF store, bounds
  <2> QED BY <1>1, <1>7, <2>1, PlainStep DEF Plain
<1>12. CASE /\ goal \in {"human_required", "stopped"}
            /\ run.state \in Executable
            /\ revivals < MaxRevivals
            /\ goal' = "active"
            /\ revivals' = revivals + 1
            /\ session' = [session EXCEPT ![v].at = "dispatch", ![v].then = "ending",
                                          ![v].moved = TRUE]
  <2>1. session' = [session EXCEPT ![v] = third]
    <3>1. [[session EXCEPT ![v] = second] EXCEPT ![v].moved = TRUE] = [session EXCEPT ![v] = third]
      BY <1>2, <1>8
    <3>2. session' = [[session EXCEPT ![v].at = "dispatch", ![v].then = "ending"]
                                EXCEPT ![v].moved = TRUE]
      BY <1>12
    <3> QED BY <1>10, <3>1, <3>2
  <2>2. revivals' \in 0..MaxRevivals /\ revivals' # 0
    <3>1. revivals \in 0..MaxRevivals /\ MaxRevivals \in Nat
      BY GrillBoundsAssumption, Kept
    <3> QED BY <1>12, <3>1
  <2>3. /\ run' \in RunRow /\ lease' \in LeaseRow /\ goal' \in Goals /\ crashes' \in 0..MaxCrashes
        /\ TableOK(cases') /\ Bounded(cases', run'.attempts) /\ run'.attempts >= run.attempts
    BY <1>1, <1>12, Kept DEF Goals
  <2>4. RunOK' /\ ClosedOK'
    BY <1>1, <1>12, Kept DEF RunOK, ClosedOK
  <2>5. WorkOK(v, third)'
    BY <1>9, PlainWork DEF Plain
  <2>6. ASSUME crew = {v} PROVE AloneOK(third)'
    <3>1. AloneOK(p)
      BY <1>3, <2>6, Mine
    <3>2. \A d \in Signatures :
             cases'.case[d].state = "resolved" =>
                /\ run'.state = "verified" /\ run'.value = "green"
                /\ goal' \in {"active", "completed"}
      BY <1>1, <1>12, <3>1 DEF AloneOK
    <3> QED BY <1>9, <3>2 DEF AloneOK, Deciding, Attempting
  <2>7. ~Calm'
    BY <2>2 DEF Calm
  <2>8. /\ run' = run /\ lease' = lease
        /\ Bounded(cases, run.attempts - 1) => Bounded(cases', run.attempts - 1)
    BY <1>1
  <2>9. goal = "completed" => goal' = "completed"
    BY <1>12
  <2> QED BY <1>1, <1>9, <2>1, <2>2, <2>3, <2>4, <2>5, <2>6, <2>7, <2>8, <2>9, ActorStep
<1> QED BY <1>11, <1>12 DEF ProcessEvent

\* A step that leaves cases and goal alone and ends where nothing is asked.
LEMMA RunStep ==
  ASSUME Inv, NEW v \in Workers, v \in crew,
         NEW new \in Session, new.at \in Plain, session' = [session EXCEPT ![v] = new],
         UNCHANGED <<cases, goal, crew, flaky>>,
         crashes' \in 0..MaxCrashes, revivals' \in 0..MaxRevivals,
         run' \in RunRow, lease' \in LeaseRow, run'.attempts = run.attempts, RunOK',
         run' = run \/ run.state # "verified",
         (run' = run /\ lease' = lease) \/ lease.holder = v \/ ~lease.live,
         Calm' => Calm /\ session[v].at # "parking"
  PROVE  Inv'
<1>1. UNCHANGED <<cases, goal, crew, flaky>>
  OBVIOUS
<1>2. PICK p : p = session[v]
  OBVIOUS
<1>3. WorkOK(v, new)'
  BY PlainWork
<1>4. ASSUME crew = {v} PROVE AloneOK(new)'
  <2>1. AloneOK(p)
    BY <1>2, <1>4, Mine
  <2>2. \A c \in Signatures :
           cases'.case[c].state = "resolved" =>
              /\ run'.state = "verified" /\ run'.value = "green"
              /\ goal' \in {"active", "completed"}
    BY <1>1, <2>1 DEF AloneOK
  <2> QED BY <2>2 DEF AloneOK, Plain, Deciding, Attempting
<1>5. ASSUME crew = {v}, Calm' PROVE CalmOK(new)'
  <2>1. CalmOK(p) /\ p.at # "parking"
    BY <1>2, <1>5, Mine
  <2>2. /\ \A c, d \in Signatures :
              cases'.case[c].state \in Grillable /\ cases'.case[d].state \in Grillable => c = d
        /\ run'.attempts = MaxAttempts => \A c \in Signatures : cases'.case[c].state \notin Grillable
    BY <1>1, <2>1 DEF CalmOK, NoneGrillable
  <2>3. goal' = "active" => \A o \in cases'.outbox : o.outcome = "runner-fixable"
    BY <1>1, <2>1 DEF CalmOK
  <2> QED BY <2>2, <2>3 DEF CalmOK, Plain, Attempting, NoneGrillable
<1>6. /\ TableOK(cases') /\ Bounded(cases', run'.attempts) /\ run'.attempts >= run.attempts
      /\ goal' \in Goals
  BY <1>1, Kept
<1>7. ClosedOK'
  BY <1>1, Kept DEF ClosedOK
<1>8. \/ /\ run' = run /\ lease' = lease
         /\ Bounded(cases, run.attempts - 1) => Bounded(cases', run.attempts - 1)
      \/ lease.holder = v
      \/ ~lease.live
  BY <1>1
<1>9. goal = "completed" => goal' = "completed"
  BY <1>1
<1> QED BY <1>1, <1>3, <1>4, <1>5, <1>6, <1>7, <1>8, <1>9, ActorStep

LEMMA ReleaseFact ==
  ASSUME Inv, NEW v \in Workers, ReleaseLease(v)
  PROVE  lease' \in LeaseRow /\ (lease' = lease \/ lease.holder = v)
BY Kept DEF ReleaseLease, LeaseRow

\* The lease changes hands or is given back; the run is as it was.
LEMMA LeaseStep ==
  ASSUME Inv, NEW v \in Workers, v \in crew,
         NEW new \in Session, new.at \in Plain, session' = [session EXCEPT ![v] = new],
         UNCHANGED <<run, cases, goal, bounds>>,
         lease' \in LeaseRow, lease' = lease \/ lease.holder = v,
         session[v].at # "parking"
  PROVE  Inv'
<1>1. UNCHANGED <<run, cases, goal, crew, flaky, crashes, revivals>>
  BY DEF bounds
<1>2. /\ run' \in RunRow /\ run'.attempts = run.attempts /\ RunOK'
      /\ crashes' \in 0..MaxCrashes /\ revivals' \in 0..MaxRevivals
  BY <1>1, Kept DEF RunOK
<1>3. Calm' => Calm
  BY <1>1 DEF Calm
<1> QED BY <1>1, <1>2, <1>3, RunStep

LEMMA StartupStep ==
  ASSUME Inv, NEW v \in Workers, Startup(v)
  PROVE  Inv'
<1>1. /\ v \in crew /\ session[v].at = "startup" /\ RecoverStaleRun
      /\ UNCHANGED <<cases, goal, bounds>>
  BY DEF Startup, At
<1>2. session \in [Workers -> Session]
  BY DEF Inv, TypeOK
<1>3. PICK p \in Session : p = session[v]
  BY <1>2
<1>4. PICK first : first = [p EXCEPT !.at = "reducing"]
  OBVIOUS
<1>5. first \in Session /\ first.at = "reducing"
  BY <1>4 DEF Session, Steps
<1>6. PICK second : second = [first EXCEPT !.then = "event"]
  OBVIOUS
<1>7. second \in Session /\ second.at = "reducing"
  BY <1>5, <1>6 DEF Session
<1>8. PICK b \in BOOLEAN : b = (run' # run)
  OBVIOUS
<1>9. PICK new : new = [second EXCEPT !.moved = b]
  OBVIOUS
<1>10. new \in Session /\ new.at = "reducing"
  BY <1>7, <1>9 DEF Session
<1>11. session' = [session EXCEPT ![v] = new]
  <2>1. [session EXCEPT ![v].at = "reducing"] = [session EXCEPT ![v] = first]
    BY <1>2, <1>3, <1>4
  <2>2. [[session EXCEPT ![v] = first] EXCEPT ![v].then = "event"] = [session EXCEPT ![v] = second]
    BY <1>2, <1>6
  <2>3. [[session EXCEPT ![v] = second] EXCEPT ![v].moved = b] = [session EXCEPT ![v] = new]
    BY <1>2, <1>9
  <2>4. session' = [[[session EXCEPT ![v].at = "reducing"] EXCEPT ![v].then = "event"]
                       EXCEPT ![v].moved = b]
    BY <1>8 DEF Startup
  <2> QED BY <2>1, <2>2, <2>3, <2>4
<1>12. UNCHANGED <<cases, goal, crew, flaky, crashes, revivals>>
  BY <1>1 DEF bounds
<1>13. /\ run' \in RunRow /\ lease' \in LeaseRow /\ run'.attempts = run.attempts /\ RunOK'
  BY <1>1, RecoveryFact
<1>14. /\ run' = run \/ run.state # "verified"
       /\ (run' = run /\ lease' = lease) \/ lease.holder = v \/ ~lease.live
  BY <1>1, RecoveryFact
<1>15. crashes' \in 0..MaxCrashes /\ revivals' \in 0..MaxRevivals /\ (Calm' => Calm)
  BY <1>12, Kept DEF Calm
<1> QED BY <1>1, <1>10, <1>11, <1>12, <1>13, <1>14, <1>15, RunStep DEF Plain

-----------------------------------------------------------------------------
\* The attempt.

LEMMA RecoverStep ==
  ASSUME Inv, NEW v \in Workers, Recover(v)
  PROVE  Inv'
<1>1. /\ v \in crew /\ session[v].at = "recovering" /\ RecoverStaleRun
      /\ Goto(v, "acquiring") /\ UNCHANGED <<cases, goal, bounds>>
  BY DEF Recover, At
<1>2. UNCHANGED <<cases, goal, crew, flaky, crashes, revivals>>
  BY <1>1 DEF bounds
<1>3. PICK p, new \in Session :
         /\ p = session[v] /\ session' = [session EXCEPT ![v] = new] /\ new.at = "acquiring"
  BY <1>1, GotoFact DEF Inv, Steps
<1>4. /\ run' \in RunRow /\ lease' \in LeaseRow /\ run'.attempts = run.attempts /\ RunOK'
      /\ (run' = run /\ lease' = lease) \/ (run.state = "running" /\ ~lease.live)
  BY <1>1, RecoveryFact
<1>5. /\ TableOK(cases') /\ Bounded(cases', run'.attempts) /\ run'.attempts >= run.attempts
      /\ goal' \in Goals /\ crashes' \in 0..MaxCrashes /\ revivals' \in 0..MaxRevivals
  BY <1>2, <1>4, Kept
<1>6. ClosedOK'
  BY <1>2, Kept DEF ClosedOK
<1>7. \/ /\ run' = run /\ lease' = lease
         /\ Bounded(cases, run.attempts - 1) => Bounded(cases', run.attempts - 1)
      \/ ~lease.live
  BY <1>2, <1>4
<1>8. WorkOK(v, new)'
  BY <1>3 DEF WorkOK, Leased
<1>9. ASSUME crew = {v} PROVE AloneOK(new)'
  <2>1. AloneOK(p) /\ p.at = "recovering"
    BY <1>1, <1>3, <1>9, Mine
  <2>2. run.state \in Executable /\ goal = "active"
    BY <2>1 DEF AloneOK, Attempting
  <2>3. run' = run /\ lease' = lease
    BY <1>4, <2>2 DEF Executable
  <2> QED BY <1>2, <1>3, <2>1, <2>3 DEF AloneOK, Deciding, Attempting, ShouldGrill, Remedied
<1>10. ASSUME crew = {v}, Calm' PROVE CalmOK(new)'
  <2>1. CalmOK(p) /\ p.at = "recovering"
    BY <1>1, <1>2, <1>3, <1>10, Mine DEF Calm
  <2> QED BY <1>2, <1>3, <1>4, <2>1 DEF CalmOK, Attempting, NoneGrillable
<1>11. goal = "completed" => goal' = "completed"
  BY <1>2
<1> QED BY <1>1, <1>2, <1>3, <1>4, <1>5, <1>6, <1>7, <1>8, <1>9, <1>10, <1>11, ActorStep

LEMMA AcquireLeaseStep ==
  ASSUME Inv, NEW v \in Workers, AcquireLease(v)
  PROVE  Inv'
<1>1. /\ v \in crew /\ session[v].at = "acquiring" /\ UNCHANGED <<run, cases, goal, bounds>>
  BY DEF AcquireLease, At
<1>2. UNCHANGED <<run, cases, goal, crew, flaky, crashes, revivals>>
  BY <1>1 DEF bounds
<1>3. CASE lease.live /\ lease.holder # v
  <2>1. Progress(v, "ending") /\ lease' = lease
    BY <1>3 DEF AcquireLease
  <2>2. PICK new \in Session : session' = [session EXCEPT ![v] = new] /\ new.at = "ending"
    BY <2>1, ProgressFact DEF Inv, Steps
  <2>3. lease' \in LeaseRow
    BY <2>1, Kept
  <2> QED BY <1>1, <2>1, <2>2, <2>3, LeaseStep DEF Plain
<1>4. CASE ~(lease.live /\ lease.holder # v)
  <2>1. Goto(v, "leased") /\ lease' = [holder |-> v, live |-> TRUE]
    BY <1>4 DEF AcquireLease
  <2>2. PICK p, new \in Session :
           /\ p = session[v] /\ session' = [session EXCEPT ![v] = new] /\ new.at = "leased"
    BY <2>1, GotoFact DEF Inv, Steps
  <2>3. lease' \in LeaseRow
    BY <2>1 DEF LeaseRow
  <2>4. lease.holder = v \/ ~lease.live
    BY <1>4
  <2>5. /\ run' \in RunRow /\ goal' \in Goals
        /\ TableOK(cases') /\ Bounded(cases', run'.attempts) /\ run'.attempts >= run.attempts
        /\ crashes' \in 0..MaxCrashes /\ revivals' \in 0..MaxRevivals
    BY <1>2, Kept
  <2>6. RunOK' /\ ClosedOK'
    BY <1>2, Kept DEF RunOK, ClosedOK
  <2>7. WorkOK(v, new)'
    BY <2>1, <2>2 DEF WorkOK
  <2>8. ASSUME crew = {v} PROVE AloneOK(new)'
    <3>1. AloneOK(p) /\ p.at = "acquiring"
      BY <1>1, <2>2, <2>8, Mine
    <3> QED BY <1>2, <2>2, <3>1 DEF AloneOK, Deciding, Attempting, ShouldGrill, Remedied
  <2>9. ASSUME crew = {v}, Calm' PROVE CalmOK(new)'
    <3>1. CalmOK(p) /\ p.at = "acquiring"
      BY <1>1, <1>2, <2>2, <2>9, Mine DEF Calm
    <3> QED BY <1>2, <2>2, <3>1 DEF CalmOK, Attempting, NoneGrillable
  <2>10. goal = "completed" => goal' = "completed"
    BY <1>2
  <2> QED BY <1>1, <1>2, <2>2, <2>3, <2>4, <2>5, <2>6, <2>7, <2>8, <2>9, <2>10, ActorStep
<1> QED BY <1>3, <1>4

LEMMA ReadRunStep ==
  ASSUME Inv, NEW v \in Workers, ReadRun(v)
  PROVE  Inv'
<1>1. v \in crew /\ session[v].at = "leased" /\ UNCHANGED <<run, cases, goal, bounds>>
  BY DEF ReadRun, At
<1>2. session \in [Workers -> Session]
  BY DEF Inv, TypeOK
<1>3. PICK p \in Session : p = session[v]
  BY <1>2
<1>4. PICK c : c = LatestCase(cases, {"remediation_running"})
  OBVIOUS
<1>5. c \in Cases
  BY <1>4, LatestOfTable, Kept, CasesFact
<1>6. CASE /\ run.state \in Executable
           /\ session' = [session EXCEPT ![v].at = "ready", ![v].remediation = c]
           /\ UNCHANGED lease
  <2>1. PICK first : first = [p EXCEPT !.at = "ready"]
    OBVIOUS
  <2>2. first \in Session /\ first.at = "ready"
    BY <2>1 DEF Session, Steps
  <2>3. PICK new : new = [first EXCEPT !.remediation = c]
    OBVIOUS
  <2>4. new \in Session /\ new.at = "ready"
    BY <1>5, <2>2, <2>3 DEF Session
  <2>5. session' = [session EXCEPT ![v] = new]
    <3>1. [session EXCEPT ![v].at = "ready"] = [session EXCEPT ![v] = first]
      BY <1>2, <1>3, <2>1
    <3>2. [[session EXCEPT ![v] = first] EXCEPT ![v].remediation = c] = [session EXCEPT ![v] = new]
      BY <1>2, <2>3
    <3> QED BY <1>6, <3>1, <3>2
  <2>6. UNCHANGED <<store, bounds>>
    BY <1>1, <1>6 DEF store
  <2>7. WorkOK(v, new)
    <3>1. lease = [holder |-> v, live |-> TRUE]
      BY <1>1, <1>3, Mine DEF WorkOK, Leased
    <3> QED BY <1>6, <2>4, <3>1 DEF WorkOK
  <2>8. ASSUME crew = {v} PROVE AloneOK(new)
    <3>1. AloneOK(p) /\ p.at = "leased"
      BY <1>1, <1>3, <2>8, Mine
    <3> QED BY <2>4, <3>1 DEF AloneOK, Deciding, Attempting
  <2>9. ASSUME crew = {v}, Calm PROVE CalmOK(new)
    <3>1. CalmOK(p) /\ p.at = "leased"
      BY <1>1, <1>3, <2>9, Mine
    <3> QED BY <2>4, <3>1 DEF CalmOK, Attempting
  <2> QED BY <1>1, <2>4, <2>5, <2>6, <2>7, <2>8, <2>9, SessionStep
<1>7. CASE ReleaseLease(v) /\ (Progress(v, "ending") \/ Goto(v, "ending"))
  <2>1. lease' \in LeaseRow /\ (lease' = lease \/ lease.holder = v)
    BY <1>7, ReleaseFact
  <2>2. PICK new \in Session : session' = [session EXCEPT ![v] = new] /\ new.at = "ending"
    <3>1. TypeOK /\ "ending" \in Steps
      BY DEF Inv, Steps
    <3>2. CASE Progress(v, "ending")
      BY <3>1, <3>2, ProgressFact
    <3>3. CASE Goto(v, "ending")
      BY <3>1, <3>3, GotoFact
    <3> QED BY <1>7, <3>2, <3>3
  <2> QED BY <1>1, <2>1, <2>2, LeaseStep DEF Plain
<1> QED BY <1>4, <1>6, <1>7 DEF ReadRun

LEMMA BeginStep ==
  ASSUME Inv, NEW v \in Workers, Begin(v)
  PROVE  Inv'
<1>1. v \in crew /\ session[v].at = "ready" /\ UNCHANGED <<cases, goal, bounds>>
  BY DEF Begin, At
<1>2. UNCHANGED <<cases, goal, crew, flaky, crashes, revivals>>
  BY <1>1 DEF bounds
<1>3. session \in [Workers -> Session]
  BY DEF Inv, TypeOK
<1>4. PICK p \in Session : p = session[v]
  BY <1>3
<1>5. PICK old \in RunRow : old = run
  BY Kept
<1>6. /\ lease = [holder |-> v, live |-> TRUE] /\ run.state \in Executable
  BY <1>1, <1>4, Mine DEF WorkOK, Leased
<1>7. CASE run.attempts < run.ceiling
  <2>1. PICK n : n = run.attempts + 1
    OBVIOUS
  <2>2. /\ n \in 0..MaxAttempts /\ n >= 1 /\ n >= run.attempts /\ n - 1 = run.attempts
    BY <1>7, <2>1, Fields, OrdinalsFact DEF Inv
  <2>3. PICK first : first = [old EXCEPT !.state = "running"]
    OBVIOUS
  <2>4. first \in RunRow /\ first.state = "running" /\ first.attempts = old.attempts
    BY <2>3 DEF RunRow
  <2>5. PICK second : second = [first EXCEPT !.attempts = n]
    OBVIOUS
  <2>6. second \in RunRow /\ second.state = "running" /\ second.attempts = n
    BY <2>2, <2>4, <2>5 DEF RunRow
  <2>7. PICK third : third = [second EXCEPT !.last = NoSignature]
    OBVIOUS
  <2>8. third \in RunRow /\ third.state = "running" /\ third.attempts = n
    BY <2>6, <2>7 DEF RunRow, Results
  <2>9. run' = third
    <3>1. run' = [[[old EXCEPT !.state = "running"] EXCEPT !.attempts = n] EXCEPT !.last = NoSignature]
      BY <1>5, <1>7, <2>1 DEF Begin
    <3> QED BY <2>3, <2>5, <2>7, <3>1
  <2>10. PICK mid : mid = [p EXCEPT !.at = "working"]
    OBVIOUS
  <2>11. mid \in Session /\ mid.at = "working"
    BY <2>10 DEF Session, Steps
  <2>12. PICK new : new = [mid EXCEPT !.repeated = run.last]
    OBVIOUS
  <2>13. new \in Session /\ new.at = "working"
    <3>1. run.last \in Results
      BY Fields DEF Inv
    <3> QED BY <2>11, <2>12, <3>1 DEF Session
  <2>14. session' = [session EXCEPT ![v] = new] /\ lease' = lease
    <3>1. [session EXCEPT ![v].at = "working"] = [session EXCEPT ![v] = mid]
      BY <1>3, <1>4, <2>10
    <3>2. [[session EXCEPT ![v] = mid] EXCEPT ![v].repeated = run.last] = [session EXCEPT ![v] = new]
      BY <1>3, <2>12
    <3>3. /\ session' = [session EXCEPT ![v].at = "working", ![v].repeated = run.last]
          /\ lease' = lease
      BY <1>7 DEF Begin
    <3> QED BY <3>1, <3>2, <3>3
  <2>15. run' \in RunRow /\ run'.state = "running" /\ run'.attempts = n
    BY <2>8, <2>9
  <2>16. Bounded(cases', run'.attempts) /\ Bounded(cases', run'.attempts - 1)
    <3>1. Bounded(cases, run.attempts) /\ cases' = cases /\ TableOK(cases)
      BY <1>2, Kept
    <3>2. \A c \in Signatures : cases.case[c].generation \in Nat
      BY <3>1, RowFields DEF TableOK
    <3>3. run.attempts \in Nat
      BY Kept
    <3>4. \A c \in Signatures : cases.case[c].state # "absent" => cases.case[c].generation <= n
      BY <2>2, <3>1, <3>2, <3>3, <2>1 DEF Bounded
    <3> QED BY <2>2, <2>15, <3>1, <3>4 DEF Bounded
  <2>17. /\ lease' \in LeaseRow /\ goal' \in Goals /\ TableOK(cases')
         /\ run'.attempts >= run.attempts
         /\ crashes' \in 0..MaxCrashes /\ revivals' \in 0..MaxRevivals
    BY <1>2, <2>2, <2>14, <2>15, Kept
  <2>18. RunOK' /\ ClosedOK'
    BY <1>2, <2>15, Kept DEF RunOK, ClosedOK
  <2>19. WorkOK(v, new)'
    BY <1>6, <2>2, <2>13, <2>14, <2>15, <2>16 DEF WorkOK
  <2>20. ASSUME crew = {v} PROVE AloneOK(new)'
    <3>1. AloneOK(p)
      BY <1>4, <2>20, Mine
    <3>2. \A c \in Signatures : cases'.case[c].state # "resolved"
      BY <1>2, <1>6, <3>1 DEF AloneOK, Executable
    <3> QED BY <2>13, <3>2 DEF AloneOK, Deciding, Attempting
  <2>21. ASSUME crew = {v}, Calm' PROVE CalmOK(new)'
    <3>1. CalmOK(p) /\ p.at = "ready"
      BY <1>1, <1>2, <1>4, <2>21, Mine DEF Calm
    <3> QED BY <1>2, <2>13, <3>1 DEF CalmOK, Attempting, NoneGrillable
  <2>22. lease.holder = v /\ (goal = "completed" => goal' = "completed")
    BY <1>2, <1>6
  <2> QED BY <1>1, <1>2, <2>13, <2>14, <2>15, <2>16, <2>17, <2>18, <2>19, <2>20, <2>21, <2>22, ActorStep
<1>8. CASE ~(run.attempts < run.ceiling)
  <2>1. /\ run' = [run EXCEPT !.state = "human_required"]
        /\ Progress(v, "reducing") /\ ReleaseLease(v)
    BY <1>8 DEF Begin
  <2>2. run' \in RunRow /\ run'.attempts = run.attempts /\ run'.state = "human_required"
    BY <1>5, <2>1 DEF RunRow, Settled
  <2>3. PICK new \in Session : session' = [session EXCEPT ![v] = new] /\ new.at = "reducing"
    BY <2>1, ProgressFact DEF Inv, Steps
  <2>4. lease' \in LeaseRow
    BY <2>1, ReleaseFact
  <2>5. RunOK' /\ run.state # "verified" /\ lease.holder = v
    BY <1>6, <2>2 DEF RunOK, Executable
  <2>6. crashes' \in 0..MaxCrashes /\ revivals' \in 0..MaxRevivals /\ (Calm' => Calm)
    BY <1>2, Kept DEF Calm
  <2> QED BY <1>1, <1>2, <2>2, <2>3, <2>4, <2>5, <2>6, RunStep DEF Plain
<1> QED BY <1>7, <1>8

LEMMA TimeOutStep ==
  ASSUME Inv, NEW v \in Workers, TimeOut(v)
  PROVE  Inv'
<1>1. /\ v \in crew /\ session[v].at = "working" /\ ReleaseLease(v) /\ Progress(v, "ending")
      /\ UNCHANGED <<run, cases, goal, bounds>>
  BY DEF TimeOut, At
<1>2. PICK new \in Session : session' = [session EXCEPT ![v] = new] /\ new.at = "ending"
  BY <1>1, ProgressFact DEF Inv, Steps
<1>3. lease' \in LeaseRow /\ (lease' = lease \/ lease.holder = v)
  BY <1>1, ReleaseFact
<1> QED BY <1>1, <1>2, <1>3, LeaseStep DEF Plain

LEMMA ReleaseStep ==
  ASSUME Inv, NEW v \in Workers, Release(v)
  PROVE  Inv'
<1>1. /\ v \in crew /\ session[v].at = "releasing" /\ ReleaseLease(v)
      /\ UNCHANGED <<run, cases, goal, bounds>>
  BY DEF Release, At
<1>2. PICK step \in {"reducing", "ending"} : Goto(v, step)
  BY DEF Release
<1>3. PICK new \in Session : session' = [session EXCEPT ![v] = new] /\ new.at = step
  BY <1>2, GotoFact DEF Inv, Steps
<1>4. lease' \in LeaseRow /\ (lease' = lease \/ lease.holder = v)
  BY <1>1, ReleaseFact
<1> QED BY <1>1, <1>3, <1>4, LeaseStep DEF Plain

\* What finish_attempt leaves of the run.
LEMMA FinishedFact ==
  ASSUME Inv, run' \in Finished
  PROVE  /\ run' \in RunRow /\ run'.attempts = run.attempts /\ RunOK'
         /\ run'.state = "retry_pending" /\ run'.last \in Signatures => run.attempts < MaxAttempts
<1>1. PICK old \in RunRow : old = run
  BY Kept
<1>2. Passed \in Results /\ Signatures \subseteq Results /\ Passed \notin Signatures
  BY CasesFact DEF Results
<1>3. old.attempts \in Nat /\ old.ceiling \in Nat /\ old.ceiling <= MaxAttempts /\ MaxAttempts \in Nat
  BY <1>1, Fields, OrdinalsFact DEF Inv
<1>4. {"verified", "stopped", "human_required", "retry_pending"} \subseteq RunStates
  BY DEF RunStates, Executable, Settled
<1>5. ASSUME NEW u \in {"green", "red", "undelivered"},
             run' = [run EXCEPT !.state = "verified", !.last = Passed, !.latest = Passed, !.value = u]
      PROVE  run' \in RunRow /\ run'.state = "verified" /\ run'.attempts = run.attempts
             /\ run'.latest = Passed
  <2>1. PICK mid : mid = Receipt(old, "verified", Passed, Passed)
    OBVIOUS
  <2>2. run' = [mid EXCEPT !.value = u]
    BY <1>1, <1>5, <2>1 DEF Receipt
  <2>3. /\ mid \in RunRow /\ mid.state = "verified" /\ mid.attempts = old.attempts
        /\ mid.latest = Passed
    <3>1. "verified" \in RunStates /\ Passed \in Results
      BY <1>2, <1>4
    <3> QED BY <2>1, <3>1, ReceiptFact
  <2> QED BY <1>1, <2>2, <2>3 DEF RunRow
<1>6. ASSUME run' = [run EXCEPT !.state = IF run.attempts >= run.ceiling
                                          THEN "human_required" ELSE "retry_pending",
                                !.last = Passed, !.latest = Passed]
      PROVE  run' \in RunRow /\ run'.state # "verified" /\ run'.attempts = run.attempts
             /\ run'.last \notin Signatures
  <2>1. PICK x \in {"human_required", "retry_pending"} :
           run' = Receipt(old, x, Passed, Passed)
    BY <1>1, <1>6 DEF Receipt
  <2>2. run' \in RunRow /\ run'.state = x /\ run'.attempts = old.attempts /\ run'.last = Passed
    <3>1. x \in RunStates /\ Passed \in Results
      BY <1>2, <1>4
    <3> QED BY <2>1, <3>1, ReceiptFact
  <2> QED BY <1>1, <1>2, <2>2
<1>7. ASSUME NEW r \in Signatures,
             run' = [run EXCEPT !.state = AfterFailure, !.last = r, !.latest = r]
      PROVE  run' \in RunRow /\ run'.state # "verified" /\ run'.attempts = run.attempts
             /\ (run'.state = "retry_pending" => run.attempts < MaxAttempts)
  <2>1. PICK x \in {"stopped", "retry_pending"} : x = AfterFailure
    BY DEF AfterFailure
  <2>2. run' = Receipt(old, x, r, r)
    BY <1>1, <1>7, <2>1 DEF Receipt
  <2>3. run' \in RunRow /\ run'.state = x /\ run'.attempts = old.attempts
    <3>1. x \in RunStates /\ r \in Results
      BY <1>2, <1>4
    <3> QED BY <2>2, <3>1, ReceiptFact
  <2>4. x = "retry_pending" => run.attempts < MaxAttempts
    BY <1>1, <1>3, <2>1 DEF AfterFailure
  <2> QED BY <1>1, <2>3, <2>4
<1>8. ASSUME NEW r \in Signatures,
             run' = [run EXCEPT !.state = "human_required", !.last = r, !.latest = r, !.routed = TRUE]
      PROVE  run' \in RunRow /\ run'.state = "human_required" /\ run'.attempts = run.attempts
  <2>1. PICK mid : mid = Receipt(old, "human_required", r, r)
    OBVIOUS
  <2>2. run' = [mid EXCEPT !.routed = TRUE]
    BY <1>1, <1>8, <2>1 DEF Receipt
  <2>3. mid \in RunRow /\ mid.state = "human_required" /\ mid.attempts = old.attempts
    <3>1. "human_required" \in RunStates /\ r \in Results
      BY <1>2, <1>4
    <3> QED BY <2>1, <3>1, ReceiptFact
  <2> QED BY <1>1, <2>2, <2>3 DEF RunRow
<1>9. ASSUME NEW r \in Signatures,
              run' = [run EXCEPT !.state = "stopped", !.last = r, !.latest = r]
       PROVE  run' \in RunRow /\ run'.state = "stopped" /\ run'.attempts = run.attempts
  <2>1. run' = Receipt(old, "stopped", r, r)
    BY <1>1, <1>9 DEF Receipt
  <2>2. run' \in RunRow /\ run'.state = "stopped" /\ run'.attempts = old.attempts
    <3>1. "stopped" \in RunStates /\ r \in Results
      BY <1>2, <1>4
    <3> QED BY <2>1, <3>1, ReceiptFact
  <2> QED BY <1>1, <2>2
<1>10. /\ run' \in RunRow /\ run'.attempts = run.attempts
       /\ run'.state = "verified" => run'.latest = Passed
       /\ run'.state = "retry_pending" /\ run'.last \in Signatures => run.attempts < MaxAttempts
  BY <1>5, <1>6, <1>7, <1>8, <1>9 DEF Finished
<1> QED BY <1>10 DEF RunOK

LEMMA FinishStep ==
  ASSUME Inv, NEW v \in Workers, Finish(v)
  PROVE  Inv'
<1>1. /\ v \in crew /\ session[v].at = "working" /\ run' \in Finished
      /\ UNCHANGED <<lease, cases, goal, bounds>>
  BY DEF Finish, At
<1>2. UNCHANGED <<lease, cases, goal, crew, flaky, crashes, revivals>>
  BY <1>1 DEF bounds
<1>3. session \in [Workers -> Session]
  BY DEF Inv, TypeOK
<1>4. PICK p \in Session : p = session[v]
  BY <1>3
<1>5. /\ lease = [holder |-> v, live |-> TRUE] /\ run.state = "running"
      /\ run.attempts >= 1 /\ Bounded(cases, run.attempts - 1)
  BY <1>1, <1>4, Mine DEF WorkOK, Leased
<1>6. /\ run' \in RunRow /\ run'.attempts = run.attempts /\ RunOK'
      /\ run'.state = "retry_pending" /\ run'.last \in Signatures => run.attempts < MaxAttempts
  BY <1>1, FinishedFact
<1>7. PICK r \in Cases :
         /\ r # NoSignature => run.attempts < MaxAttempts
         /\ session' = [session EXCEPT ![v].at = "booking", ![v].repeated = r]
  <2>1. CASE /\ run'.state = "retry_pending" /\ run'.last \in Signatures
             /\ run'.last = session[v].repeated /\ session[v].remediation = NoSignature
    <3>1. run'.last \in Cases
      BY <2>1, CasesFact
    <3>2. session' = [session EXCEPT ![v].at = "booking", ![v].repeated = run'.last]
      BY <2>1 DEF Finish
    <3> QED BY <1>6, <2>1, <3>1, <3>2
  <2>2. CASE ~ (/\ run'.state = "retry_pending" /\ run'.last \in Signatures
                /\ run'.last = session[v].repeated /\ session[v].remediation = NoSignature)
    <3>1. session' = [session EXCEPT ![v].at = "booking", ![v].repeated = NoSignature]
      BY <2>2 DEF Finish
    <3> QED BY <3>1, CasesFact
  <2> QED BY <2>1, <2>2
<1>8. PICK mid : mid = [p EXCEPT !.at = "booking"]
  OBVIOUS
<1>9. mid \in Session /\ mid.at = "booking"
  BY <1>8 DEF Session, Steps
<1>10. PICK new : new = [mid EXCEPT !.repeated = r]
  OBVIOUS
<1>11. new \in Session /\ new.at = "booking" /\ new.repeated = r
  BY <1>9, <1>10 DEF Session, Results, Cases
<1>12. session' = [session EXCEPT ![v] = new]
  <2>1. [session EXCEPT ![v].at = "booking"] = [session EXCEPT ![v] = mid]
    BY <1>3, <1>4, <1>8
  <2>2. [[session EXCEPT ![v] = mid] EXCEPT ![v].repeated = r] = [session EXCEPT ![v] = new]
    BY <1>3, <1>10
  <2> QED BY <1>7, <2>1, <2>2
<1>13. /\ TableOK(cases') /\ Bounded(cases', run'.attempts) /\ run'.attempts >= run.attempts
       /\ lease' \in LeaseRow /\ goal' \in Goals
       /\ crashes' \in 0..MaxCrashes /\ revivals' \in 0..MaxRevivals
  BY <1>2, <1>6, Kept
<1>14. ClosedOK'
  BY <1>2, Kept DEF ClosedOK
<1>15. WorkOK(v, new)'
  BY <1>2, <1>5, <1>6, <1>7, <1>11 DEF WorkOK
<1>16. ASSUME crew = {v} PROVE AloneOK(new)'
  <2>1. AloneOK(p)
    BY <1>4, <1>16, Mine
  <2>2. \A c \in Signatures : cases'.case[c].state # "resolved"
    BY <1>2, <1>5, <2>1 DEF AloneOK
  <2> QED BY <1>11, <2>2 DEF AloneOK, Deciding, Attempting
<1>17. ASSUME crew = {v}, Calm' PROVE CalmOK(new)'
  <2>1. CalmOK(p) /\ p.at = "working"
    BY <1>1, <1>2, <1>4, <1>17, Mine DEF Calm
  <2> QED BY <1>2, <1>6, <1>11, <2>1 DEF CalmOK, Attempting, NoneGrillable
<1>18. lease.holder = v /\ (goal = "completed" => goal' = "completed")
  BY <1>2, <1>5
<1> QED BY <1>1, <1>2, <1>6, <1>11, <1>12, <1>13, <1>14, <1>15, <1>16, <1>17, <1>18, ActorStep

LEMMA BookStep ==
  ASSUME Inv, NEW v \in Workers, Book(v)
  PROVE  Inv'
<1>1. v \in crew /\ session[v].at = "booking" /\ UNCHANGED <<run, lease, goal, bounds>>
  BY DEF Book, At
<1>2. UNCHANGED <<run, lease, goal>>
  BY <1>1
<1>3. session \in [Workers -> Session]
  BY DEF Inv, TypeOK
<1>4. PICK p \in Session : p = session[v]
  BY <1>3
<1>5. PICK n \in Nat : n = run.attempts
  BY Kept
<1>6. /\ lease = [holder |-> v, live |-> TRUE] /\ n >= 1 /\ Bounded(cases, n - 1)
      /\ p.repeated \in Cases /\ (p.repeated # NoSignature => n < MaxAttempts)
  BY <1>1, <1>4, <1>5, Mine DEF WorkOK, Leased
<1>7. TableOK(cases) /\ Bounded(cases, n) /\ n <= MaxAttempts
  BY <1>5, Kept
<1>8. PICK t : t = Booked(v)
  OBVIOUS
<1>9. \E c :
         /\ TableOK(t) /\ Bounded(t, n) /\ t.outbox = cases.outbox
         /\ \A d \in Signatures : t.case[d].state \in Grillable /\ d # c => cases.case[d].state \in Grillable
         /\ \A d \in Signatures : t.case[d].state = "resolved" => cases.case[d].state = "resolved"
         /\ \A d \in Signatures :
               t.case[d].closed => cases.case[d].closed /\ t.case[d].state = cases.case[d].state
         /\ n = MaxAttempts =>
               \A d \in Signatures : t.case[d].state \in Grillable => cases.case[d].state \in Grillable
  <2>1. CASE p.remediation # NoSignature /\ run.last # Passed
    <3>1. t = RecordResolution(cases, n, FALSE, TRUE)
      BY <1>4, <1>5, <1>8, <2>1 DEF Booked
    <3>2. PICK resolved \in BOOLEAN, regrill \in BOOLEAN : ~resolved /\ regrill
      OBVIOUS
    <3>3. t = RecordResolution(cases, n, resolved, regrill)
      <4>1. resolved = FALSE /\ regrill = TRUE
        BY <3>2
      <4> QED BY <3>1, <4>1
    <3>4. PICK c : c = LatestCase(cases, {"remediation_running"})
      OBVIOUS
    <3>5. n <= MaxAttempts /\ (regrill => n >= 1 /\ Bounded(cases, n - 1))
      BY <1>6, <1>7
    <3>6. TableOK(t) /\ Bounded(t, n) /\ t.outbox = cases.outbox
      BY <1>7, <3>3, <3>4, <3>5, ResolutionOK
    <3>7. c = NoSignature => t = cases
      BY <3>3, <3>4 DEF RecordResolution
    <3>8. c # NoSignature =>
             /\ c \in Signatures /\ cases.case[c].state = "remediation_running"
             /\ \A d \in Signatures : d # c => t.case[d] = cases.case[d]
             /\ t.case[c].closed = cases.case[c].closed
      BY <1>7, <3>3, <3>4, <3>5, ResolutionOK
    <3>9. c # NoSignature =>
             /\ ~resolved /\ regrill /\ n < MaxAttempts => t.case[c].state = "grill_required"
             /\ ~resolved /\ ~(regrill /\ n < MaxAttempts) => t.case[c].state = "human_required"
      BY <1>7, <3>3, <3>4, <3>5, ResolutionOK
    <3>10. CASE c = NoSignature
      BY <3>6, <3>7, <3>10, Kept DEF ClosedOK
    <3>11. CASE c # NoSignature
      <4>1. /\ c \in Signatures /\ cases.case[c].state = "remediation_running"
            /\ \A d \in Signatures : d # c => t.case[d] = cases.case[d]
            /\ t.case[c].closed = cases.case[c].closed
        BY <3>8, <3>11
      <4>2. ~t.case[c].closed
        BY <4>1, Kept DEF ClosedOK
      <4>3. t.case[c].state \in {"grill_required", "human_required"}
            /\ (n = MaxAttempts => t.case[c].state = "human_required")
        <5>1. CASE n < MaxAttempts
          BY <1>5, <3>2, <3>9, <3>11, <5>1, OrdinalsFact
        <5>2. CASE ~(n < MaxAttempts)
          BY <3>2, <3>9, <3>11, <5>2
        <5> QED BY <5>1, <5>2
      <4>4. "human_required" \notin Grillable
        BY DEF Grillable
      <4>5. \A d \in Signatures :
               /\ t.case[d].state = "resolved" => cases.case[d].state = "resolved"
               /\ t.case[d].closed => cases.case[d].closed /\ t.case[d].state = cases.case[d].state
               /\ t.case[d].state \in Grillable /\ d # c => cases.case[d].state \in Grillable
               /\ n = MaxAttempts =>
                     (t.case[d].state \in Grillable => cases.case[d].state \in Grillable)
        BY <4>1, <4>2, <4>3, <4>4
      <4> QED BY <3>6, <4>5
    <3> QED BY <3>10, <3>11
  <2>2. CASE ~(p.remediation # NoSignature /\ run.last # Passed) /\ p.repeated # NoSignature
    <3>1. PICK c \in Signatures : c = p.repeated
      BY <1>6, <2>2 DEF Cases
    <3>2. t = EnsureFailureCase(cases, c)
      BY <1>4, <1>8, <2>2, <3>1 DEF Booked
    <3>3. /\ TableOK(t) /\ t.outbox = cases.outbox
          /\ \A d \in Signatures : d # c => t.case[d] = cases.case[d]
          /\ cases.case[c].state # "absent" => t = cases
          /\ cases.case[c].state = "absent" =>
                /\ t.case[c].state = "grill_required"
                /\ t.case[c].generation = AbsentCase.generation
                /\ ~t.case[c].closed
      BY <1>7, <3>2, EnsureOK
    <3>4. Bounded(t, n)
      BY <1>6, <1>7, <3>3, AbsentFact DEF Bounded
    <3>5. n # MaxAttempts
      BY <1>6, <2>2, OrdinalsFact
    <3>6. \A d \in Signatures :
             /\ t.case[d].state = "resolved" => cases.case[d].state = "resolved"
             /\ t.case[d].closed => cases.case[d].closed /\ t.case[d].state = cases.case[d].state
             /\ t.case[d].state \in Grillable /\ d # c => cases.case[d].state \in Grillable
      BY <3>3
    <3> QED BY <3>3, <3>4, <3>5, <3>6
  <2>3. CASE ~(p.remediation # NoSignature /\ run.last # Passed) /\ ~(p.repeated # NoSignature)
    <3>1. t = cases
      BY <1>4, <1>8, <2>3 DEF Booked
    <3> QED BY <1>7, <3>1
  <2> QED BY <2>1, <2>2, <2>3
<1>10. PICK c :
         /\ TableOK(t) /\ Bounded(t, n) /\ t.outbox = cases.outbox
         /\ \A d \in Signatures : t.case[d].state \in Grillable /\ d # c => cases.case[d].state \in Grillable
         /\ \A d \in Signatures : t.case[d].state = "resolved" => cases.case[d].state = "resolved"
         /\ \A d \in Signatures :
               t.case[d].closed => cases.case[d].closed /\ t.case[d].state = cases.case[d].state
         /\ n = MaxAttempts =>
               \A d \in Signatures : t.case[d].state \in Grillable => cases.case[d].state \in Grillable
  BY <1>9
<1>11. cases' = t
  BY <1>8 DEF Book
<1>12. PICK new \in Session : session' = [session EXCEPT ![v] = new] /\ new.at = "releasing"
  <2>1. PICK first : first = [Off EXCEPT !.at = "releasing"]
    OBVIOUS
  <2>2. first \in Session /\ first.at = "releasing"
    BY <2>1, OffFact DEF Session, Steps
  <2>3. PICK second : second = [first EXCEPT !.then = "ending"]
    OBVIOUS
  <2>4. second \in Session /\ second.at = "releasing"
    BY <2>2, <2>3 DEF Session
  <2>5. PICK third : third = [second EXCEPT !.moved = TRUE]
    OBVIOUS
  <2>6. third \in Session /\ third.at = "releasing"
    BY <2>4, <2>5 DEF Session
  <2>7. session' = [session EXCEPT ![v] = third]
    BY <2>1, <2>3, <2>5 DEF Book
  <2> QED BY <2>6, <2>7
<1>13. TableOK(cases') /\ Bounded(cases', run.attempts)
  BY <1>5, <1>10, <1>11
<1>14. ClosedOK'
  BY <1>2, <1>10, <1>11, Kept DEF ClosedOK
<1>15. WorkOK(v, new)' /\ lease.holder = v
  BY <1>2, <1>6, <1>12 DEF WorkOK
<1>16. ASSUME crew = {v} PROVE AloneOK(new)'
  <2>1. AloneOK(p)
    BY <1>4, <1>16, Mine
  <2>2. \A d \in Signatures :
           cases'.case[d].state = "resolved" =>
              /\ run'.state = "verified" /\ run'.value = "green"
              /\ goal' \in {"active", "completed"}
    BY <1>2, <1>10, <1>11, <2>1 DEF AloneOK
  <2> QED BY <1>12, <2>2 DEF AloneOK, Deciding, Attempting
<1>17. ASSUME crew = {v}, Calm PROVE CalmOK(new)'
  <2>1. CalmOK(p) /\ p.at = "booking"
    BY <1>1, <1>4, <1>17, Mine
  <2>2. \A d \in Signatures : cases.case[d].state \notin Grillable
    BY <2>1 DEF CalmOK, NoneGrillable
  <2>3. \A d \in Signatures : t.case[d].state \in Grillable => d = c
    BY <1>10, <2>2
  <2>4. n = MaxAttempts => \A d \in Signatures : t.case[d].state \notin Grillable
    BY <1>10, <2>2
  <2>5. goal = "active" => \A o \in t.outbox : o.outcome = "runner-fixable"
    BY <1>10, <2>1 DEF CalmOK
  <2> QED BY <1>2, <1>5, <1>11, <1>12, <2>3, <2>4, <2>5 DEF CalmOK, Attempting, NoneGrillable
<1> QED BY <1>1, <1>12, <1>13, <1>14, <1>15, <1>16, <1>17, CasesStep

-----------------------------------------------------------------------------
\* The environment.

LEMMA ClaimExpiresStep ==
  ASSUME Inv, NEW c \in Signatures, ClaimExpires(c)
  PROVE  Inv'
<1>1. UNCHANGED <<run, lease, goal, session, crew, flaky, crashes, revivals>>
  BY DEF ClaimExpires, bounds
<1>2. PICK t : t = [cases EXCEPT !.case[c].live = FALSE]
  OBVIOUS
<1>3. cases' = t /\ cases.case[c].live
  BY <1>2 DEF ClaimExpires
<1>4. /\ TableOK(t) /\ t.outbox = cases.outbox
      /\ \A d \in Signatures :
            /\ t.case[d].state = cases.case[d].state
            /\ t.case[d].generation = cases.case[d].generation
            /\ t.case[d].fence = cases.case[d].fence
            /\ t.case[d].closed = cases.case[d].closed
  BY <1>2, <1>3, ExpiryOK, Kept
<1>5. \A m : Bounded(cases, m) <=> Bounded(t, m)
  BY <1>4 DEF Bounded
<1>6. TypeOK'
  <2>1. cases' \in Table
    BY <1>3, <1>4 DEF TableOK
  <2> QED BY <1>1, <2>1 DEF Inv, TypeOK
<1>7. TableOK(cases') /\ Bounded(cases', run'.attempts) /\ RunOK'
  BY <1>1, <1>3, <1>4, <1>5, Kept DEF RunOK
<1>8. ClosedOK'
  BY <1>1, <1>3, <1>4, Kept DEF ClosedOK
<1>9. ASSUME NEW w \in Workers, NEW p, p = session[w]
      PROVE  /\ WorkOK(w, p)'
             /\ crew = {w} => AloneOK(p)'
             /\ crew = {w} /\ Calm => CalmOK(p)'
  <2>1. WorkOK(w, p) /\ (crew = {w} => AloneOK(p)) /\ (crew = {w} /\ Calm => CalmOK(p))
    BY <1>9, Mine
  <2>2. WorkOK(w, p)'
    BY <1>1, <1>3, <1>5, <2>1 DEF WorkOK
  <2>3. ASSUME crew = {w} PROVE AloneOK(p)'
    <3>1. AloneOK(p)
      BY <2>1, <2>3
    <3>2. p.at = "judging" => HoldsClaim(t, p.case, p.generation, p.fence)
      <4>1. p.at = "judging" => p.case \in Signatures
        BY <2>1 DEF WorkOK
      <4> QED BY <1>4, <3>1, <4>1 DEF AloneOK, HoldsClaim
    <3>3. Remedied' <=> Remedied
      BY <1>3, <1>4 DEF Remedied
    <3>4. ShouldGrill' <=> ShouldGrill
      BY <1>1 DEF ShouldGrill
    <3>5. \A d \in Signatures :
             cases'.case[d].state = "resolved" =>
                /\ run'.state = "verified" /\ run'.value = "green"
                /\ goal' \in {"active", "completed"}
      BY <1>1, <1>3, <1>4, <3>1 DEF AloneOK
    <3> QED BY <1>1, <1>3, <3>1, <3>2, <3>3, <3>4, <3>5 DEF AloneOK
  <2>4. ASSUME crew = {w}, Calm PROVE CalmOK(p)'
    <3>1. CalmOK(p)
      BY <2>1, <2>4
    <3>2. NoneGrillable' <=> NoneGrillable
      BY <1>3, <1>4 DEF NoneGrillable
    <3>3. \A d, e \in Signatures :
             cases'.case[d].state \in Grillable /\ cases'.case[e].state \in Grillable => d = e
      BY <1>3, <1>4, <3>1 DEF CalmOK
    <3>4. p.at \in {"claiming", "judging"} =>
             \A d \in Signatures : cases'.case[d].state \in Grillable => d = p.case
      BY <1>3, <1>4, <3>1 DEF CalmOK
    <3>5. p.at # "parking" /\ goal' = "active" =>
             \A o \in cases'.outbox : o.outcome = "runner-fixable"
      BY <1>1, <1>3, <1>4, <3>1 DEF CalmOK
    <3> QED BY <1>1, <3>1, <3>2, <3>3, <3>4, <3>5 DEF CalmOK
  <2> QED BY <2>2, <2>3, <2>4
<1>10. ASSUME NEW w \in Workers
       PROVE  /\ WorkOK(w, session[w])'
              /\ crew' = {w} => AloneOK(session[w])'
              /\ crew' = {w} /\ Calm' => CalmOK(session[w])'
  <2>1. PICK p : p = session[w]
    OBVIOUS
  <2>2. /\ WorkOK(w, p)' /\ (crew = {w} => AloneOK(p)')
        /\ crew = {w} /\ Calm => CalmOK(p)'
    BY <1>9, <2>1
  <2>3. session'[w] = p /\ crew' = crew /\ (Calm' <=> Calm)
    BY <1>1, <2>1 DEF Calm
  <2>4. WorkOK(w, session[w])'
    BY <2>2, <2>3 DEF WorkOK
  <2>5. crew' = {w} => AloneOK(session[w])'
    BY <2>2, <2>3 DEF AloneOK
  <2>6. crew' = {w} /\ Calm' => CalmOK(session[w])'
    BY <2>2, <2>3 DEF CalmOK
  <2> QED BY <2>4, <2>5, <2>6
<1> QED BY <1>6, <1>7, <1>8, <1>10 DEF Inv

LEMMA LeaseExpiresStep ==
  ASSUME Inv, LeaseExpires
  PROVE  Inv'
<1>1. /\ UNCHANGED <<run, cases, goal, session, crew, flaky, crashes, revivals>>
      /\ lease.holder = Gone /\ lease' = [lease EXCEPT !.live = FALSE]
  BY DEF LeaseExpires, bounds
<1>2. lease' \in LeaseRow
  BY <1>1, Kept DEF LeaseRow
<1>3. TypeOK'
  BY <1>1, <1>2 DEF Inv, TypeOK, LeaseRow
<1>4. TableOK(cases') /\ Bounded(cases', run'.attempts) /\ RunOK' /\ ClosedOK'
  BY <1>1, Kept DEF RunOK, ClosedOK
<1>5. ASSUME NEW w \in Workers
      PROVE  /\ WorkOK(w, session[w])'
             /\ crew' = {w} => AloneOK(session[w])'
             /\ crew' = {w} /\ Calm' => CalmOK(session[w])'
  <2>1. PICK p : p = session[w]
    OBVIOUS
  <2>2. WorkOK(w, p) /\ (crew = {w} => AloneOK(p)) /\ (crew = {w} /\ Calm => CalmOK(p))
    BY <2>1, Mine
  <2>3. p.at \notin Leased
    <3>1. w # Gone
      BY HoldersAssumption
    <3> QED BY <1>1, <2>2, <3>1 DEF WorkOK
  <2>4. session'[w] = p
    BY <1>1, <2>1
  <2>5. WorkOK(w, session[w])'
    BY <1>1, <2>2, <2>3, <2>4 DEF WorkOK, Leased
  <2>6. crew' = {w} => AloneOK(session[w])'
    BY <1>1, <2>2, <2>4 DEF AloneOK, HoldsClaim, ShouldGrill, Remedied
  <2>7. crew' = {w} /\ Calm' => CalmOK(session[w])'
    BY <1>1, <2>2, <2>4 DEF CalmOK, Calm, NoneGrillable
  <2> QED BY <2>5, <2>6, <2>7
<1> QED BY <1>3, <1>4, <1>5 DEF Inv

LEMMA CrashStep ==
  ASSUME Inv, NEW v \in Workers, Crash(v)
  PROVE  Inv'
<1>1. /\ v \in crew /\ session' = [session EXCEPT ![v] = Off]
      /\ UNCHANGED <<run, cases, goal, crew, flaky, revivals>>
      /\ crashes < MaxCrashes /\ crashes' = crashes + 1
  BY DEF Crash
<1>2. /\ run' \in RunRow /\ run'.attempts = run.attempts /\ RunOK'
      /\ revivals' \in 0..MaxRevivals
  BY <1>1, Kept DEF RunOK
<1>3. crashes' \in 0..MaxCrashes /\ crashes' # 0
  <2>1. crashes \in 0..MaxCrashes /\ MaxCrashes \in Nat
    BY GrillBoundsAssumption, Kept
  <2> QED BY <1>1, <2>1
<1>4. lease' \in LeaseRow /\ (lease' = lease \/ lease.holder = v)
  <2>1. CASE lease.holder = v
    <3>1. lease' = [lease EXCEPT !.holder = Gone]
      BY <2>1 DEF Crash
    <3> QED BY <2>1, <3>1, Kept DEF LeaseRow
  <2>2. CASE lease.holder # v
    BY <2>2, Kept DEF Crash
  <2> QED BY <2>1, <2>2
<1>5. ~Calm'
  BY <1>3 DEF Calm
<1> QED BY <1>1, <1>2, <1>3, <1>4, <1>5, RunStep, OffFact DEF Plain

-----------------------------------------------------------------------------
\* The invariant.

LEMMA InitialInv ==
  ASSUME Init
  PROVE  Inv
<1>1. MaxAttempts \in Nat /\ MaxAttempts >= 1 /\ Ordinals \subseteq Nat
  BY MaxAttemptsAssumption, OrdinalsFact
<1>2. PICK c \in {MaxAttempts - 1, MaxAttempts} \ {0} :
        run = [state |-> "queued", attempts |-> 0, ceiling |-> c, last |-> NoSignature,
               latest |-> NoSignature, routed |-> FALSE, value |-> "green"]
  BY DEF Init
<1>3. c \in Ordinals
  BY <1>1 DEF Ordinals
<1>4. run \in RunRow /\ run.state = "queued" /\ run.attempts = 0
  <2>1. NoSignature \in Results /\ "queued" \in Executable /\ 0 \in 0..MaxAttempts
    BY <1>1 DEF Results, Executable
  <2> QED BY <1>2, <1>3, <2>1 DEF RunRow
<1>5. /\ cases = EmptyTable /\ goal = "active" /\ session = [w \in Workers |-> Off]
      /\ lease = [holder |-> Nobody, live |-> FALSE]
      /\ crew \in Crews /\ flaky \in BOOLEAN /\ crashes = 0 /\ revivals = 0
  BY DEF Init
<1>6. /\ cases \in Table /\ cases.outbox = {}
      /\ \A d \in Signatures : cases.case[d] = AbsentCase
  <2>1. PICK k : k = [d \in Signatures |-> AbsentCase]
    OBVIOUS
  <2>2. k \in [Signatures -> Case] /\ \A d \in Signatures : k[d] = AbsentCase
    BY <2>1, AbsentFact
  <2>3. cases = [case |-> k, updated |-> <<>>, outbox |-> {}]
    BY <1>5, <2>1 DEF EmptyTable
  <2>4. <<>> \in Seq(Signatures)
    OBVIOUS
  <2> QED BY <2>2, <2>3, <2>4 DEF Table
<1>7. \A d \in Signatures : cases.case[d].state = "absent" /\ ~cases.case[d].closed
  BY <1>6, AbsentFact
<1>8. TableOK(cases) /\ Bounded(cases, run.attempts) /\ ClosedOK /\ RunOK
  BY <1>4, <1>6, <1>7 DEF TableOK, Bounded, ClosedOK, RunOK
<1>9. TypeOK
  <2>1. session \in [Workers -> Session]
    BY <1>5, OffFact
  <2>2. 0 \in 0..MaxCrashes /\ 0 \in 0..MaxRevivals
    BY GrillBoundsAssumption
  <2> QED BY <1>4, <1>5, <1>6, <2>1, <2>2 DEF TypeOK
<1>10. ASSUME NEW w \in Workers
       PROVE  WorkOK(w, session[w]) /\ AloneOK(session[w]) /\ CalmOK(session[w])
  <2>1. session[w].at = "off"
    BY <1>5, OffFact
  <2>2. WorkOK(w, session[w])
    BY <2>1, PlainWork DEF Plain
  <2>3. AloneOK(session[w])
    BY <1>7, <2>1 DEF AloneOK, Deciding, Attempting
  <2>4. CalmOK(session[w])
    BY <1>6, <1>7, <2>1 DEF CalmOK, Attempting, NoneGrillable, Grillable
  <2> QED BY <2>2, <2>3, <2>4
<1> QED BY <1>8, <1>9, <1>10 DEF Inv

LEMMA Stutter ==
  ASSUME Inv, UNCHANGED vars
  PROVE  Inv'
<1>1. UNCHANGED <<run, lease, cases, goal, session, crew, flaky, crashes, revivals>>
  BY DEF vars
<1>2. TypeOK' /\ TableOK(cases') /\ Bounded(cases', run'.attempts) /\ RunOK' /\ ClosedOK'
  BY <1>1, Kept DEF Inv, TypeOK, RunOK, ClosedOK
<1>3. ASSUME NEW w \in Workers
      PROVE  /\ WorkOK(w, session[w])'
             /\ crew' = {w} => AloneOK(session[w])'
             /\ crew' = {w} /\ Calm' => CalmOK(session[w])'
  BY <1>1, Mine
     DEF WorkOK, AloneOK, CalmOK, Calm, Remedied, NoneGrillable, ShouldGrill, HoldsClaim
<1> QED BY <1>2, <1>3 DEF Inv

LEMMA NextInv ==
  ASSUME Inv, [Next]_vars
  PROVE  Inv'
<1>1. CASE UNCHANGED vars
  BY <1>1, Stutter
<1>2. ASSUME NEW v \in Workers, StartSession(v) \/ Tick(v) \/ Crash(v) PROVE Inv'
  <2>1. CASE StartSession(v) \/ Crash(v)
    BY <2>1, StartSessionStep, CrashStep
  <2>2. CASE Startup(v) \/ ProcessEvent(v) \/ EndTick(v) \/ Dispatch(v)
    BY <2>2, StartupStep, ProcessEventStep, EndTickStep, DispatchStep
  <2>3. CASE EnsureCase(v) \/ Claim(v) \/ Judge(v) \/ Park(v)
    BY <2>3, EnsureCaseStep, ClaimStep, JudgeStep, ParkStep
  <2>4. CASE Recover(v) \/ AcquireLease(v) \/ ReadRun(v) \/ Begin(v)
    BY <2>4, RecoverStep, AcquireLeaseStep, ReadRunStep, BeginStep
  <2>5. CASE Finish(v) \/ TimeOut(v) \/ Book(v) \/ Release(v)
    BY <2>5, FinishStep, TimeOutStep, BookStep, ReleaseStep
  <2>6. CASE NothingToReduce(v) \/ ReduceGivenUp(v) \/ ReduceVerified(v)
    BY <2>6, NothingToReduceStep, ReduceGivenUpStep, ReduceVerifiedStep
  <2>7. CASE RefuseGoal(v) \/ CompleteGoal(v) \/ CloseCase(v)
    BY <2>7, RefuseGoalStep, CompleteGoalStep, CloseCaseStep
  <2> QED BY <1>2, <2>1, <2>2, <2>3, <2>4, <2>5, <2>6, <2>7 DEF Tick
<1>3. ASSUME NEW c \in Signatures, ClaimExpires(c) PROVE Inv'
  BY <1>3, ClaimExpiresStep
<1>4. CASE LeaseExpires
  BY <1>4, LeaseExpiresStep
<1> QED BY <1>1, <1>2, <1>3, <1>4 DEF Next

LEMMA InvIsInvariant == Spec => []Inv
BY InitialInv, NextInv, PTL DEF Spec

LEMMA AloneFact ==
  ASSUME Inv, Alone
  PROVE  \E w \in Workers : crew = {w}
<1>1. crew \subseteq Workers /\ IsFiniteSet(Workers)
  BY Fields, CrewsAssumption DEF Inv
<1>2. IsFiniteSet(crew)
  BY <1>1, FS_Subset
<1>3. \E w : crew = {w}
  BY <1>2, FS_Singleton DEF Alone
<1> QED BY <1>1, <1>3

\* An attempt is counted where it is begun, and nowhere else.
LEMMA BeginningFact ==
  ASSUME Inv, Next, Beginning
  PROVE  \E w \in Workers : Begin(w)
<1>1. run.attempts \in Nat
  BY Kept
<1>2. run'.attempts # run.attempts
  BY <1>1 DEF Beginning
<1>3. run' # run
  BY <1>2
<1>4. ~RecoverStaleRun /\ run' \notin Finished
  BY <1>2, RecoveryFact, FinishedFact
<1>5. PICK v \in Workers : StartSession(v) \/ Tick(v) \/ Crash(v)
  BY <1>3 DEF Next, ClaimExpires, LeaseExpires
<1>6. ~StartSession(v) /\ ~Crash(v)
  BY <1>3 DEF StartSession, Crash, store
<1>7. /\ ~Startup(v) /\ ~ProcessEvent(v) /\ ~EndTick(v) /\ ~Dispatch(v)
  BY <1>3, <1>4 DEF Startup, ProcessEvent, EndTick, Dispatch, store
<1>8. ~EnsureCase(v) /\ ~Claim(v) /\ ~Judge(v) /\ ~Park(v)
  BY <1>3 DEF EnsureCase, Claim, Judge, Park
<1>9. ~Recover(v) /\ ~AcquireLease(v) /\ ~ReadRun(v) /\ ~Finish(v)
  BY <1>3, <1>4 DEF Recover, AcquireLease, ReadRun, Finish
<1>10. ~TimeOut(v) /\ ~Book(v) /\ ~Release(v)
  BY <1>3 DEF TimeOut, Book, Release
<1>11. ~NothingToReduce(v) /\ ~ReduceGivenUp(v) /\ ~ReduceVerified(v)
  BY <1>3 DEF NothingToReduce, ReduceGivenUp, ReduceVerified, store
<1>12. ~RefuseGoal(v) /\ ~CompleteGoal(v) /\ ~CloseCase(v)
  BY <1>3 DEF RefuseGoal, CompleteGoal, CloseCase
<1> QED BY <1>5, <1>6, <1>7, <1>8, <1>9, <1>10, <1>11, <1>12 DEF Tick

-----------------------------------------------------------------------------
\* The rows of the run, its cases and the goal, and the progress of every
\* session keep their types (run_store.py, goal_loop_driver.py).
THEOREM TypeCorrect == Spec => []TypeOK
<1>1. Inv => TypeOK
  BY DEF Inv
<1> QED BY <1>1, InvIsInvariant, PTL

\* However many processes hold a claim on the same generation after claims
\* expired under their challengers, one outcome of it is recorded, and a case
\* is under remediation only on a recorded diagnosis of its generation
\* (claim_grill, record_grill_result, record_grill_failure).
THEOREM OneOutcomeRecorded == Spec => []OneOutcome
<1>1. Inv => OneOutcome
  BY DEF Inv, TableOK, OneOutcome
<1> QED BY <1>1, InvIsInvariant, PTL

\* While one process ticks, a case is resolved only by the final delivery
\* evidence and the value gate of a verified run, never by a passing verifier
\* alone, and the next node is set only on a resolved case of a completed goal,
\* whatever crashes come in between (record_resolution, record_next_node).
THEOREM ResolvedByValueGate == Spec => []ResolvedIsAccepted
<1>1. Inv => ResolvedIsAccepted
  <2> SUFFICES ASSUME Inv PROVE ResolvedIsAccepted
    OBVIOUS
  <2>1. ASSUME Alone, NEW c \in Signatures, cases.case[c].state = "resolved"
        PROVE  /\ run.state = "verified" /\ run.value = "green"
               /\ goal \in {"active", "completed"}
    <3>1. PICK w \in Workers : crew = {w}
      BY <2>1, AloneFact
    <3>2. AloneOK(session[w])
      BY <3>1, Mine
    <3> QED BY <2>1, <3>2 DEF AloneOK
  <2>2. ClosedOK
    BY DEF Inv
  <2> QED BY <2>1, <2>2 DEF ResolvedIsAccepted, ClosedOK
<1> QED BY <1>1, InvIsInvariant, PTL

\* A run that spent the whole budget in one undisturbed session leaves no case
\* that waits for a challenger (record_resolution with has_budget).
THEOREM SpentBudgetLeavesNoCase == Spec => []NothingLeftToGrill
<1>1. Inv => NothingLeftToGrill
  <2> SUFFICES ASSUME Inv, Undisturbed, run.attempts = MaxAttempts
               PROVE  NoneGrillable
    BY DEF NothingLeftToGrill, NoneGrillable
  <2>1. PICK w \in Workers : crew = {w}
    BY AloneFact DEF Undisturbed
  <2>2. CalmOK(session[w])
    BY <2>1, Mine DEF Undisturbed, Calm
  <2> QED BY <2>2 DEF CalmOK
<1> QED BY <1>1, InvIsInvariant, PTL

\* While one process ticks, and whatever crashes and revivals there were, the
\* last attempt of the full budget is begun after two failures only on a
\* diagnosis (_grill_before_final_attempt, should_grill).
THEOREM LastAttemptIsGrilled == Spec => GrilledBeforeLast
<1> DEFINE Grilled ==
      Beginning /\ Alone /\ run.attempts = MaxAttempts - 1 /\ run.attempts >= 2
         => run.latest \notin Signatures \/ LatestCase(cases, {"remediation_running"}) # NoSignature
<1>1. Inv /\ [Next]_vars => [Grilled]_vars
  <2> SUFFICES ASSUME Inv, Next, Beginning, Alone,
                      run.attempts = MaxAttempts - 1, run.attempts >= 2
               PROVE  \/ run.latest \notin Signatures
                      \/ LatestCase(cases, {"remediation_running"}) # NoSignature
    OBVIOUS
  <2>1. PICK w \in Workers : Begin(w)
    BY BeginningFact
  <2>2. PICK v \in Workers : crew = {v}
    BY AloneFact
  <2>3. w = v /\ session[w].at = "ready"
    BY <2>1, <2>2 DEF Begin, At
  <2>4. AloneOK(session[w])
    BY <2>2, <2>3, Mine
  <2>5. run.latest \notin Signatures \/ Remedied
    BY <2>3, <2>4 DEF AloneOK, Attempting, ShouldGrill
  <2>6. Remedied => LatestCase(cases, {"remediation_running"}) # NoSignature
    BY LatestOfTable, Kept DEF Remedied
  <2> QED BY <2>5, <2>6
<1> QED BY <1>1, InvIsInvariant, PTL DEF Spec, GrilledBeforeLast

\* "the loop may not silently consume another attempt" (grill_loop.py): while
\* one process ticks undisturbed, no attempt is begun once a challenger
\* refused the goal, failed or was missing.
THEOREM RefusalIsFinal == Spec => RefusalStands
<1> DEFINE Obeyed ==
      Beginning /\ Undisturbed => \A o \in cases.outbox : o.outcome = "runner-fixable"
<1>1. Inv /\ [Next]_vars => [Obeyed]_vars
  <2> SUFFICES ASSUME Inv, Next, Beginning, Undisturbed
               PROVE  \A o \in cases.outbox : o.outcome = "runner-fixable"
    OBVIOUS
  <2>1. PICK w \in Workers : Begin(w)
    BY BeginningFact
  <2>2. PICK v \in Workers : crew = {v}
    BY AloneFact DEF Undisturbed
  <2>3. w = v /\ session[w].at = "ready"
    BY <2>1, <2>2 DEF Begin, At
  <2>4. AloneOK(session[w]) /\ CalmOK(session[w])
    BY <2>2, <2>3, Mine DEF Undisturbed, Calm
  <2> QED BY <2>3, <2>4 DEF AloneOK, CalmOK, Attempting
<1> QED BY <1>1, InvIsInvariant, PTL DEF Spec, RefusalStands
=============================================================================
