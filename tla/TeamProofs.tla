----------------------------- MODULE TeamProofs -----------------------------
(***************************************************************************)
(* Theorems about the work of the team (MCTeam), for any processes, tasks, *)
(* agents, plans and bounds: the sessions of long tasks, the tools on the  *)
(* files, the development of a plan, each with an invariant of its own.    *)
(***************************************************************************)
EXTENDS MCTeam, FiniteSetTheorems, SequenceTheorems, TLAPS

---------------------------------------------------------------------------
(* The sessions of long tasks *)

Messages == [role : {"user", "assistant", "tool"}, call : Nat]
Checkpoints == [log : Seq(Messages), compactions : Seq(Seq(Messages)), done : SUBSET Keys]
Prompted == {"preparing", "compacting", "ready", "running", "answered"}
Loaded == {"prompting", "closing"} \cup Prompted

SessionTypeOK == /\ runLease \in Hosts \cup {NoHost}
                 /\ refs \in [Hosts -> Nat] /\ lost \in [Hosts -> Nat]
                 /\ disk \in [HostTasks -> Checkpoints] /\ mem \in [L!Sessions -> Checkpoints]
                 /\ place \in [L!Sessions -> {"none", "acquired"} \cup Loaded]
                 /\ op \in [L!Sessions -> Keys \cup {"none"}]

\* The run lease is held by who has a session, or one whose last save failed.
OpenOf(h) == {s \in L!Sessions : L!Host(s) = h /\ place[s] # "none"}
Counted(h) == /\ IsFiniteSet(OpenOf(h))
              /\ refs[h] = Cardinality(OpenOf(h)) + lost[h]
              /\ (refs[h] > 0) <=> (runLease = h)

\* The result of a call follows it, and the calls are numbered.
Paired(log) == /\ \A j \in DOMAIN log : log[j].role = "tool" =>
                    /\ j > 1 /\ log[j].call # 0
                    /\ log[j - 1].role = "assistant" /\ log[j - 1].call = log[j].call
               /\ log # <<>> /\ L!Pending(log) => L!Last(log).call = L!Calls(log)

\* What a compaction covers is a beginning that parts no call from its result.
Cut(c, log) == /\ Len(c) < Len(log) /\ L!IsPrefix(c, log)
               /\ log[Len(c) + 1].role # "tool"

Sound(m) == Paired(m.log) /\ \A k \in DOMAIN m.compactions : Cut(m.compactions[k], m.log)

SoundInv == /\ \A t \in HostTasks : Sound(disk[t])
            /\ \A s \in L!Sessions : Sound(mem[s])

\* A session knows what the checkpoint of its task says.
LoadedInv == \A s \in L!Sessions :
  /\ place[s] \in Loaded => /\ mem[s].compactions = disk[L!Task(s)].compactions
                            /\ disk[L!Task(s)].done \subseteq mem[s].done
  /\ place[s] \in Prompted => mem[s].log # <<>>
  /\ op[s] # "none" => place[s] \in Loaded

SessionsInv == SessionTypeOK /\ SoundInv /\ LoadedInv /\ \A h \in Hosts : Counted(h)

\* A transcript with one more message.
LEMMA LongerLog ==
  ASSUME NEW log \in Seq(Messages), NEW x \in Messages
  PROVE  LET longer == Append(log, x)
         IN /\ longer \in Seq(Messages) /\ Len(longer) = Len(log) + 1 /\ longer # <<>>
            /\ DOMAIN longer = 1..(Len(log) + 1) /\ DOMAIN log = 1..Len(log)
            /\ longer[Len(log) + 1] = x /\ \A i \in 1..Len(log) : longer[i] = log[i]
OBVIOUS

\* The calls of a transcript are those before its last message, and this one.
CallsIn(log) == {i \in DOMAIN log : log[i].role = "assistant" /\ log[i].call # 0}
LEMMA CallsGrow ==
  ASSUME NEW log \in Seq(Messages), NEW x \in Messages
  PROVE  /\ L!Calls(log) \in Nat
         /\ L!Calls(Append(log, x)) =
              IF x.role = "assistant" /\ x.call # 0 THEN L!Calls(log) + 1 ELSE L!Calls(log)
<1> DEFINE longer == Append(log, x)
<1>1. longer \in Seq(Messages) /\ Len(longer) = Len(log) + 1 /\ DOMAIN longer = 1..(Len(log) + 1)
      /\ longer[Len(log) + 1] = x /\ \A i \in DOMAIN log : longer[i] = log[i]
  OBVIOUS
<1>2. IsFiniteSet(CallsIn(log)) /\ Cardinality(CallsIn(log)) \in Nat
  <2>1. IsFiniteSet(1..Len(log))
    BY FS_Interval
  <2>2. CallsIn(log) \in SUBSET (1..Len(log))
    BY DEF CallsIn
  <2> QED
    BY <2>1, <2>2, FS_Subset, FS_CardinalityType
<1>3. L!Calls(log) = Cardinality(CallsIn(log)) /\ L!Calls(longer) = Cardinality(CallsIn(longer))
  BY DEF L!Calls, CallsIn, L!Cardinality, Cardinality
<1> HIDE DEF longer
<1>4. CASE x.role = "assistant" /\ x.call # 0
  <2>1. CallsIn(longer) = CallsIn(log) \cup {Len(log) + 1}
    BY <1>1, <1>4 DEF CallsIn
  <2>2. Len(log) + 1 \notin CallsIn(log)
    BY DEF CallsIn
  <2>3. Cardinality(CallsIn(log) \cup {Len(log) + 1}) = Cardinality(CallsIn(log)) + 1
    BY <1>2, <2>2, FS_AddElement
  <2> QED
    BY <1>2, <1>3, <1>4, <2>1, <2>3 DEF longer
<1>5. CASE ~(x.role = "assistant" /\ x.call # 0)
  <2>1. CallsIn(longer) = CallsIn(log)
    BY <1>1, <1>5 DEF CallsIn
  <2> QED
    BY <1>2, <1>3, <1>5, <2>1 DEF longer
<1> QED
  BY <1>4, <1>5

\* A message that a session may append.
Fitting(log, x) ==
  /\ x.role = "tool" => log # <<>> /\ L!Pending(log) /\ x.call = L!Calls(log)
  /\ x.role = "assistant" /\ x.call # 0 => x.call = L!Calls(log) + 1

\* The transcript stays sound when such a message is appended: append.
LEMMA AppendedIsSound ==
  ASSUME NEW m \in Checkpoints, Sound(m), NEW x \in Messages, Fitting(m.log, x)
  PROVE  LET longer == L!Appended(m, x)
         IN /\ longer \in Checkpoints /\ Sound(longer) /\ longer.log # <<>>
            /\ longer.compactions = m.compactions /\ longer.done = m.done
<1> DEFINE log == m.log
           new == Append(log, x)
<1>1. log \in Seq(Messages) /\ Len(log) \in Nat /\ m.compactions \in Seq(Seq(Messages))
      /\ m.done \in SUBSET Keys
  BY DEF Checkpoints
<1>2. new \in Seq(Messages) /\ Len(new) = Len(log) + 1 /\ DOMAIN new = 1..(Len(log) + 1)
      /\ new[Len(log) + 1] = x /\ (\A i \in 1..Len(log) : new[i] = log[i]) /\ new # <<>>
      /\ DOMAIN log = 1..Len(log)
  <2> HIDE DEF log
  <2> QED
    BY <1>1, LongerLog
<1>3. L!Appended(m, x) = [m EXCEPT !.log = new]
  BY DEF L!Appended
<1>4. PICK longer : longer = L!Appended(m, x)
  OBVIOUS
<1>5. /\ longer \in Checkpoints /\ longer.log = new
      /\ longer.compactions = m.compactions /\ longer.done = m.done
  BY <1>1, <1>2, <1>3, <1>4 DEF Checkpoints
<1>c. /\ L!Calls(log) \in Nat
      /\ x.role = "assistant" /\ x.call # 0 => L!Calls(new) = L!Calls(log) + 1
  BY <1>1, CallsGrow
<1>m. x.role \in {"user", "assistant", "tool"} /\ x.call \in Nat
  BY DEF Messages
<1>p. Paired(log) /\ \A k \in DOMAIN m.compactions : Cut(m.compactions[k], log)
  BY DEF Sound
<1> HIDE DEF log, new
<1>6. ASSUME NEW j \in DOMAIN new, new[j].role = "tool"
      PROVE  /\ j > 1 /\ new[j].call # 0
             /\ new[j - 1].role = "assistant" /\ new[j - 1].call = new[j].call
  <2>1. CASE j \in 1..Len(log)
    <3>1. /\ j > 1 /\ log[j].call # 0
          /\ log[j - 1].role = "assistant" /\ log[j - 1].call = log[j].call
      BY <1>2, <1>6, <1>p, <2>1 DEF Paired
    <3>2. j - 1 \in 1..Len(log) /\ new[j] = log[j] /\ new[j - 1] = log[j - 1]
      BY <1>1, <1>2, <2>1, <3>1
    <3> QED
      BY <3>1, <3>2
  <2>2. CASE j = Len(log) + 1
    <3>1. x.role = "tool"
      BY <1>2, <1>6, <2>2
    <3>2. log # <<>> /\ L!Pending(log) /\ x.call = L!Calls(log)
      BY <3>1 DEF Fitting, log
    <3>3. Len(log) >= 1 /\ L!Last(log) = log[Len(log)]
      BY <1>1, <3>2 DEF L!Last
    <3>4. log[Len(log)].role = "assistant" /\ log[Len(log)].call # 0 /\ log[Len(log)].call = x.call
      BY <1>p, <3>2, <3>3 DEF L!Pending, Paired
    <3>5. new[j - 1] = log[Len(log)] /\ j > 1
      BY <1>1, <1>2, <2>2, <3>3
    <3> QED
      BY <1>2, <2>2, <3>4, <3>5
  <2> QED
    BY <1>1, <1>2, <2>1, <2>2
<1>7. L!Pending(new) => L!Last(new).call = L!Calls(new)
  <2>1. L!Last(new) = x
    BY <1>2 DEF L!Last
  <2>2. ASSUME L!Pending(new) PROVE x.call = L!Calls(new)
    <3>1. x.role = "assistant" /\ x.call # 0
      BY <2>1, <2>2 DEF L!Pending
    <3> QED
      BY <1>c, <3>1 DEF Fitting, log
  <2> QED
    BY <2>1, <2>2
<1>8. ASSUME NEW k \in DOMAIN m.compactions PROVE Cut(m.compactions[k], new)
  <2>1. PICK c \in Seq(Messages) : c = m.compactions[k]
    BY <1>1
  <2>2. Len(c) < Len(log) /\ L!IsPrefix(c, log) /\ log[Len(c) + 1].role # "tool" /\ Len(c) \in Nat
    BY <1>p, <2>1 DEF Cut
  <2>3. SubSeq(new, 1, Len(c)) = SubSeq(log, 1, Len(c))
    BY <1>1, <1>2, <2>2
  <2>4. L!IsPrefix(c, new)
    BY <1>1, <1>2, <2>2, <2>3 DEF L!IsPrefix
  <2>5. new[Len(c) + 1] = log[Len(c) + 1] /\ Len(c) < Len(new)
    <3>1. Len(c) + 1 \in 1..Len(log) /\ Len(c) < Len(log) + 1
      <4>1. Len(log) \in Nat /\ Len(c) \in Nat /\ Len(c) < Len(log)
        BY <1>1, <2>2
      <4> QED
        BY <4>1
    <3> QED
      BY <1>2, <3>1
  <2> QED
    BY <2>1, <2>2, <2>4, <2>5 DEF Cut
<1>9. Sound(longer)
  BY <1>5, <1>6, <1>7, <1>8 DEF Sound, Paired
<1> QED
  BY <1>2, <1>4, <1>5, <1>9

\* A set of numbers that has a bound has a largest one.
LEMMA LargestExists ==
  ASSUME NEW S \in SUBSET Nat, S # {}, NEW b \in Nat, \A n \in S : n <= b
  PROVE  \E k \in S : \A n \in S : n <= k
<1> DEFINE above == {k \in 0..b : \A m \in S : m <= k}
           ranges == {0..k : k \in above}
<1>1. b \in above /\ \A k \in above : k \in Nat
  OBVIOUS
<1>2. PICK k \in above : \A y \in above : k <= y
  <2>1. IsFiniteSet(0..b) /\ 0..b \in ranges
    <3>1. IsFiniteSet(0..b)
      BY FS_Interval
    <3>2. 0..b \in ranges
      BY <1>1
    <3> QED
      BY <3>1, <3>2
  <2>2. ranges \subseteq FiniteSubsetsOf(0..b)
    BY <2>1, FS_Subset DEF FiniteSubsetsOf
  <2>3. IsWellFoundedOn(StrictSubsetOrdering(0..b), FiniteSubsetsOf(0..b))
    BY <2>1, FS_StrictSubsetOrderingWellFounded
  <2>4. PICK x \in ranges : \A y \in ranges : ~(<<y, x>> \in StrictSubsetOrdering(0..b))
    <3> HIDE DEF ranges
    <3> QED
      BY <2>1, <2>2, <2>3, WFMin
  <2>5. PICK k \in above : x = 0..k
    OBVIOUS
  <2>6. ASSUME NEW y \in above, y < k PROVE FALSE
    <3>1. 0..y \in ranges /\ 0..y \subseteq x /\ 0..y # x /\ 0..y \subseteq 0..b /\ x \subseteq 0..b
      BY <1>1, <2>5, <2>6
    <3>2. <<0..y, x>> \in StrictSubsetOrdering(0..b)
      BY <3>1 DEF StrictSubsetOrdering
    <3> QED
      BY <2>4, <3>1, <3>2
  <2>7. \A y \in above : y \in Nat /\ k \in Nat
    BY <1>1
  <2>8. \A y \in above : k <= y
    <3> HIDE DEF above
    <3> QED
      BY <2>6, <2>7
  <2> HIDE DEF above
  <2> QED
    BY <2>8
<1>3. k \in S
  <2>1. SUFFICES ASSUME k \notin S PROVE FALSE
    OBVIOUS
  <2>2. k \in Nat /\ \A m \in S : m \in Nat /\ m <= k /\ m # k
    BY <2>1
  <2>3. k > 0 /\ \A m \in S : m <= k - 1
    <3>1. PICK m \in S : TRUE
      OBVIOUS
    <3>2. m \in Nat /\ m <= k /\ m # k /\ k \in Nat
      BY <2>2
    <3>3. \A x \in S : x <= k - 1
      BY <2>2
    <3> QED
      BY <3>2, <3>3
  <2>4. k - 1 \in above
    BY <1>1, <2>3
  <2> QED
    BY <1>2, <2>2, <2>4
<1>4. \A m \in S : k >= m
  OBVIOUS
<1> QED
  BY <1>3, <1>4

\* The boundary of a compaction is before the last message, and no call is parted
\* from its result: findCompactionBoundary.
LEMMA BoundaryIs ==
  ASSUME NEW log \in Seq(Messages), L!Boundary(log) > 0
  PROVE  /\ L!Boundary(log) \in 1..(Len(log) - 1)
         /\ ~L!Crosses(log, L!Boundary(log))
<1> DEFINE most == IF Len(log) > RetainRecent THEN Len(log) - RetainRecent ELSE 0
           Good(n) == ~L!Crosses(log, n) /\ \A k \in (n + 1)..most : L!Crosses(log, k)
           S == {n \in 0..most : ~L!Crosses(log, n)}
<1>1. most \in Nat /\ (most > 0 => most <= Len(log) - 1) /\ Len(log) \in Nat
  BY BoundsAreNumbers
<1>2. 0 \in S
  <2>1. 1..0 = {}
    OBVIOUS
  <2>2. ~L!Crosses(log, 0)
    BY <2>1 DEF L!Crosses
  <2> QED
    BY <1>1, <2>2
<1> HIDE DEF most
<1>3. PICK n \in S : \A k \in S : k <= n
  <2>1. S \in SUBSET Nat /\ \A k \in S : k <= most
    BY <1>1
  <2> HIDE DEF S
  <2> QED
    BY <1>1, <1>2, <2>1, LargestExists
<1>4. n \in 0..most /\ Good(n)
  <2>1. \A k \in (n + 1)..most : k \in 0..most /\ ~(k <= n)
    BY <1>1, <1>3
  <2> QED
    BY <1>3, <2>1
<1>5. PICK b \in 0..most : b = (CHOOSE k \in 0..most : Good(k)) /\ Good(b)
  BY <1>4
<1>6. L!Boundary(log) = IF \A i \in 1..b : L!IsSystem(log[i]) THEN 0 ELSE b
  BY <1>5 DEF L!Boundary, most
<1>7. L!Boundary(log) = b /\ b > 0
  BY <1>6
<1> QED
  BY <1>1, <1>5, <1>7

\* A compaction keeps the memory sound: createCompaction.
LEMMA CompactedIsSound ==
  ASSUME NEW m \in Checkpoints, Sound(m), L!Boundary(m.log) > 0
  PROVE  /\ L!Compacted(m) \in Checkpoints /\ Sound(L!Compacted(m))
         /\ L!Compacted(m).log = m.log /\ L!Compacted(m).done = m.done
<1>1. m.log \in Seq(Messages) /\ m.compactions \in Seq(Seq(Messages)) /\ m.done \in SUBSET Keys
  BY DEF Checkpoints
<1>2. PICK b \in 1..(Len(m.log) - 1) : b = L!Boundary(m.log) /\ ~L!Crosses(m.log, b)
  BY <1>1, BoundaryIs
<1>3. PICK c : c = SubSeq(m.log, 1, b)
  OBVIOUS
<1>4. c \in Seq(Messages) /\ Len(c) = b /\ b < Len(m.log) /\ b \in Nat
  BY <1>1, <1>2, <1>3
<1>5. PICK all : all = Append(m.compactions, c)
  OBVIOUS
<1>6. /\ all \in Seq(Seq(Messages)) /\ DOMAIN all = 1..(Len(m.compactions) + 1)
      /\ all[Len(m.compactions) + 1] = c
      /\ \A k \in 1..Len(m.compactions) : all[k] = m.compactions[k]
      /\ DOMAIN m.compactions = 1..Len(m.compactions) /\ Len(m.compactions) \in Nat
  BY <1>1, <1>4, <1>5
<1>7. L!Compacted(m) = [m EXCEPT !.compactions = all]
  BY <1>2, <1>3, <1>5 DEF L!Compacted
<1>8. PICK new : new = L!Compacted(m)
  OBVIOUS
<1>9. new \in Checkpoints /\ new.log = m.log /\ new.done = m.done /\ new.compactions = all
  BY <1>1, <1>6, <1>7, <1>8 DEF Checkpoints
<1>10. Cut(c, m.log)
  <2>1. SubSeq(c, 1, Len(c)) = SubSeq(m.log, 1, Len(c))
    BY <1>1, <1>2, <1>3, <1>4
  <2>2. L!IsPrefix(c, m.log)
    BY <1>4, <2>1 DEF L!IsPrefix
  <2>3. m.log[b + 1].role # "tool"
    <3> SUFFICES ASSUME m.log[b + 1].role = "tool" PROVE FALSE
      OBVIOUS
    <3>1. b + 1 \in DOMAIN m.log /\ (b + 1) - 1 = b
      BY <1>1, <1>2
    <3>2. m.log[b].call = m.log[b + 1].call /\ m.log[b + 1].call # 0
      BY <3>1 DEF Sound, Paired
    <3>3. b \in 1..b /\ b + 1 \in (b + 1)..Len(m.log)
      BY <1>1, <1>2
    <3> QED
      BY <1>2, <3>2, <3>3 DEF L!Crosses
  <2> QED
    BY <1>4, <2>2, <2>3 DEF Cut
<1>11. ASSUME NEW k \in DOMAIN all PROVE Cut(all[k], m.log)
  <2>1. CASE k \in 1..Len(m.compactions)
    BY <1>6, <2>1 DEF Sound
  <2>2. CASE k = Len(m.compactions) + 1
    BY <1>6, <1>10, <2>2
  <2> QED
    BY <1>6, <2>1, <2>2
<1>12. Sound(new)
  BY <1>9, <1>11 DEF Sound
<1> QED
  BY <1>8, <1>9, <1>12

\* What is sent of a sound memory has no result without its call.
LEMMA SoundSendsPairs ==
  ASSUME NEW m \in Checkpoints, Sound(m), NEW j \in L!Projected(m), m.log[j].role = "tool"
  PROVE  \E i \in L!Projected(m) : i < j /\ m.log[i].role = "assistant" /\ m.log[i].call = m.log[j].call
<1>1. m.log \in Seq(Messages) /\ m.compactions \in Seq(Seq(Messages)) /\ DOMAIN m.log = 1..Len(m.log)
      /\ DOMAIN m.compactions = 1..Len(m.compactions) /\ Len(m.compactions) \in Nat /\ Len(m.log) \in Nat
  BY DEF Checkpoints
<1>2. j \in 1..Len(m.log) /\ (j > L!Covered(m) \/ L!IsSystem(m.log[j]))
  BY <1>1 DEF L!Projected
<1>3. j > L!Covered(m)
  BY <1>2 DEF L!IsSystem
<1>4. /\ j > 1 /\ m.log[j - 1].role = "assistant" /\ m.log[j - 1].call = m.log[j].call
  BY <1>1, <1>2 DEF Sound, Paired
<1>5. j - 1 > L!Covered(m)
  <2>1. CASE L!Valid(m) = {}
    BY <1>2, <1>4, <2>1 DEF L!Covered
  <2>2. CASE L!Valid(m) # {}
    <3>1. PICK last : last = CHOOSE i \in L!Valid(m) : \A n \in L!Valid(m) : n <= i
      OBVIOUS
    <3>2. last \in L!Valid(m)
      <4>1. L!Valid(m) \in SUBSET Nat /\ \A n \in L!Valid(m) : n <= Len(m.compactions)
        BY <1>1 DEF L!Valid
      <4>2. \E i \in L!Valid(m) : \A n \in L!Valid(m) : n <= i
        BY <1>1, <2>2, <4>1, LargestExists
      <4> QED
        BY <3>1, <4>2
    <3>3. PICK c \in Seq(Messages) : c = m.compactions[last]
      BY <1>1, <3>2 DEF L!Valid
    <3>4. L!Covered(m) = Len(c) /\ Len(c) \in Nat
      BY <2>2, <3>1, <3>3 DEF L!Covered
    <3>5. m.log[Len(c) + 1].role # "tool"
      BY <3>2, <3>3 DEF L!Valid, Sound, Cut
    <3>6. j # Len(c) + 1
      BY <3>5
    <3> QED
      BY <1>2, <1>3, <3>4, <3>6
  <2> QED
    BY <2>1, <2>2
<1>6. j - 1 \in L!Projected(m) /\ j - 1 < j
  BY <1>1, <1>2, <1>4, <1>5 DEF L!Projected
<1> QED
  BY <1>4, <1>6

\* Two open sessions are of the process that holds the lease; of a task there is one.
LEMMA OpenOne ==
  ASSUME SessionsInv, NEW s \in L!Sessions, place[s] # "none"
  PROVE  /\ L!Host(s) \in Hosts /\ L!Task(s) \in HostTasks /\ s = <<L!Host(s), L!Task(s)>>
         /\ runLease = L!Host(s) /\ refs[L!Host(s)] > 0
         /\ \A r \in L!Sessions : place[r] # "none" /\ L!Task(r) = L!Task(s) => r = s
<1>1. ASSUME NEW r \in L!Sessions
      PROVE  L!Host(r) \in Hosts /\ L!Task(r) \in HostTasks /\ r = <<L!Host(r), L!Task(r)>>
  BY DEF L!Sessions, L!Host, L!Task
<1>2. ASSUME NEW r \in L!Sessions, place[r] # "none"
      PROVE  runLease = L!Host(r) /\ refs[L!Host(r)] > 0
  <2>1. PICK h \in Hosts : h = L!Host(r)
    BY <1>1
  <2>2. r \in OpenOf(h) /\ Counted(h) /\ refs[h] \in Nat /\ lost[h] \in Nat
    BY <1>2, <2>1 DEF OpenOf, SessionsInv, SessionTypeOK
  <2>3. Cardinality(OpenOf(h)) \in Nat /\ Cardinality(OpenOf(h)) # 0
    BY <2>2, FS_CardinalityType, FS_EmptySet DEF Counted
  <2> QED
    BY <2>1, <2>2, <2>3 DEF Counted
<1> QED
  BY <1>1, <1>2

\* What a session writes and where it goes next, while its process runs.
LEMMA SessionMoves ==
  ASSUME SessionsInv, NEW s \in L!Sessions, place[s] \in Loaded,
         NEW m \in Checkpoints, Sound(m), NEW p \in Loaded, p \in Prompted => m.log # <<>>,
         NEW k \in Keys \cup {"none"},
         mem' = [mem EXCEPT ![s] = m], place' = [place EXCEPT ![s] = p], op' = [op EXCEPT ![s] = k],
         \/ disk' = [disk EXCEPT ![L!Task(s)] = m]
         \/ disk' = disk /\ m.compactions = mem[s].compactions /\ mem[s].done \subseteq m.done,
         UNCHANGED <<runLease, refs, lost>>
  PROVE  SessionsInv'
<1>1. /\ SessionTypeOK /\ SoundInv /\ LoadedInv /\ \A h \in Hosts : Counted(h)
      /\ "none" \notin Loaded /\ place[s] # "none" /\ "acquired" \notin Loaded
  BY DEF SessionsInv, Loaded, Prompted
<1>2. /\ L!Host(s) \in Hosts /\ L!Task(s) \in HostTasks
      /\ \A r \in L!Sessions : place[r] # "none" /\ L!Task(r) = L!Task(s) => r = s
  BY <1>1, OpenOne
<1>3. SessionTypeOK'
  BY <1>1, <1>2 DEF SessionTypeOK, L!Sessions
<1>4. SoundInv'
  BY <1>1, <1>2 DEF SessionTypeOK, SoundInv, L!Sessions
<1>5. LoadedInv'
  <2> SUFFICES ASSUME NEW r \in L!Sessions
               PROVE  /\ place'[r] \in Loaded => /\ mem'[r].compactions = disk'[L!Task(r)].compactions
                                                 /\ disk'[L!Task(r)].done \subseteq mem'[r].done
                      /\ place'[r] \in Prompted => mem'[r].log # <<>>
                      /\ op'[r] # "none" => place'[r] \in Loaded
    BY DEF LoadedInv, L!Sessions, L!Task, Loaded, Prompted
  <2>1. CASE r = s
    <3>1. mem'[r] = m /\ place'[r] = p
      BY <1>1, <2>1 DEF SessionTypeOK
    <3>2. CASE disk' = [disk EXCEPT ![L!Task(s)] = m]
      <4>1. disk'[L!Task(r)] = m
        BY <1>1, <1>2, <2>1, <3>2 DEF SessionTypeOK
      <4> QED
        BY <3>1, <4>1
    <3>3. CASE disk' = disk /\ m.compactions = mem[s].compactions /\ mem[s].done \subseteq m.done
      <4>1. mem[s].compactions = disk[L!Task(s)].compactions /\ disk[L!Task(s)].done \subseteq mem[s].done
        BY <1>1 DEF LoadedInv
      <4> QED
        BY <2>1, <3>1, <3>3, <4>1
    <3> QED
      BY <3>2, <3>3
  <2>2. CASE r # s
    <3>1. mem'[r] = mem[r] /\ place'[r] = place[r] /\ op'[r] = op[r]
      BY <1>1, <2>2 DEF SessionTypeOK
    <3>2. place[r] \in Loaded => disk'[L!Task(r)] = disk[L!Task(r)]
      <4>1. place[r] \in Loaded => L!Task(r) # L!Task(s)
        BY <1>1, <1>2, <2>2
      <4>2. L!Task(r) \in HostTasks /\ disk \in [HostTasks -> Checkpoints]
        BY <1>1 DEF SessionTypeOK, L!Sessions, L!Task
      <4> QED
        BY <1>2, <4>1, <4>2
    <3> QED
      BY <1>1, <3>1, <3>2 DEF LoadedInv
  <2> QED
    BY <2>1, <2>2
<1>6. ASSUME NEW h \in Hosts PROVE Counted(h)'
  <2>1. OpenOf(h)' = OpenOf(h)
    <3>1. \A r \in L!Sessions : place'[r] # "none" <=> place[r] # "none"
      BY <1>1 DEF SessionTypeOK
    <3> QED
      BY <3>1 DEF OpenOf, L!Sessions, L!Host
  <2> QED
    BY <1>1, <2>1 DEF Counted
<1> QED
  BY <1>3, <1>4, <1>5, <1>6 DEF SessionsInv

\* What an action needs that leaves its session where it is, or moves it.
LEMMA Moves ==
  ASSUME SessionsInv, NEW s \in L!Sessions, place[s] \in Loaded,
         NEW p \in Loaded, p \in Prompted => mem[s].log # <<>>,
         UNCHANGED <<disk, mem, op, runLease, refs, lost>>, place' = [place EXCEPT ![s] = p]
  PROVE  SessionsInv'
<1>1. /\ mem[s] \in Checkpoints /\ Sound(mem[s]) /\ op[s] \in Keys \cup {"none"}
      /\ mem = [mem EXCEPT ![s] = mem[s]] /\ op = [op EXCEPT ![s] = op[s]]
  BY DEF SessionsInv, SessionTypeOK, SoundInv
<1>2. PICK m \in Checkpoints : m = mem[s]
  BY <1>1
<1>3. PICK k \in Keys \cup {"none"} : k = op[s]
  BY <1>1
<1>4. mem' = [mem EXCEPT ![s] = m] /\ op' = [op EXCEPT ![s] = k] /\ Sound(m)
      /\ (disk' = disk /\ m.compactions = mem[s].compactions /\ mem[s].done \subseteq m.done)
      /\ (p \in Prompted => m.log # <<>>)
  BY <1>1, <1>2, <1>3
<1> QED
  BY <1>4, SessionMoves

\* A message is appended and saved, or the session ends: append.
LEMMA Says ==
  ASSUME SessionsInv, NEW s \in L!Sessions, place[s] \in Loaded, NEW x \in Messages,
         Fitting(mem[s].log, x), NEW p \in Loaded,
         L!Save(s, L!Appended(mem[s], x), p, "closing"),
         UNCHANGED <<op, runLease, refs, lost>>
  PROVE  SessionsInv'
<1>1. /\ mem[s] \in Checkpoints /\ Sound(mem[s]) /\ op[s] \in Keys \cup {"none"}
      /\ op = [op EXCEPT ![s] = op[s]] /\ "closing" \in Loaded
  BY DEF SessionsInv, SessionTypeOK, SoundInv, Loaded
<1>2. PICK old \in Checkpoints : old = mem[s]
  BY <1>1
<1>3. PICK m : m = L!Appended(old, x)
  OBVIOUS
<1>4. /\ m \in Checkpoints /\ Sound(m) /\ m.log # <<>> /\ m.compactions = mem[s].compactions
      /\ mem[s].done \subseteq m.done /\ mem' = [mem EXCEPT ![s] = m]
  BY <1>1, <1>2, <1>3, AppendedIsSound DEF L!Save
<1>5. PICK k \in Keys \cup {"none"} : k = op[s]
  BY <1>1
<1>6. op' = [op EXCEPT ![s] = k]
  BY <1>1, <1>5
<1>7. CASE disk' = [disk EXCEPT ![L!Task(s)] = m] /\ place' = [place EXCEPT ![s] = p]
  BY <1>4, <1>6, <1>7, SessionMoves
<1>8. CASE disk' = disk /\ place' = [place EXCEPT ![s] = "closing"]
  BY <1>1, <1>4, <1>6, <1>8, SessionMoves
<1> QED
  BY <1>2, <1>3, <1>7, <1>8 DEF L!Save, L!Go

\* The sessions of a process when one is opened or closed.
LEMMA OpensAndCloses ==
  ASSUME SessionTypeOK, NEW s \in L!Sessions, NEW p \in {"none", "acquired"} \cup Loaded,
         place' = [place EXCEPT ![s] = p], NEW h \in Hosts, IsFiniteSet(OpenOf(h))
  PROVE  /\ IsFiniteSet(OpenOf(h)')
         /\ h # L!Host(s) \/ (p # "none" <=> place[s] # "none") => OpenOf(h)' = OpenOf(h)
         /\ h = L!Host(s) /\ p # "none" /\ place[s] = "none" =>
              Cardinality(OpenOf(h)') = Cardinality(OpenOf(h)) + 1
         /\ h = L!Host(s) /\ p = "none" /\ place[s] # "none" =>
              Cardinality(OpenOf(h)') = Cardinality(OpenOf(h)) - 1
<1>1. ASSUME NEW r \in L!Sessions
      PROVE  place'[r] = IF r = s THEN p ELSE place[r]
  BY DEF SessionTypeOK
<1>2. CASE h # L!Host(s) \/ (p # "none" <=> place[s] # "none")
  <2>1. OpenOf(h)' = OpenOf(h)
    BY <1>1, <1>2 DEF OpenOf, L!Sessions, L!Host
  <2> QED
    BY <1>2, <2>1
<1>3. CASE h = L!Host(s) /\ p # "none" /\ place[s] = "none"
  <2>1. OpenOf(h)' = OpenOf(h) \cup {s} /\ s \notin OpenOf(h)
    BY <1>1, <1>3 DEF OpenOf, L!Sessions, L!Host
  <2> QED
    BY <1>3, <2>1, FS_AddElement
<1>4. CASE h = L!Host(s) /\ p = "none" /\ place[s] # "none"
  <2>1. OpenOf(h)' = OpenOf(h) \ {s} /\ s \in OpenOf(h)
    BY <1>1, <1>4 DEF OpenOf, L!Sessions, L!Host
  <2> QED
    BY <1>4, <2>1, FS_RemoveElement
<1> QED
  BY <1>2, <1>3, <1>4

\* A session is opened: acquire.
LEMMA AcquireKeeps ==
  ASSUME SessionsInv, NEW s \in L!Sessions, L!Acquire(s)
  PROVE  SessionsInv'
<1>1. /\ SessionTypeOK /\ SoundInv /\ LoadedInv /\ \A h \in Hosts : Counted(h)
      /\ place[s] = "none" /\ L!Host(s) \in Hosts /\ NoHost \notin Hosts
      /\ "acquired" \notin Loaded /\ "none" \notin Loaded /\ Prompted \subseteq Loaded
  BY NobodyIsNobody DEF SessionsInv, Loaded, Prompted, L!Acquire, L!Sessions, L!Host
<1>2. /\ runLease \in {NoHost, L!Host(s)} /\ runLease' = L!Host(s)
      /\ refs' = [refs EXCEPT ![L!Host(s)] = refs[L!Host(s)] + 1]
      /\ place' = [place EXCEPT ![s] = "acquired"] /\ UNCHANGED <<lost, disk, mem, op>>
  BY DEF L!Acquire, L!Go
<1>3. SessionTypeOK' /\ SoundInv'
  BY <1>1, <1>2 DEF SessionTypeOK, SoundInv, L!Sessions
<1>4. LoadedInv'
  BY <1>1, <1>2 DEF LoadedInv, SessionTypeOK, L!Sessions, L!Task, Loaded, Prompted
<1>5. ASSUME NEW h \in Hosts PROVE Counted(h)'
  <2>1. Counted(h) /\ refs[h] \in Nat /\ lost[h] \in Nat /\ lost' = lost
    BY <1>1, <1>2 DEF SessionTypeOK
  <2>2. /\ IsFiniteSet(OpenOf(h)')
        /\ h # L!Host(s) => OpenOf(h)' = OpenOf(h)
        /\ h = L!Host(s) => Cardinality(OpenOf(h)') = Cardinality(OpenOf(h)) + 1
    <3>1. PICK p \in {"none", "acquired"} \cup Loaded : p = "acquired" /\ p # "none"
      OBVIOUS
    <3>2. IsFiniteSet(OpenOf(h)) /\ place' = [place EXCEPT ![s] = p]
      BY <1>2, <2>1, <3>1 DEF Counted
    <3> QED
      BY <1>1, <3>1, <3>2, OpensAndCloses
  <2>3. Cardinality(OpenOf(h)) \in Nat
    BY <2>1, FS_CardinalityType DEF Counted
  <2>4. refs'[h] = IF h = L!Host(s) THEN refs[h] + 1 ELSE refs[h]
    BY <1>1, <1>2 DEF SessionTypeOK
  <2> QED
    BY <1>1, <1>2, <2>1, <2>2, <2>3, <2>4 DEF Counted
<1> QED
  BY <1>3, <1>4, <1>5 DEF SessionsInv

\* The counts when a session gives its lease back, or keeps it because the last save failed.
LEMMA GiveBackKeepsCount ==
  ASSUME SessionsInv, NEW s \in L!Sessions, place[s] # "none",
         place' = [place EXCEPT ![s] = "none"],
         \/ L!GiveBack(L!Host(s)) /\ UNCHANGED lost
         \/ lost' = [lost EXCEPT ![L!Host(s)] = @ + 1] /\ UNCHANGED <<runLease, refs>>
  PROVE  /\ \A h \in Hosts : Counted(h)'
         /\ runLease' \in Hosts \cup {NoHost} /\ refs' \in [Hosts -> Nat] /\ lost' \in [Hosts -> Nat]
<1>1. /\ SessionTypeOK /\ \A h \in Hosts : Counted(h)
      /\ L!Host(s) \in Hosts /\ runLease = L!Host(s) /\ refs[L!Host(s)] > 0
  BY OpenOne DEF SessionsInv
<1>2. ASSUME NEW h \in Hosts
      PROVE  /\ Counted(h) /\ refs[h] \in Nat /\ lost[h] \in Nat /\ Cardinality(OpenOf(h)) \in Nat
             /\ IsFiniteSet(OpenOf(h)')
             /\ h # L!Host(s) => OpenOf(h)' = OpenOf(h)
             /\ h = L!Host(s) => Cardinality(OpenOf(h)') = Cardinality(OpenOf(h)) - 1
  <2>1. Counted(h) /\ refs[h] \in Nat /\ lost[h] \in Nat
    BY <1>1 DEF SessionTypeOK
  <2>2. Cardinality(OpenOf(h)) \in Nat
    BY <2>1, FS_CardinalityType DEF Counted
  <2> QED
    BY <1>1, <2>1, <2>2, OpensAndCloses DEF Counted
<1>3. CASE L!GiveBack(L!Host(s)) /\ UNCHANGED lost
  <2>1. /\ refs' = [refs EXCEPT ![L!Host(s)] = refs[L!Host(s)] - 1] /\ lost' = lost
        /\ runLease' = IF refs[L!Host(s)] = 1 THEN NoHost ELSE runLease
    BY <1>3 DEF L!GiveBack
  <2>2. ASSUME NEW h \in Hosts PROVE Counted(h)'
    <3>1. refs'[h] = IF h = L!Host(s) THEN refs[h] - 1 ELSE refs[h]
      BY <1>1, <2>1 DEF SessionTypeOK
    <3> QED
      BY <1>1, <1>2, <2>1, <3>1, NobodyIsNobody DEF Counted
  <2> QED
    BY <1>1, <2>1, <2>2 DEF SessionTypeOK
<1>4. CASE lost' = [lost EXCEPT ![L!Host(s)] = @ + 1] /\ UNCHANGED <<runLease, refs>>
  <2>1. ASSUME NEW h \in Hosts PROVE Counted(h)'
    <3>1. lost'[h] = IF h = L!Host(s) THEN lost[h] + 1 ELSE lost[h]
      BY <1>1, <1>4 DEF SessionTypeOK
    <3> QED
      BY <1>1, <1>2, <1>4, <3>1 DEF Counted
  <2> QED
    BY <1>1, <1>4, <2>1 DEF SessionTypeOK
<1> QED
  BY <1>3, <1>4

\* A session loads the checkpoint of its task, or ends: load.
LEMMA LoadKeeps ==
  ASSUME SessionsInv, NEW s \in L!Sessions, L!Load(s)
  PROVE  SessionsInv'
<1>1. /\ SessionTypeOK /\ SoundInv /\ LoadedInv /\ \A h \in Hosts : Counted(h)
      /\ place[s] = "acquired" /\ L!Task(s) \in HostTasks
      /\ "acquired" \notin Loaded /\ "none" \notin Loaded /\ Prompted \subseteq Loaded
      /\ "prompting" \in Loaded \ Prompted
      /\ UNCHANGED <<lost, disk, op>>
  BY DEF SessionsInv, Loaded, Prompted, L!Load, L!Sessions, L!Task
<1>2. CASE mem' = [mem EXCEPT ![s] = disk[L!Task(s)]] /\ L!Go(s, "prompting") /\ UNCHANGED <<runLease, refs>>
  <2>1. place' = [place EXCEPT ![s] = "prompting"]
    BY <1>2 DEF L!Go
  <2>2. SessionTypeOK' /\ SoundInv'
    BY <1>1, <1>2, <2>1 DEF SessionTypeOK, SoundInv, L!Sessions
  <2>3. LoadedInv'
    BY <1>1, <1>2, <2>1 DEF LoadedInv, SessionTypeOK, L!Sessions, L!Task, Loaded, Prompted
  <2>4. ASSUME NEW h \in Hosts PROVE Counted(h)'
    <3>1. Counted(h)
      BY <1>1
    <3>2. OpenOf(h)' = OpenOf(h)
      BY <1>1, <2>1, <3>1, OpensAndCloses DEF Counted
    <3> QED
      BY <1>1, <1>2, <3>1, <3>2 DEF Counted
  <2> QED
    BY <2>2, <2>3, <2>4 DEF SessionsInv
<1>3. CASE L!GiveBack(L!Host(s)) /\ L!Go(s, "none") /\ UNCHANGED mem
  <2>1. place' = [place EXCEPT ![s] = "none"]
    BY <1>3 DEF L!Go
  <2>2. /\ \A h \in Hosts : Counted(h)'
        /\ runLease' \in Hosts \cup {NoHost} /\ refs' \in [Hosts -> Nat] /\ lost' \in [Hosts -> Nat]
    BY <1>1, <1>3, <2>1, GiveBackKeepsCount
  <2>3. SessionTypeOK' /\ SoundInv'
    BY <1>1, <1>3, <2>1, <2>2 DEF SessionTypeOK, SoundInv, L!Sessions
  <2>4. LoadedInv'
    BY <1>1, <1>3, <2>1 DEF LoadedInv, SessionTypeOK, L!Sessions, L!Task, Loaded, Prompted
  <2> QED
    BY <2>2, <2>3, <2>4 DEF SessionsInv
<1> QED
  BY <1>2, <1>3 DEF L!Load

\* Nothing has been said.
LEMMA EmptyIsSound == L!Empty \in Checkpoints /\ Sound(L!Empty)
BY DEF L!Empty, L!Checkpoint, Checkpoints, Sound, Paired

\* A session is closed, with its last save or without: close.
LEMMA CloseKeeps ==
  ASSUME SessionsInv, NEW s \in L!Sessions, L!Close(s)
  PROVE  SessionsInv'
<1>1. /\ SessionTypeOK /\ SoundInv /\ LoadedInv /\ \A h \in Hosts : Counted(h)
      /\ place[s] = "closing" /\ op[s] = "none" /\ UNCHANGED op
      /\ "none" \notin Loaded /\ Prompted \subseteq Loaded /\ "closing" \in Loaded
      /\ place' = [place EXCEPT ![s] = "none"] /\ mem' = [mem EXCEPT ![s] = L!Empty]
      /\ \/ disk' = [disk EXCEPT ![L!Task(s)] = mem[s]]
         \/ disk' = disk
  BY DEF SessionsInv, Loaded, Prompted, L!Close, L!Gone, L!Go, L!Idle
<1>2. /\ L!Task(s) \in HostTasks
      /\ \A r \in L!Sessions : place[r] # "none" /\ L!Task(r) = L!Task(s) => r = s
  BY <1>1, OpenOne
<1>3. /\ \A h \in Hosts : Counted(h)'
      /\ runLease' \in Hosts \cup {NoHost} /\ refs' \in [Hosts -> Nat] /\ lost' \in [Hosts -> Nat]
  BY <1>1, GiveBackKeepsCount DEF L!Close
<1>4. disk' \in [HostTasks -> Checkpoints] /\ \A t \in HostTasks : Sound(disk'[t])
  BY <1>1, <1>2 DEF SessionTypeOK, SoundInv
<1>5. SessionTypeOK' /\ SoundInv'
  BY <1>1, <1>3, <1>4, EmptyIsSound DEF SessionTypeOK, SoundInv, L!Sessions
<1>6. LoadedInv'
  <2> SUFFICES ASSUME NEW r \in L!Sessions
               PROVE  /\ place'[r] \in Loaded => /\ mem'[r].compactions = disk'[L!Task(r)].compactions
                                                 /\ disk'[L!Task(r)].done \subseteq mem'[r].done
                      /\ place'[r] \in Prompted => mem'[r].log # <<>>
                      /\ op'[r] # "none" => place'[r] \in Loaded
    BY DEF LoadedInv, L!Sessions, L!Task, Loaded, Prompted
  <2>1. CASE r = s
    BY <1>1, <2>1 DEF SessionTypeOK
  <2>2. CASE r # s
    <3>1. mem'[r] = mem[r] /\ place'[r] = place[r] /\ op'[r] = op[r]
      BY <1>1, <2>2 DEF SessionTypeOK
    <3>2. place[r] \in Loaded => disk'[L!Task(r)] = disk[L!Task(r)]
      <4>1. place[r] \in Loaded => L!Task(r) # L!Task(s)
        BY <1>1, <1>2, <2>2
      <4>2. L!Task(r) \in HostTasks /\ disk \in [HostTasks -> Checkpoints]
        BY <1>1 DEF SessionTypeOK, L!Sessions, L!Task
      <4> QED
        BY <1>1, <1>2, <4>1, <4>2
    <3> QED
      BY <1>1, <3>1, <3>2 DEF LoadedInv
  <2> QED
    BY <2>1, <2>2
<1> QED
  BY <1>3, <1>5, <1>6 DEF SessionsInv

\* A process dies with its sessions.
LEMMA DieKeeps ==
  ASSUME SessionsInv, NEW d \in Hosts, L!Die(d)
  PROVE  SessionsInv'
<1>1. /\ SessionTypeOK /\ SoundInv /\ LoadedInv /\ \A h \in Hosts : Counted(h)
      /\ "none" \notin Loaded /\ Prompted \subseteq Loaded /\ runLease = d
      /\ NoHost \notin Hosts
  BY NobodyIsNobody DEF SessionsInv, Loaded, Prompted, L!Die
<1>2. /\ runLease' = NoHost /\ refs' = [refs EXCEPT ![d] = 0] /\ lost' = [lost EXCEPT ![d] = 0]
      /\ disk' = disk
      /\ mem' = [s \in L!Sessions |-> IF L!Host(s) = d THEN L!Empty ELSE mem[s]]
      /\ place' = [s \in L!Sessions |-> IF L!Host(s) = d THEN "none" ELSE place[s]]
      /\ op' = [s \in L!Sessions |-> IF L!Host(s) = d THEN "none" ELSE op[s]]
  BY DEF L!Die
<1>3. SessionTypeOK' /\ SoundInv'
  BY <1>1, <1>2, EmptyIsSound DEF SessionTypeOK, SoundInv, L!Sessions
<1>4. LoadedInv'
  <2> SUFFICES ASSUME NEW r \in L!Sessions
               PROVE  /\ place'[r] \in Loaded => /\ mem'[r].compactions = disk'[L!Task(r)].compactions
                                                 /\ disk'[L!Task(r)].done \subseteq mem'[r].done
                      /\ place'[r] \in Prompted => mem'[r].log # <<>>
                      /\ op'[r] # "none" => place'[r] \in Loaded
    BY DEF LoadedInv, L!Sessions, L!Task, Loaded, Prompted
  <2>1. CASE L!Host(r) = d
    BY <1>1, <1>2, <2>1
  <2>2. CASE L!Host(r) # d
    BY <1>1, <1>2, <2>2 DEF LoadedInv
  <2> QED
    BY <2>1, <2>2
<1>5. ASSUME NEW h \in Hosts PROVE Counted(h)'
  <2>1. CASE h = d
    <3>1. OpenOf(h)' = {}
      BY <1>2, <2>1 DEF OpenOf, L!Sessions, L!Host
    <3>2. refs'[h] = 0 /\ lost'[h] = 0
      BY <1>1, <1>2, <2>1 DEF SessionTypeOK
    <3> QED
      BY <1>1, <1>2, <3>1, <3>2, FS_EmptySet DEF Counted
  <2>2. CASE h # d
    <3>1. OpenOf(h)' = OpenOf(h)
      BY <1>2, <2>2 DEF OpenOf, L!Sessions, L!Host
    <3>2. refs'[h] = refs[h] /\ lost'[h] = lost[h]
      BY <1>1, <1>2, <2>2 DEF SessionTypeOK
    <3> QED
      BY <1>1, <1>2, <2>2, <3>1, <3>2 DEF Counted
  <2> QED
    BY <2>1, <2>2
<1> QED
  BY <1>3, <1>4, <1>5 DEF SessionsInv

\* Every step of the sessions keeps their invariant, and starts no effect that is done.
LEMMA SessionsStep ==
  ASSUME SessionsInv, [L!Next]_(L!vars)
  PROVE  SessionsInv' /\ L!StartsWhatIsNotDone
<1>1. /\ SessionTypeOK /\ SoundInv /\ LoadedInv
      /\ Prompted \subseteq Loaded /\ "closing" \in Loaded \ Prompted
      /\ {"preparing", "compacting", "ready", "running", "answered"} \subseteq Prompted
  BY DEF SessionsInv, Loaded, Prompted
<1>2. ASSUME NEW s \in L!Sessions
      PROVE  /\ mem[s] \in Checkpoints /\ Sound(mem[s]) /\ mem[s].log \in Seq(Messages)
             /\ mem = [mem EXCEPT ![s] = mem[s]] /\ op[s] \in Keys \cup {"none"}
             /\ place = [place EXCEPT ![s] = place[s]] /\ op = [op EXCEPT ![s] = op[s]]
  BY <1>1 DEF SessionTypeOK, SoundInv, Checkpoints
<1>3. CASE UNCHANGED L!vars
  <2>1. SessionsInv'
    BY <1>3 DEF L!vars, SessionsInv, SessionTypeOK, SoundInv, LoadedInv, Counted, OpenOf,
                L!Sessions, L!Host, L!Task
  <2> QED
    BY <1>3, <2>1 DEF L!vars, L!StartsWhatIsNotDone
<1>4. ASSUME op' = op \/ \E s \in L!Sessions : op' = [op EXCEPT ![s] = "none"]
      PROVE  L!StartsWhatIsNotDone
  BY <1>1, <1>4 DEF SessionTypeOK, L!StartsWhatIsNotDone
<1>5. ASSUME NEW s \in L!Sessions, L!Acquire(s) PROVE SessionsInv' /\ op' = op
  BY <1>5, AcquireKeeps DEF L!Acquire
<1>6. ASSUME NEW s \in L!Sessions, L!Load(s) PROVE SessionsInv' /\ op' = op
  BY <1>6, LoadKeeps DEF L!Load
<1>7. ASSUME NEW s \in L!Sessions, L!Prompt(s) PROVE SessionsInv' /\ op' = op
  <2>1. PICK x \in Messages : x = L!Message("user", 0)
    BY DEF Messages, L!Message
  <2>2. Fitting(mem[s].log, x)
    BY <2>1 DEF Fitting, L!Message
  <2>3. PICK p \in Loaded : p = "preparing"
    BY <1>1
  <2>4. /\ L!Save(s, L!Appended(mem[s], x), p, "closing") /\ place[s] \in Loaded
        /\ UNCHANGED <<op, runLease, refs, lost>>
    BY <1>7, <2>1, <2>3 DEF L!Prompt, L!Held, Loaded
  <2> QED
    BY <2>2, <2>4, Says
<1>8. ASSUME NEW s \in L!Sessions, L!Prepare(s) PROVE SessionsInv' /\ op' = op
  <2>1. PICK m \in Checkpoints : m = mem[s] /\ Sound(m)
    BY <1>2
  <2>2. PICK k \in Keys \cup {"none"} : k = op[s] /\ op = [op EXCEPT ![s] = k]
    BY <1>2
  <2>3. PICK p \in Prompted : p = IF L!Fits(mem[s]) THEN "ready" ELSE "compacting"
    BY <1>1
  <2>4. /\ L!Save(s, m, p, "closing") /\ place[s] \in Prompted
        /\ UNCHANGED <<op, runLease, refs, lost>>
    BY <1>1, <1>8, <2>1, <2>3 DEF L!Prepare, L!Held
  <2>5. m.log # <<>> /\ p \in Loaded /\ place[s] \in Loaded /\ op' = [op EXCEPT ![s] = k]
        /\ mem' = [mem EXCEPT ![s] = m]
    BY <1>1, <2>1, <2>2, <2>4 DEF LoadedInv, L!Save
  <2>6. CASE disk' = [disk EXCEPT ![L!Task(s)] = m] /\ place' = [place EXCEPT ![s] = p]
    BY <2>1, <2>4, <2>5, <2>6, SessionMoves
  <2>7. CASE disk' = disk /\ place' = [place EXCEPT ![s] = "closing"]
    BY <1>1, <2>1, <2>4, <2>5, <2>7, SessionMoves
  <2> QED
    BY <2>4, <2>6, <2>7 DEF L!Save, L!Go
<1>9. ASSUME NEW s \in L!Sessions, L!Compact(s) PROVE SessionsInv' /\ op' = op
  <2>1. PICK k \in Keys \cup {"none"} : k = op[s] /\ op = [op EXCEPT ![s] = k]
    BY <1>2
  <2>2. /\ place[s] \in Prompted /\ place[s] \in Loaded /\ UNCHANGED <<op, runLease, refs, lost>>
        /\ op' = [op EXCEPT ![s] = k] /\ mem[s].log # <<>>
    BY <1>1, <1>9, <2>1 DEF L!Compact, L!Held, LoadedInv
  <2>3. CASE /\ L!Boundary(mem[s].log) > 0 /\ L!Fits(L!Compacted(mem[s]))
             /\ mem' = [mem EXCEPT ![s] = L!Compacted(mem[s])]
             /\ disk' = [disk EXCEPT ![L!Task(s)] = L!Compacted(mem[s])]
             /\ L!Go(s, "ready") \/ L!Go(s, "closing")
    <3>1. PICK old \in Checkpoints : old = mem[s]
      BY <1>2
    <3>2. PICK m : m = L!Compacted(old)
      OBVIOUS
    <3>3. m \in Checkpoints /\ Sound(m) /\ m.log # <<>>
      BY <1>2, <2>2, <2>3, <3>1, <3>2, CompactedIsSound
    <3>4. mem' = [mem EXCEPT ![s] = m] /\ disk' = [disk EXCEPT ![L!Task(s)] = m]
      BY <2>3, <3>1, <3>2
    <3>5. PICK p \in Loaded : place' = [place EXCEPT ![s] = p]
      BY <1>1, <2>3 DEF L!Go
    <3> QED
      BY <2>2, <3>3, <3>4, <3>5, SessionMoves
  <2>4. CASE /\ mem' = [mem EXCEPT ![s] = L!Restore(mem[s])]
             /\ L!Go(s, "closing") /\ UNCHANGED disk
    <3>1. UNCHANGED <<disk, mem, op, runLease, refs, lost>> /\ place' = [place EXCEPT ![s] = "closing"]
      BY <1>2, <2>2, <2>4 DEF L!Restore, L!Go
    <3> QED
      BY <1>1, <2>2, <3>1, Moves
  <2> QED
    BY <1>9, <2>2, <2>3, <2>4 DEF L!Compact
<1>10. ASSUME NEW s \in L!Sessions, NEW p \in {"ready", "running", "answered", "closing"},
              place[s] \in Prompted, place' = [place EXCEPT ![s] = p],
              UNCHANGED <<disk, mem, op, runLease, refs, lost>>
       PROVE  SessionsInv' /\ op' = op
  <2>1. p \in Loaded /\ place[s] \in Loaded /\ mem[s].log # <<>>
    BY <1>1, <1>10 DEF LoadedInv
  <2> QED
    BY <1>10, <2>1, Moves
<1>11. ASSUME NEW s \in L!Sessions,
              L!Start(s) \/ L!ChargeCompaction(s) \/ L!OpenNextWindow(s) \/ L!Decode(s) \/ L!Stop(s)
       PROVE  SessionsInv' /\ op' = op
  <2>1. place[s] \in Prompted /\ UNCHANGED <<disk, mem, op, runLease, refs, lost>>
    BY <1>1, <1>11 DEF L!Start, L!ChargeCompaction, L!OpenNextWindow, L!Decode, L!Stop, L!Held
  <2>2. \E p \in {"ready", "running", "answered", "closing"} : place' = [place EXCEPT ![s] = p]
    BY <1>2, <1>11 DEF L!Start, L!ChargeCompaction, L!OpenNextWindow, L!Decode, L!Stop, L!Go
  <2> QED
    BY <1>10, <2>1, <2>2
<1>12. ASSUME NEW s \in L!Sessions, L!AppendStep(s) PROVE SessionsInv' /\ op' = op
  <2>1. /\ mem[s].log \in Seq(Messages) /\ mem[s].log # <<>> /\ place[s] \in Loaded
        /\ L!Calls(mem[s].log) \in Nat
    <3>1. place[s] = "running" /\ mem[s].log \in Seq(Messages)
      BY <1>2, <1>12 DEF L!AppendStep
    <3>2. L!Calls(mem[s].log) \in Nat
      <4>1. PICK x \in Messages : x = L!Message("user", 0)
        BY DEF Messages, L!Message
      <4> QED
        BY <3>1, CallsGrow
    <3> QED
      BY <1>1, <3>1, <3>2 DEF LoadedInv
  <2>2. PICK x \in Messages : x = IF L!Pending(mem[s].log) THEN L!Message("tool", L!Calls(mem[s].log))
                                  ELSE L!Message("assistant", L!Calls(mem[s].log) + 1)
    <3>1. PICK n \in Nat : n = L!Calls(mem[s].log)
      BY <2>1
    <3>2. L!Message("tool", n) \in Messages /\ L!Message("assistant", n + 1) \in Messages
      BY DEF Messages, L!Message
    <3> QED
      BY <3>1, <3>2
  <2>3. Fitting(mem[s].log, x)
    BY <2>1, <2>2 DEF Fitting, L!Message
  <2>4. PICK p \in Loaded : p = "running"
    BY <1>1
  <2>5. L!Save(s, L!Appended(mem[s], x), p, "closing") /\ UNCHANGED <<op, runLease, refs, lost>>
    BY <1>12, <2>2, <2>4 DEF L!AppendStep, L!Held
  <2> QED
    BY <2>1, <2>3, <2>5, Says
<1>13. ASSUME NEW s \in L!Sessions, L!Answer(s) PROVE SessionsInv' /\ op' = op
  <2>1. PICK x \in Messages : x = L!Message("assistant", 0)
    BY DEF Messages, L!Message
  <2>2. Fitting(mem[s].log, x)
    BY <2>1 DEF Fitting, L!Message
  <2>3. PICK p \in Loaded : p = IF L!Affordable(spent[s]) THEN "answered" ELSE "closing"
    BY <1>1
  <2>4. /\ L!Save(s, L!Appended(mem[s], x), p, "closing") /\ place[s] \in Loaded
        /\ UNCHANGED <<op, runLease, refs, lost>>
    BY <1>1, <1>13, <2>1, <2>3 DEF L!Answer, L!Held
  <2> QED
    BY <2>2, <2>4, Says
<1>14. ASSUME NEW s \in L!Sessions, L!Correct(s) PROVE SessionsInv' /\ op' = op
  <2>1. PICK x \in Messages : x = L!Message("user", 0)
    BY DEF Messages, L!Message
  <2>2. Fitting(mem[s].log, x)
    BY <2>1 DEF Fitting, L!Message
  <2>3. PICK p \in Loaded : p = "running"
    BY <1>1
  <2>4. /\ L!Save(s, L!Appended(mem[s], x), p, "closing") /\ place[s] \in Loaded
        /\ UNCHANGED <<op, runLease, refs, lost>>
    BY <1>1, <1>14, <2>1, <2>3 DEF L!Correct, L!Held
  <2> QED
    BY <2>2, <2>4, Says
<1>15. ASSUME NEW s \in L!Sessions, L!EndTool(s)
       PROVE  SessionsInv' /\ op' = [op EXCEPT ![s] = "none"]
  <2>1. /\ op[s] \in Keys /\ place[s] \in Loaded /\ UNCHANGED <<runLease, refs, lost>>
        /\ op' = [op EXCEPT ![s] = "none"] /\ (place[s] \in Prompted => mem[s].log # <<>>)
    BY <1>1, <1>2, <1>15 DEF L!EndTool, L!Idle, L!Held, LoadedInv
  <2>2. PICK p \in Loaded : p = place[s] /\ place = [place EXCEPT ![s] = p]
    BY <1>2, <2>1
  <2>3. PICK old \in Checkpoints : old = mem[s] /\ Sound(old) /\ mem = [mem EXCEPT ![s] = old]
    BY <1>2
  <2>4. PICK k \in Keys \cup {"none"} : k = "none"
    OBVIOUS
  <2>5. CASE L!Save(s, [mem[s] EXCEPT !.done = @ \cup {op[s]}], place[s], place[s])
    <3>1. PICK m : m = [old EXCEPT !.done = old.done \cup {op[s]}]
      OBVIOUS
    <3>2. /\ m \in Checkpoints /\ m.log = old.log /\ m.compactions = old.compactions
          /\ m.done = old.done \cup {op[s]}
      BY <2>1, <3>1 DEF Checkpoints
    <3>3. Sound(m) /\ (p \in Prompted => m.log # <<>>)
      BY <2>1, <2>2, <2>3, <3>2 DEF Sound
    <3>4. /\ mem' = [mem EXCEPT ![s] = m] /\ place' = [place EXCEPT ![s] = p]
          /\ op' = [op EXCEPT ![s] = k]
          /\ \/ disk' = [disk EXCEPT ![L!Task(s)] = m]
             \/ disk' = disk
      BY <2>1, <2>2, <2>3, <2>4, <2>5, <3>1 DEF L!Save, L!Go
    <3>5. m.compactions = mem[s].compactions /\ mem[s].done \subseteq m.done
      BY <2>3, <3>2
    <3> QED
      BY <2>1, <3>2, <3>3, <3>4, <3>5, SessionMoves
  <2>6. CASE UNCHANGED <<disk, mem, place>>
    BY <2>1, <2>2, <2>3, <2>4, <2>6, SessionMoves
  <2> QED
    BY <1>15, <2>1, <2>5, <2>6 DEF L!EndTool
<1>16. ASSUME NEW s \in L!Sessions, L!Close(s) PROVE SessionsInv' /\ op' = op
  BY <1>16, CloseKeeps DEF L!Close
<1>17. ASSUME NEW s \in L!Sessions, NEW key \in Keys, L!BeginTool(s, key)
       PROVE  SessionsInv' /\ L!StartsWhatIsNotDone
  <2>1. /\ place[s] = "running" /\ key \notin mem[s].done /\ op' = [op EXCEPT ![s] = key]
        /\ UNCHANGED <<runLease, refs, lost, disk, mem, place>>
    BY <1>17 DEF L!BeginTool, L!Held
  <2>2. place[s] \in Loaded /\ mem[s].log # <<>> /\ disk[L!Task(s)].done \subseteq mem[s].done
    BY <1>1, <2>1 DEF LoadedInv
  <2>3. PICK p \in Loaded : p = "running" /\ place = [place EXCEPT ![s] = p]
    BY <1>1, <1>2, <2>1
  <2>4. PICK m \in Checkpoints : m = mem[s] /\ Sound(m) /\ mem = [mem EXCEPT ![s] = m]
    BY <1>2
  <2>5. PICK k \in Keys \cup {"none"} : k = key
    OBVIOUS
  <2>6. SessionsInv'
    BY <2>1, <2>2, <2>3, <2>4, <2>5, SessionMoves
  <2>7. L!StartsWhatIsNotDone
    BY <1>1, <2>1, <2>2 DEF SessionTypeOK, L!StartsWhatIsNotDone
  <2> QED
    BY <2>6, <2>7
<1>18. ASSUME NEW h \in Hosts, L!Die(h)
       PROVE  SessionsInv' /\ L!StartsWhatIsNotDone
  <2>1. L!StartsWhatIsNotDone
    BY <1>18 DEF L!Die, L!StartsWhatIsNotDone
  <2> QED
    BY <1>18, <2>1, DieKeeps
<1> QED
  BY <1>3, <1>4, <1>5, <1>6, <1>7, <1>8, <1>9, <1>11, <1>12, <1>13, <1>14, <1>15, <1>16, <1>17, <1>18
     DEF L!Next

\* What the invariant says about compactions, pairs and the lease.
LEMMA SessionsSafe ==
  ASSUME SessionsInv
  PROVE  L!ArtifactsAreDurable /\ L!PairsStayTogether /\ L!LeaseIsCounted
<1>1. L!ArtifactsAreDurable
  BY DEF SessionsInv, SessionTypeOK, LoadedInv, L!ArtifactsAreDurable
<1>2. L!PairsStayTogether
  <2> SUFFICES ASSUME NEW s \in L!Sessions, NEW j \in L!Projected(mem[s]), mem[s].log[j].role = "tool"
               PROVE  \E i \in L!Projected(mem[s]) : /\ i < j /\ mem[s].log[i].role = "assistant"
                                                     /\ mem[s].log[i].call = mem[s].log[j].call
    BY DEF L!PairsStayTogether
  <2>1. PICK m \in Checkpoints : m = mem[s] /\ Sound(m)
    BY DEF SessionsInv, SessionTypeOK, SoundInv
  <2> QED
    BY <2>1, SoundSendsPairs
<1>3. L!LeaseIsCounted
  BY DEF SessionsInv, Counted, OpenOf, L!LeaseIsCounted, L!Cardinality, Cardinality
<1> QED
  BY <1>1, <1>2, <1>3

\* Nobody has a session and nothing has been said.
LEMMA SessionsStart == L!Init => SessionsInv
<1> SUFFICES ASSUME L!Init PROVE SessionsInv
  OBVIOUS
<1>1. SessionTypeOK /\ SoundInv /\ LoadedInv
  BY EmptyIsSound DEF L!Init, SessionTypeOK, SoundInv, LoadedInv, Loaded, Prompted
<1>2. ASSUME NEW h \in Hosts PROVE Counted(h)
  <2>1. OpenOf(h) = {}
    BY DEF L!Init, OpenOf
  <2>2. refs[h] = 0 /\ lost[h] = 0 /\ runLease # h
    BY NobodyIsNobody DEF L!Init
  <2> QED
    BY <2>1, <2>2, FS_EmptySet DEF Counted
<1> QED
  BY <1>1, <1>2 DEF SessionsInv

---------------------------------------------------------------------------
(* The tools on the files *)

Snapshots == [ino : Nat, text : Nat]
Patches == [before : Snapshots, after : Snapshots]
Writing == {"owned", "prepared", "opened", "writing", "truncated", "written", "verified", "failing", "restoring"}
Undoing == {"undoing", "undo", "undone"}

ToolTypeOK == /\ inodes \in 1..MaxInodes /\ file \in 0..inodes
              /\ bytes \in [1..MaxInodes -> Nat] /\ texts \in Nat /\ edits \in Nat
              /\ permitted \in BOOLEAN /\ lease \in Agents \cup {NoAgent}
              /\ at \in [Agents -> {"off", "idle"} \cup Writing \cup Undoing]
              /\ accepted \in [Agents -> Snapshots] /\ tested \in [Agents -> Snapshots]
              /\ before \in [Agents -> Snapshots] /\ after \in [Agents -> Snapshots]
              /\ handle \in [Agents -> Nat] /\ text \in [Agents -> Nat]
              /\ patches \in [Agents -> Seq(Patches)] /\ touched \in [Agents -> BOOLEAN]

\* An edit is of the file that was there before, or there was none.
SameOrNew(old, new) == T!IsMissing(old) \/ new.ino = old.ino

\* What an agent writes to is what it has looked at.
Seen(a) == /\ at[a] \in {"writing", "truncated", "written"} =>
                T!IsMissing(before[a]) \/ handle[a] = before[a].ino
           /\ at[a] \in {"verified", "restoring", "undo"} => SameOrNew(before[a], after[a])
           /\ \A n \in DOMAIN patches[a] : SameOrNew(patches[a][n].before, patches[a][n].after)
           /\ at[a] = "undoing" => patches[a] # <<>>

\* What is there, as long as nobody else touches the file.
Quietly(a) ==
  /\ at[a] = "idle" => /\ accepted[a] # T!None => T!Current = accepted[a]
                       /\ tested[a] # T!None => T!Current = tested[a]
  /\ at[a] \in Writing => /\ accepted[a] # T!None
                          /\ tested[a] # T!None => tested[a] = accepted[a]
  /\ at[a] \in {"owned", "prepared"} => T!Current = accepted[a]
  /\ at[a] \in Writing \ {"owned"} => /\ before[a] = accepted[a]
                                      /\ T!IsMissing(before[a]) => before[a] = T!Missing
  /\ at[a] \in Writing \ {"owned", "prepared"} => T!IsMissing(before[a]) \/ file = before[a].ino
  /\ at[a] = "opened" => T!IsMissing(before[a]) \/ T!Current = before[a]
  /\ at[a] = "verified" => T!Current = after[a]
  /\ at[a] = "restoring" => T!SameFile(T!Current, after[a])

AgentOK(a) == /\ at[a] # "off" => lease = a
              /\ at[a] = "off" => accepted[a] = T!None /\ tested[a] = T!None
              /\ Seen(a)
              /\ at[a] # "off" /\ ~touched[a] => Quietly(a)

ToolsInv == ToolTypeOK /\ \A a \in Agents : AgentOK(a)

\* An agent that is at work is alone: what it keeps, all keep.
LEMMA Alone ==
  ASSUME ToolsInv, NEW a \in Agents, at[a] # "off", ToolTypeOK', AgentOK(a)',
         \A b \in Agents \ {a} : /\ at'[b] = at[b] /\ accepted'[b] = accepted[b]
                                 /\ tested'[b] = tested[b] /\ patches'[b] = patches[b]
  PROVE  ToolsInv'
<1>1. ASSUME NEW b \in Agents, b # a PROVE AgentOK(b)'
  <2>1. at[b] = "off" /\ accepted[b] = T!None /\ tested[b] = T!None /\ Seen(b)
    BY <1>1 DEF ToolsInv, AgentOK
  <2>2. at'[b] = "off" /\ accepted'[b] = T!None /\ tested'[b] = T!None /\ patches'[b] = patches[b]
    BY <1>1, <2>1
  <2>3. Seen(b)'
    BY <2>1, <2>2 DEF Seen
  <2> QED
    BY <2>2, <2>3 DEF AgentOK, T!None, T!Snapshot
<1> QED
  BY <1>1 DEF ToolsInv

LEMMA CurrentIs ==
  ASSUME ToolTypeOK
  PROVE  /\ T!Current \in Snapshots /\ T!Current.ino = file /\ T!Current # T!None
         /\ T!Missing \in Snapshots /\ T!None \in Snapshots
         /\ (file = 0 => T!Current = T!Missing)
<1>1. T!Missing = [ino |-> 0, text |-> 0] /\ T!None = [ino |-> 0, text |-> 1000]
  BY DEF T!Missing, T!None, T!Snapshot
<1>2. CASE file = 0
  BY <1>1, <1>2 DEF T!Current, Snapshots
<1>3. CASE file # 0
  <2>1. file \in 1..MaxInodes /\ file \in Nat /\ bytes[file] \in Nat
    BY <1>3, BoundsAreNumbers DEF ToolTypeOK
  <2>2. T!Current = [ino |-> file, text |-> bytes[file]]
    BY <1>3 DEF T!Current, T!Snapshot
  <2> QED
    BY <1>1, <1>3, <2>1, <2>2 DEF Snapshots
<1> QED
  BY <1>2, <1>3

\* One more patch.
LEMMA LongerPatches ==
  ASSUME NEW old \in Seq(Patches), NEW patch \in Patches
  PROVE  LET new == Append(old, patch)
         IN /\ new \in Seq(Patches)
            /\ DOMAIN new = 1..(Len(old) + 1) /\ DOMAIN old = 1..Len(old) /\ Len(old) \in Nat
            /\ new[Len(old) + 1] = patch /\ \A n \in 1..Len(old) : new[n] = old[n]
OBVIOUS

\* Every step on the file keeps the invariant, and writes to what was looked at.
LEMMA ToolsStep ==
  ASSUME ToolsInv, [T!Next]_(T!vars)
  PROVE  ToolsInv' /\ T!WritesWhatWasSeen
<1>1. ToolTypeOK /\ (\A a \in Agents : AgentOK(a)) /\ NoAgent \notin Agents
      /\ {"idle"} \cup Writing \cup Undoing \subseteq {"off", "idle"} \cup Writing \cup Undoing
  BY NobodyIsNobody DEF ToolsInv
<1>c. /\ T!Current \in Snapshots /\ T!Current.ino = file /\ T!Current # T!None
      /\ T!Missing \in Snapshots /\ T!None \in Snapshots
      /\ (file = 0 => T!Current = T!Missing)
  BY <1>1, CurrentIs
<1>2. CASE UNCHANGED T!vars
  <2>1. ToolsInv'
    BY <1>1, <1>2 DEF T!vars, ToolsInv, ToolTypeOK, AgentOK, Seen, Quietly, T!Current, SameOrNew
  <2> QED
    BY <1>2, <2>1 DEF T!vars, T!WritesWhatWasSeen
<1>3. ASSUME NEW a \in Agents, T!Enter(a) PROVE ToolsInv' /\ T!WritesWhatWasSeen
  <2>1. /\ at[a] = "off" /\ lease = NoAgent /\ lease' = a /\ at' = [at EXCEPT ![a] = "idle"]
        /\ UNCHANGED <<file, bytes, inodes, calls, accepted, patches, tested, touched,
                       before, after, handle, text, texts, edits, permitted>>
    BY <1>3 DEF T!Enter, T!Go, T!SameDisk, T!SameSession, T!SameEdit
  <2>2. ToolTypeOK'
    BY <1>1, <2>1 DEF ToolTypeOK
  <2>3. ASSUME NEW b \in Agents PROVE AgentOK(b)'
    <3>1. at[b] = "off" /\ accepted[b] = T!None /\ tested[b] = T!None /\ Seen(b)
      BY <1>1, <2>1 DEF AgentOK
    <3>2. Seen(b)'
      BY <1>1, <2>1, <3>1 DEF Seen, ToolTypeOK
    <3> QED
      BY <1>1, <2>1, <3>1, <3>2 DEF AgentOK, Quietly, ToolTypeOK, Writing, T!None, T!Snapshot
  <2> QED
    BY <2>1, <2>2, <2>3 DEF ToolsInv, T!WritesWhatWasSeen
<1>4. ASSUME NEW a \in Agents, T!Quit(a) PROVE ToolsInv' /\ T!WritesWhatWasSeen
  <2>1. /\ at[a] # "off" /\ at' = [at EXCEPT ![a] = "off"]
        /\ accepted' = [accepted EXCEPT ![a] = T!None] /\ tested' = [tested EXCEPT ![a] = T!None]
        /\ before' = [before EXCEPT ![a] = T!Missing] /\ after' = [after EXCEPT ![a] = T!Missing]
        /\ handle' = [handle EXCEPT ![a] = 0] /\ text' = [text EXCEPT ![a] = 0]
        /\ patches' = [patches EXCEPT ![a] = <<>>] /\ touched' = [touched EXCEPT ![a] = FALSE]
        /\ UNCHANGED <<file, bytes, inodes, texts, edits, permitted, lease, tasks>>
    BY <1>4 DEF T!Quit, T!Go, T!Set, T!SameDisk, T!SameHost
  <2>2. ToolTypeOK'
    BY <1>1, <1>c, <2>1 DEF ToolTypeOK
  <2>3. AgentOK(a)'
    BY <1>1, <2>1 DEF AgentOK, Seen, ToolTypeOK, T!None, T!Snapshot
  <2>4. \A b \in Agents \ {a} : /\ at'[b] = at[b] /\ accepted'[b] = accepted[b]
                                /\ tested'[b] = tested[b] /\ patches'[b] = patches[b]
    BY <1>1, <2>1 DEF ToolTypeOK
  <2> QED
    BY <2>1, <2>2, <2>3, <2>4, Alone DEF T!WritesWhatWasSeen
<1>5. ASSUME NEW a \in Agents, T!Release(a) PROVE ToolsInv' /\ T!WritesWhatWasSeen
  <2>1. /\ at[a] = "off" /\ lease = a /\ lease' = NoAgent
        /\ UNCHANGED <<file, bytes, inodes, calls, accepted, patches, tested, touched,
                       before, after, handle, text, texts, edits, permitted, at>>
    BY <1>5 DEF T!Release, T!Drained, T!SameDisk, T!SameSession, T!SameEdit
  <2>2. ToolTypeOK'
    BY <1>1, <2>1 DEF ToolTypeOK
  <2>3. ASSUME NEW b \in Agents PROVE AgentOK(b)'
    <3>1. at[b] = "off" /\ accepted[b] = T!None /\ tested[b] = T!None /\ Seen(b)
      BY <1>1, <2>1 DEF AgentOK
    <3>2. Seen(b)'
      BY <2>1, <3>1 DEF Seen
    <3> QED
      BY <2>1, <3>1, <3>2 DEF AgentOK, T!None, T!Snapshot
  <2> QED
    BY <2>1, <2>2, <2>3 DEF ToolsInv, T!WritesWhatWasSeen
<1>6. ASSUME NEW a \in Agents, T!Inspect(a) PROVE ToolsInv' /\ T!WritesWhatWasSeen
  <2>1. UNCHANGED <<file, bytes, inodes, texts, edits, permitted, lease, tasks, at, accepted, patches,
                    tested, touched, before, after, handle, text>>
    BY <1>6 DEF T!Inspect, T!SameDisk, T!SameHost, T!SameEdit
  <2>2. ToolsInv'
    BY <1>1, <2>1, SMTT(20) DEF ToolsInv, ToolTypeOK, AgentOK, Seen, Quietly, T!Current, SameOrNew
  <2> QED
    BY <2>1, <2>2 DEF T!WritesWhatWasSeen
<1>7. ASSUME NEW a \in Agents, T!RunTests(a) PROVE ToolsInv' /\ T!WritesWhatWasSeen
  <2>1. /\ at[a] = "idle" /\ tested' = [tested EXCEPT ![a] = T!Current]
        /\ UNCHANGED <<file, bytes, inodes, texts, edits, permitted, lease, tasks, at, accepted, patches,
                       touched, before, after, handle, text>>
    BY <1>7 DEF T!RunTests, T!Call, T!Set, T!SameDisk, T!SameHost, T!SameEdit
  <2>2. ToolTypeOK'
    BY <1>1, <1>c, <2>1 DEF ToolTypeOK
  <2>3. T!Current' = T!Current
    BY <2>1 DEF T!Current
  <2>4. AgentOK(a)'
    <3>1. Seen(a)'
      BY <1>1, <2>1 DEF AgentOK, Seen
    <3>2. ~touched[a] => Quietly(a)'
      BY <1>1, <2>1, <2>3 DEF AgentOK, Quietly, ToolTypeOK, Writing, T!None, T!Snapshot
    <3> QED
      BY <1>1, <2>1, <3>1, <3>2 DEF AgentOK
  <2>5. \A b \in Agents \ {a} : /\ at'[b] = at[b] /\ accepted'[b] = accepted[b]
                                /\ tested'[b] = tested[b] /\ patches'[b] = patches[b]
    BY <1>1, <2>1 DEF ToolTypeOK
  <2> QED
    BY <2>1, <2>2, <2>4, <2>5, Alone DEF T!WritesWhatWasSeen
<1>8. ASSUME NEW a \in Agents, T!BeginWrite(a) PROVE ToolsInv' /\ T!WritesWhatWasSeen
  <2>1. /\ at[a] = "idle" /\ at' = [at EXCEPT ![a] = "owned"]
        /\ accepted' = [accepted EXCEPT ![a] = IF accepted[a] = T!None THEN T!Current ELSE accepted[a]]
        /\ texts' = texts + 1 /\ text' = [text EXCEPT ![a] = texts + 1]
        /\ UNCHANGED <<file, bytes, inodes, edits, permitted, lease, tasks, before, after, handle,
                       patches, tested, touched>>
    BY <1>8 DEF T!BeginWrite, T!Call, T!Set, T!Go, T!SameDisk
  <2>2. ToolTypeOK'
    BY <1>1, <1>c, <2>1 DEF ToolTypeOK, Writing
  <2>3. T!Current' = T!Current
    BY <2>1 DEF T!Current
  <2>4. AgentOK(a)'
    <3>1. Seen(a)'
      BY <1>1, <2>1 DEF AgentOK, Seen, ToolTypeOK
    <3>2. ~touched[a] => Quietly(a)'
      BY <1>1, <1>c, <2>1, <2>3 DEF AgentOK, Quietly, ToolTypeOK, Writing, T!None, T!Snapshot
    <3> QED
      BY <1>1, <2>1, <3>1, <3>2 DEF AgentOK, ToolTypeOK
  <2>5. \A b \in Agents \ {a} : /\ at'[b] = at[b] /\ accepted'[b] = accepted[b]
                                /\ tested'[b] = tested[b] /\ patches'[b] = patches[b]
    BY <1>1, <2>1 DEF ToolTypeOK
  <2> QED
    BY <2>1, <2>2, <2>4, <2>5, Alone DEF T!WritesWhatWasSeen
<1>9. ASSUME NEW a \in Agents, T!Compare(a) PROVE ToolsInv' /\ T!WritesWhatWasSeen
  <2>1. /\ at[a] = "owned"
        /\ \/ T!Current = accepted[a] /\ before' = [before EXCEPT ![a] = T!Current] /\ at' = [at EXCEPT ![a] = "prepared"]
           \/ at' = [at EXCEPT ![a] = "idle"] /\ UNCHANGED before
        /\ UNCHANGED <<file, bytes, inodes, texts, edits, permitted, lease, tasks, calls, accepted, patches,
                       tested, touched, after, handle, text>>
    BY <1>9 DEF T!Compare, T!Set, T!Go, T!SameDisk, T!SameHost, T!SameSession
  <2>2. ToolTypeOK'
    BY <1>1, <1>c, <2>1 DEF ToolTypeOK, Writing
  <2>3. T!Current' = T!Current
    BY <2>1 DEF T!Current
  <2>4. AgentOK(a)'
    <3>1. Seen(a)'
      BY <1>1, <2>1 DEF AgentOK, Seen, ToolTypeOK
    <3>2. ~touched[a] => Quietly(a)'
      BY <1>1, <1>c, <2>1, <2>3 DEF AgentOK, Quietly, ToolTypeOK, Writing, T!None, T!Snapshot, T!Missing, T!IsMissing
    <3> QED
      BY <1>1, <2>1, <3>1, <3>2 DEF AgentOK, ToolTypeOK
  <2>5. \A b \in Agents \ {a} : /\ at'[b] = at[b] /\ accepted'[b] = accepted[b]
                                /\ tested'[b] = tested[b] /\ patches'[b] = patches[b]
    BY <1>1, <2>1 DEF ToolTypeOK
  <2> QED
    BY <2>1, <2>2, <2>4, <2>5, Alone DEF T!WritesWhatWasSeen
<1>10. ASSUME NEW a \in Agents, T!OpenFile(a) PROVE ToolsInv' /\ T!WritesWhatWasSeen
  <2>1. /\ at[a] = "prepared"
        /\ \/ /\ T!IsMissing(before[a]) /\ file = 0 /\ inodes < MaxInodes
              /\ inodes' = inodes + 1 /\ file' = inodes + 1 /\ bytes' = [bytes EXCEPT ![inodes + 1] = 0]
              /\ handle' = [handle EXCEPT ![a] = inodes + 1] /\ at' = [at EXCEPT ![a] = "opened"]
           \/ /\ ~T!IsMissing(before[a]) /\ file # 0 /\ UNCHANGED <<file, bytes, inodes>>
              /\ handle' = [handle EXCEPT ![a] = file] /\ at' = [at EXCEPT ![a] = "opened"]
           \/ at' = [at EXCEPT ![a] = "failing"] /\ UNCHANGED <<file, bytes, inodes, handle>>
        /\ UNCHANGED <<texts, edits, permitted, lease, tasks, calls, accepted, patches, tested, touched, before, after, text>>
    BY <1>10 DEF T!OpenFile, T!Set, T!Go, T!SameDisk, T!SameHost, T!SameSession, T!SameEdit
  <2>2. ToolTypeOK'
    <3>1. inodes' \in 1..MaxInodes /\ file' \in 0..inodes'
      BY <1>1, <2>1, BoundsAreNumbers, SMTT(20) DEF ToolTypeOK
    <3>2. bytes' \in [1..MaxInodes -> Nat]
      BY <1>1, <2>1, SMTT(20) DEF ToolTypeOK, Snapshots
    <3>3. at' \in [Agents -> {"off", "idle"} \cup Writing \cup Undoing]
      BY <1>1, <2>1 DEF ToolTypeOK, Writing, Undoing
    <3>4. /\ before' \in [Agents -> Snapshots] /\ after' \in [Agents -> Snapshots]
          /\ accepted' \in [Agents -> Snapshots] /\ tested' \in [Agents -> Snapshots]
      BY <1>1, <1>c, <2>1 DEF ToolTypeOK
    <3>5. handle' \in [Agents -> Nat] /\ text' \in [Agents -> Nat] /\ touched' \in [Agents -> BOOLEAN]
      <4>1. inodes + 1 \in Nat /\ file \in Nat
        BY <1>1, BoundsAreNumbers DEF ToolTypeOK
      <4>2. text' = text /\ touched' = touched /\ \E n \in Nat : handle' = [handle EXCEPT ![a] = n]
        BY <1>1, <2>1, <4>1 DEF ToolTypeOK
      <4>3. handle' \in [Agents -> Nat]
        BY <1>1, <4>2 DEF ToolTypeOK
      <4> QED
        BY <1>1, <4>2, <4>3 DEF ToolTypeOK
    <3>6. patches' \in [Agents -> Seq(Patches)]
      BY <1>1, <2>1 DEF ToolTypeOK, Patches
    <3> QED
      BY <1>1, <2>1, <3>1, <3>2, <3>3, <3>4, <3>5, <3>6 DEF ToolTypeOK
  <2>4. Seen(a)'
    BY <1>1, <1>c, <2>1 DEF AgentOK, Seen, ToolTypeOK
  <2>5. ~touched[a] => Quietly(a)'
    <3>1. T!IsMissing(before[a]) \/ T!Current' = T!Current
      BY <2>1 DEF T!Current
    <3>2. ~touched[a] => before[a] = accepted[a] /\ T!Current = accepted[a] /\ accepted[a] # T!None
                         /\ (T!IsMissing(before[a]) => before[a] = T!Missing)
                         /\ (tested[a] # T!None => tested[a] = accepted[a])
      BY <1>1, <2>1 DEF AgentOK, Quietly, Writing
    <3>3. ~T!IsMissing(before[a]) => file' = file
      BY <2>1
    <3> QED
      BY <1>1, <1>c, <2>1, <3>1, <3>2, <3>3 DEF Quietly, ToolTypeOK, T!None, T!Missing, T!Snapshot
  <2>6. AgentOK(a)'
    BY <1>1, <2>1, <2>4, <2>5 DEF AgentOK, ToolTypeOK
  <2>9. \A b \in Agents \ {a} : /\ at'[b] = at[b] /\ accepted'[b] = accepted[b]
                                /\ tested'[b] = tested[b] /\ patches'[b] = patches[b]
    BY <1>1, <2>1 DEF ToolTypeOK
  <2>10. T!WritesWhatWasSeen
    BY <1>1, <2>1 DEF T!WritesWhatWasSeen, ToolTypeOK
  <2> QED
    BY <1>1, <2>1, <2>2, <2>6, <2>9, <2>10, Alone DEF AgentOK
<1>11. ASSUME NEW a \in Agents, T!Authorize(a) PROVE ToolsInv' /\ T!WritesWhatWasSeen
  <2>1. /\ at[a] = "opened" /\ UNCHANGED <<texts, edits, permitted, lease, tasks, calls, accepted, patches, tested, touched, before, after, handle, text, bytes, inodes>>
        /\ \/ /\ T!IsMissing(before[a]) \/ handle[a] = before[a].ino
              /\ at' = [at EXCEPT ![a] = "writing"] /\ UNCHANGED file
           \/ /\ at' = [at EXCEPT ![a] = "failing"]
              /\ (file' = 0 /\ T!IsMissing(before[a])) \/ file' = file
    BY <1>11 DEF T!Authorize, T!Set, T!Go, T!SameDisk, T!SameHost, T!SameSession, T!SameEdit, T!CleanUp
  <2>2. ToolTypeOK'
    <3>1. inodes' \in 1..MaxInodes /\ file' \in 0..inodes'
      BY <1>1, <2>1, BoundsAreNumbers DEF ToolTypeOK
    <3>2. bytes' \in [1..MaxInodes -> Nat]
      BY <1>1, <2>1 DEF ToolTypeOK, Snapshots
    <3>3. at' \in [Agents -> {"off", "idle"} \cup Writing \cup Undoing]
      BY <1>1, <2>1 DEF ToolTypeOK, Writing, Undoing
    <3>4. /\ before' \in [Agents -> Snapshots] /\ after' \in [Agents -> Snapshots]
          /\ accepted' \in [Agents -> Snapshots] /\ tested' \in [Agents -> Snapshots]
      BY <1>1, <1>c, <2>1 DEF ToolTypeOK
    <3>5. handle' \in [Agents -> Nat] /\ text' \in [Agents -> Nat] /\ touched' \in [Agents -> BOOLEAN]
      BY <1>1, <2>1 DEF ToolTypeOK
    <3>6. patches' \in [Agents -> Seq(Patches)]
      BY <1>1, <2>1 DEF ToolTypeOK, Patches
    <3> QED
      BY <1>1, <2>1, <3>1, <3>2, <3>3, <3>4, <3>5, <3>6 DEF ToolTypeOK
  <2>4. Seen(a)'
    BY <1>1, <1>c, <2>1 DEF AgentOK, Seen, ToolTypeOK
  <2>5. ~touched[a] => Quietly(a)'
    BY <1>1, <1>c, <2>1 DEF AgentOK, Quietly, ToolTypeOK, Writing, T!None, T!Snapshot, T!Missing, T!IsMissing
  <2>6. AgentOK(a)'
    BY <1>1, <2>1, <2>4, <2>5 DEF AgentOK, ToolTypeOK
  <2>9. \A b \in Agents \ {a} : /\ at'[b] = at[b] /\ accepted'[b] = accepted[b]
                                /\ tested'[b] = tested[b] /\ patches'[b] = patches[b]
    BY <1>1, <2>1 DEF ToolTypeOK
  <2>10. T!WritesWhatWasSeen
    BY <2>1 DEF T!WritesWhatWasSeen
  <2> QED
    BY <1>1, <2>1, <2>2, <2>6, <2>9, <2>10, Alone DEF AgentOK
<1>12. ASSUME NEW a \in Agents, T!Truncate(a) PROVE ToolsInv' /\ T!WritesWhatWasSeen
  <2>1. /\ at[a] = "writing" /\ at' = [at EXCEPT ![a] = "truncated"]
        /\ bytes' = [bytes EXCEPT ![handle[a]] = 0]
        /\ UNCHANGED <<texts, edits, permitted, lease, tasks, calls, accepted, patches, tested, touched, before, after, handle, text, file, inodes>>
    BY <1>12 DEF T!Truncate, T!Set, T!Go, T!SameDisk, T!SameHost, T!SameSession, T!SameEdit
  <2>2. ToolTypeOK'
    <3>1. inodes' \in 1..MaxInodes /\ file' \in 0..inodes'
      BY <1>1, <2>1, BoundsAreNumbers DEF ToolTypeOK
    <3>2. bytes' \in [1..MaxInodes -> Nat]
      BY <1>1, <2>1 DEF ToolTypeOK, Snapshots
    <3>3. at' \in [Agents -> {"off", "idle"} \cup Writing \cup Undoing]
      BY <1>1, <2>1 DEF ToolTypeOK, Writing, Undoing
    <3>4. /\ before' \in [Agents -> Snapshots] /\ after' \in [Agents -> Snapshots]
          /\ accepted' \in [Agents -> Snapshots] /\ tested' \in [Agents -> Snapshots]
      BY <1>1, <1>c, <2>1 DEF ToolTypeOK
    <3>5. handle' \in [Agents -> Nat] /\ text' \in [Agents -> Nat] /\ touched' \in [Agents -> BOOLEAN]
      BY <1>1, <2>1 DEF ToolTypeOK
    <3>6. patches' \in [Agents -> Seq(Patches)]
      BY <1>1, <2>1 DEF ToolTypeOK, Patches
    <3> QED
      BY <1>1, <2>1, <3>1, <3>2, <3>3, <3>4, <3>5, <3>6 DEF ToolTypeOK
  <2>4. Seen(a)'
    BY <1>1, <1>c, <2>1 DEF AgentOK, Seen, ToolTypeOK
  <2>5. ~touched[a] => Quietly(a)'
    BY <1>1, <1>c, <2>1 DEF AgentOK, Quietly, ToolTypeOK, Writing, T!None, T!Snapshot, T!Missing, T!IsMissing
  <2>6. AgentOK(a)'
    BY <1>1, <2>1, <2>4, <2>5 DEF AgentOK, ToolTypeOK
  <2>9. \A b \in Agents \ {a} : /\ at'[b] = at[b] /\ accepted'[b] = accepted[b]
                                /\ tested'[b] = tested[b] /\ patches'[b] = patches[b]
    BY <1>1, <2>1 DEF ToolTypeOK
  <2>10. T!WritesWhatWasSeen
    BY <1>1, <2>1 DEF AgentOK, Seen, T!WritesWhatWasSeen, ToolTypeOK, T!IsMissing
  <2> QED
    BY <1>1, <2>1, <2>2, <2>6, <2>9, <2>10, Alone DEF AgentOK
<1>13. ASSUME NEW a \in Agents, T!Fill(a) PROVE ToolsInv' /\ T!WritesWhatWasSeen
  <2>1. /\ at[a] = "truncated" /\ UNCHANGED <<texts, edits, permitted, lease, tasks, calls, accepted, patches, tested, touched, before, after, handle, text, inodes>>
        /\ \/ bytes' = [bytes EXCEPT ![handle[a]] = text[a]] /\ at' = [at EXCEPT ![a] = "written"] /\ UNCHANGED file
           \/ /\ at' = [at EXCEPT ![a] = "failing"] /\ UNCHANGED bytes
              /\ (file' = 0 /\ T!IsMissing(before[a])) \/ file' = file
    BY <1>13 DEF T!Fill, T!Set, T!Go, T!SameDisk, T!SameHost, T!SameSession, T!SameEdit, T!CleanUp
  <2>2. ToolTypeOK'
    <3>1. inodes' \in 1..MaxInodes /\ file' \in 0..inodes'
      BY <1>1, <2>1, BoundsAreNumbers DEF ToolTypeOK
    <3>2. bytes' \in [1..MaxInodes -> Nat]
      BY <1>1, <2>1 DEF ToolTypeOK, Snapshots
    <3>3. at' \in [Agents -> {"off", "idle"} \cup Writing \cup Undoing]
      BY <1>1, <2>1 DEF ToolTypeOK, Writing, Undoing
    <3>4. /\ before' \in [Agents -> Snapshots] /\ after' \in [Agents -> Snapshots]
          /\ accepted' \in [Agents -> Snapshots] /\ tested' \in [Agents -> Snapshots]
      BY <1>1, <1>c, <2>1 DEF ToolTypeOK
    <3>5. handle' \in [Agents -> Nat] /\ text' \in [Agents -> Nat] /\ touched' \in [Agents -> BOOLEAN]
      BY <1>1, <2>1 DEF ToolTypeOK
    <3>6. patches' \in [Agents -> Seq(Patches)]
      BY <1>1, <2>1 DEF ToolTypeOK, Patches
    <3> QED
      BY <1>1, <2>1, <3>1, <3>2, <3>3, <3>4, <3>5, <3>6 DEF ToolTypeOK
  <2>4. Seen(a)'
    BY <1>1, <1>c, <2>1 DEF AgentOK, Seen, ToolTypeOK
  <2>5. ~touched[a] => Quietly(a)'
    BY <1>1, <1>c, <2>1 DEF AgentOK, Quietly, ToolTypeOK, Writing, T!None, T!Snapshot, T!Missing, T!IsMissing
  <2>6. AgentOK(a)'
    BY <1>1, <2>1, <2>4, <2>5 DEF AgentOK, ToolTypeOK
  <2>9. \A b \in Agents \ {a} : /\ at'[b] = at[b] /\ accepted'[b] = accepted[b]
                                /\ tested'[b] = tested[b] /\ patches'[b] = patches[b]
    BY <1>1, <2>1 DEF ToolTypeOK
  <2>10. T!WritesWhatWasSeen
    BY <1>1, <2>1 DEF AgentOK, Seen, T!WritesWhatWasSeen, ToolTypeOK, T!IsMissing
  <2> QED
    BY <1>1, <2>1, <2>2, <2>6, <2>9, <2>10, Alone DEF AgentOK
<1>14. ASSUME NEW a \in Agents, T!Verify(a) PROVE ToolsInv' /\ T!WritesWhatWasSeen
  <2>1. /\ at[a] = "written" /\ UNCHANGED <<file, bytes, inodes, texts, edits, permitted, lease, tasks, calls, accepted, patches, tested, touched, before, handle, text>>
        /\ \/ /\ T!IsMissing(before[a]) \/ file = before[a].ino
              /\ after' = [after EXCEPT ![a] = T!Current] /\ at' = [at EXCEPT ![a] = "verified"]
           \/ at' = [at EXCEPT ![a] = "failing"] /\ UNCHANGED after
    BY <1>14 DEF T!Verify, T!Set, T!Go, T!SameDisk, T!SameHost, T!SameSession, T!SameEdit
  <2>2. ToolTypeOK'
    <3>1. inodes' \in 1..MaxInodes /\ file' \in 0..inodes'
      BY <1>1, <2>1, BoundsAreNumbers DEF ToolTypeOK
    <3>2. bytes' \in [1..MaxInodes -> Nat]
      BY <1>1, <2>1 DEF ToolTypeOK, Snapshots
    <3>3. at' \in [Agents -> {"off", "idle"} \cup Writing \cup Undoing]
      BY <1>1, <2>1 DEF ToolTypeOK, Writing, Undoing
    <3>4. /\ before' \in [Agents -> Snapshots] /\ after' \in [Agents -> Snapshots]
          /\ accepted' \in [Agents -> Snapshots] /\ tested' \in [Agents -> Snapshots]
      <4>1. after' = after \/ \E x \in Snapshots : after' = [after EXCEPT ![a] = x]
        BY <1>1, <1>c, <2>1 DEF ToolTypeOK
      <4>2. after' \in [Agents -> Snapshots]
        BY <1>1, <4>1 DEF ToolTypeOK
      <4> QED
        BY <1>1, <2>1, <4>2 DEF ToolTypeOK
    <3>5. handle' \in [Agents -> Nat] /\ text' \in [Agents -> Nat] /\ touched' \in [Agents -> BOOLEAN]
      BY <1>1, <2>1 DEF ToolTypeOK
    <3>6. patches' \in [Agents -> Seq(Patches)]
      BY <1>1, <2>1 DEF ToolTypeOK, Patches
    <3> QED
      BY <1>1, <2>1, <3>1, <3>2, <3>3, <3>4, <3>5, <3>6 DEF ToolTypeOK
  <2>3. T!Current' = T!Current
    BY <2>1 DEF T!Current
  <2>4. Seen(a)'
    BY <1>1, <1>c, <2>1 DEF AgentOK, Seen, ToolTypeOK, SameOrNew
  <2>5. ~touched[a] => Quietly(a)'
    BY <1>1, <1>c, <2>1, <2>3 DEF AgentOK, Quietly, ToolTypeOK, Writing, Undoing, T!None, T!Snapshot, T!Missing, T!IsMissing, T!SameFile
  <2>6. AgentOK(a)'
    BY <1>1, <2>1, <2>4, <2>5 DEF AgentOK, ToolTypeOK
  <2>9. \A b \in Agents \ {a} : /\ at'[b] = at[b] /\ accepted'[b] = accepted[b]
                                /\ tested'[b] = tested[b] /\ patches'[b] = patches[b]
    BY <1>1, <2>1 DEF ToolTypeOK
  <2>10. T!WritesWhatWasSeen
    BY <2>1 DEF T!WritesWhatWasSeen
  <2> QED
    BY <1>1, <2>1, <2>2, <2>6, <2>9, <2>10, Alone DEF AgentOK
<1>15. ASSUME NEW a \in Agents, T!Finalize(a) PROVE ToolsInv' /\ T!WritesWhatWasSeen
  <2>1. /\ at[a] = "verified" /\ UNCHANGED <<file, bytes, inodes, texts, edits, permitted, lease, tasks, before, after, handle, text, calls, touched>>
        /\ \/ /\ accepted' = [accepted EXCEPT ![a] = after[a]] /\ tested' = [tested EXCEPT ![a] = T!None]
              /\ patches' = [patches EXCEPT ![a] = Append(patches[a], [before |-> before[a], after |-> after[a]])]
              /\ at' = [at EXCEPT ![a] = "idle"]
           \/ UNCHANGED <<accepted, tested, patches>> /\ at' = [at EXCEPT ![a] = "failing"]
    BY <1>15 DEF T!Finalize, T!Set, T!Go, T!SameDisk, T!SameHost, T!SameSession, T!SameEdit, T!Accept, T!Invalidated
  <2>7. PICK patch \in Patches : patch = [before |-> before[a], after |-> after[a]]
    BY <1>1 DEF ToolTypeOK, Patches
  <2>2. ToolTypeOK'
    <3>1. inodes' \in 1..MaxInodes /\ file' \in 0..inodes'
      BY <1>1, <2>1, BoundsAreNumbers DEF ToolTypeOK
    <3>2. bytes' \in [1..MaxInodes -> Nat]
      BY <1>1, <2>1 DEF ToolTypeOK, Snapshots
    <3>3. at' \in [Agents -> {"off", "idle"} \cup Writing \cup Undoing]
      BY <1>1, <2>1 DEF ToolTypeOK, Writing, Undoing
    <3>4. /\ before' \in [Agents -> Snapshots] /\ after' \in [Agents -> Snapshots]
          /\ accepted' \in [Agents -> Snapshots] /\ tested' \in [Agents -> Snapshots]
      <4>1. after' = after \/ \E x \in Snapshots : after' = [after EXCEPT ![a] = x]
        BY <1>1, <1>c, <2>1 DEF ToolTypeOK
      <4>2. accepted' = accepted \/ \E x \in Snapshots : accepted' = [accepted EXCEPT ![a] = x]
        BY <1>1, <1>c, <2>1 DEF ToolTypeOK
      <4>3. tested' = tested \/ \E x \in Snapshots : tested' = [tested EXCEPT ![a] = x]
        BY <1>1, <1>c, <2>1 DEF ToolTypeOK
      <4>4. before' = before \/ \E x \in Snapshots : before' = [before EXCEPT ![a] = x]
        BY <1>1, <1>c, <2>1 DEF ToolTypeOK
      <4>5. after' \in [Agents -> Snapshots]
        BY <1>1, <4>1 DEF ToolTypeOK
      <4>6. accepted' \in [Agents -> Snapshots]
        BY <1>1, <4>2 DEF ToolTypeOK
      <4>7. tested' \in [Agents -> Snapshots]
        BY <1>1, <4>3 DEF ToolTypeOK
      <4>8. before' \in [Agents -> Snapshots]
        BY <1>1, <4>4 DEF ToolTypeOK
      <4> QED
        BY <4>5, <4>6, <4>7, <4>8
    <3>5. handle' \in [Agents -> Nat] /\ text' \in [Agents -> Nat] /\ touched' \in [Agents -> BOOLEAN]
      BY <1>1, <2>1 DEF ToolTypeOK
    <3>6. patches' \in [Agents -> Seq(Patches)]
      <4>1. Append(patches[a], patch) \in Seq(Patches)
        BY <1>1, LongerPatches DEF ToolTypeOK
      <4> QED
        BY <1>1, <2>1, <2>7, <4>1 DEF ToolTypeOK
    <3> QED
      BY <1>1, <2>1, <3>1, <3>2, <3>3, <3>4, <3>5, <3>6 DEF ToolTypeOK
  <2>3. T!Current' = T!Current
    BY <2>1 DEF T!Current
  <2>8. \/ patches'[a] = patches[a]
        \/ /\ patches'[a] = Append(patches[a], patch) /\ patches'[a] \in Seq(Patches)
           /\ DOMAIN patches'[a] = 1..(Len(patches[a]) + 1) /\ DOMAIN patches[a] = 1..Len(patches[a])
           /\ patches'[a][Len(patches[a]) + 1] = patch /\ Len(patches[a]) \in Nat
           /\ \A n \in 1..Len(patches[a]) : patches'[a][n] = patches[a][n]
    <3>1. patches[a] \in Seq(Patches) /\ patches \in [Agents -> Seq(Patches)]
      BY <1>1 DEF ToolTypeOK
    <3>2. PICK old \in Seq(Patches) : old = patches[a]
      BY <3>1
    <3>3. PICK new : new = Append(old, patch)
      OBVIOUS
    <3>4. /\ new \in Seq(Patches)
          /\ DOMAIN new = 1..(Len(old) + 1) /\ DOMAIN old = 1..Len(old) /\ Len(old) \in Nat
          /\ new[Len(old) + 1] = patch /\ \A n \in 1..Len(old) : new[n] = old[n]
      BY <3>3, LongerPatches
    <3>5. patches'[a] = patches[a] \/ patches'[a] = new
      BY <2>1, <2>7, <3>1, <3>2, <3>3
    <3> QED
      BY <3>2, <3>3, <3>4, <3>5
  <2>4. Seen(a)'
    <3>1. \A n \in DOMAIN patches'[a] : SameOrNew(patches'[a][n].before, patches'[a][n].after)
      <4>1. SameOrNew(patch.before, patch.after)
        BY <1>1, <2>1, <2>7 DEF AgentOK, Seen
      <4>2. \A n \in DOMAIN patches[a] : SameOrNew(patches[a][n].before, patches[a][n].after)
        BY <1>1 DEF AgentOK, Seen
      <4> QED
        BY <2>8, <4>1, <4>2, SMTT(20)
    <3> QED
      BY <1>1, <2>1, <3>1 DEF Seen, ToolTypeOK, SameOrNew
  <2>5. ~touched[a] => Quietly(a)'
    BY <1>1, <1>c, <2>1, <2>3 DEF AgentOK, Quietly, ToolTypeOK, Writing, Undoing, T!None, T!Snapshot, T!Missing, T!IsMissing, T!SameFile
  <2>6. AgentOK(a)'
    BY <1>1, <2>1, <2>4, <2>5 DEF AgentOK, ToolTypeOK
  <2>9. \A b \in Agents \ {a} : /\ at'[b] = at[b] /\ accepted'[b] = accepted[b]
                                /\ tested'[b] = tested[b] /\ patches'[b] = patches[b]
    BY <1>1, <2>1 DEF ToolTypeOK
  <2>10. T!WritesWhatWasSeen
    BY <2>1 DEF T!WritesWhatWasSeen
  <2> QED
    BY <1>1, <2>1, <2>2, <2>6, <2>9, <2>10, Alone DEF AgentOK
<1>16. ASSUME NEW a \in Agents, T!RollBack(a) PROVE ToolsInv' /\ T!WritesWhatWasSeen
  <2>1. /\ at[a] = "failing" /\ UNCHANGED <<file, bytes, inodes, texts, edits, permitted, lease, tasks, calls, accepted, patches, tested, before, handle, text>>
        /\ \/ /\ T!Current = before[a] \/ (T!IsMissing(before[a]) /\ file = 0)
              /\ at' = [at EXCEPT ![a] = "idle"] /\ UNCHANGED <<after, touched>>
           \/ /\ T!IsMissing(before[a]) \/ T!SameFile(before[a], T!Current)
              /\ after' = [after EXCEPT ![a] = T!Current] /\ at' = [at EXCEPT ![a] = "restoring"]
              /\ UNCHANGED touched
           \/ /\ ~T!IsMissing(before[a]) /\ ~T!SameFile(before[a], T!Current)
              /\ at' = [at EXCEPT ![a] = "idle"] /\ UNCHANGED <<after, touched>>
           \/ /\ at' = [at EXCEPT ![a] = "idle"] /\ UNCHANGED after
              /\ touched' = [touched EXCEPT ![a] = TRUE]
    BY <1>16 DEF T!RollBack, T!Restorable, T!Set, T!Go, T!SameDisk, T!SameHost, T!SameSession, T!SameEdit
  <2>2. ToolTypeOK'
    <3>1. inodes' \in 1..MaxInodes /\ file' \in 0..inodes'
      BY <1>1, <2>1, BoundsAreNumbers DEF ToolTypeOK
    <3>2. bytes' \in [1..MaxInodes -> Nat]
      BY <1>1, <2>1 DEF ToolTypeOK, Snapshots
    <3>3. at' \in [Agents -> {"off", "idle"} \cup Writing \cup Undoing]
      BY <1>1, <2>1 DEF ToolTypeOK, Writing, Undoing
    <3>4. /\ before' \in [Agents -> Snapshots] /\ after' \in [Agents -> Snapshots]
          /\ accepted' \in [Agents -> Snapshots] /\ tested' \in [Agents -> Snapshots]
      <4>1. after' = after \/ \E x \in Snapshots : after' = [after EXCEPT ![a] = x]
        BY <1>1, <1>c, <2>1 DEF ToolTypeOK
      <4>2. after' \in [Agents -> Snapshots]
        BY <1>1, <4>1 DEF ToolTypeOK
      <4> QED
        BY <1>1, <2>1, <4>2 DEF ToolTypeOK
    <3>5. handle' \in [Agents -> Nat] /\ text' \in [Agents -> Nat] /\ touched' \in [Agents -> BOOLEAN]
      BY <1>1, <2>1 DEF ToolTypeOK
    <3>6. patches' \in [Agents -> Seq(Patches)]
      BY <1>1, <2>1 DEF ToolTypeOK, Patches
    <3> QED
      BY <1>1, <2>1, <3>1, <3>2, <3>3, <3>4, <3>5, <3>6 DEF ToolTypeOK
  <2>3. T!Current' = T!Current
    BY <2>1 DEF T!Current
  <2>4. Seen(a)'
    BY <1>1, <1>c, <2>1 DEF AgentOK, Seen, ToolTypeOK, SameOrNew, T!SameFile
  <2>5. ~touched'[a] => Quietly(a)'
    BY <1>1, <1>c, <2>1, <2>3 DEF AgentOK, Quietly, ToolTypeOK, Writing, Undoing, T!None, T!Snapshot, T!Missing, T!IsMissing, T!SameFile
  <2>6. AgentOK(a)'
    BY <1>1, <2>1, <2>4, <2>5 DEF AgentOK, ToolTypeOK
  <2>9. \A b \in Agents \ {a} : /\ at'[b] = at[b] /\ accepted'[b] = accepted[b]
                                /\ tested'[b] = tested[b] /\ patches'[b] = patches[b]
    BY <1>1, <2>1 DEF ToolTypeOK
  <2>10. T!WritesWhatWasSeen
    BY <2>1 DEF T!WritesWhatWasSeen
  <2> QED
    BY <1>1, <2>1, <2>2, <2>6, <2>9, <2>10, Alone DEF AgentOK
<1>17. ASSUME NEW a \in Agents, T!Restore(a) PROVE ToolsInv' /\ T!WritesWhatWasSeen
  <2>1. /\ at[a] = "restoring" /\ at' = [at EXCEPT ![a] = "idle"]
        /\ \/ /\ T!SameFile(T!Current, after[a]) /\ T!IsMissing(before[a]) /\ file' = 0
              /\ UNCHANGED <<bytes, touched>>
           \/ /\ T!SameFile(T!Current, after[a]) /\ ~T!IsMissing(before[a]) /\ UNCHANGED <<file, touched>>
              /\ bytes' = [bytes EXCEPT ![after[a].ino] = before[a].text]
           \/ ~T!SameFile(T!Current, after[a]) /\ UNCHANGED <<file, bytes, touched>>
           \/ /\ UNCHANGED file /\ touched' = [touched EXCEPT ![a] = TRUE]
              /\ UNCHANGED bytes \/ (~T!IsMissing(before[a]) /\ bytes' = [bytes EXCEPT ![after[a].ino] = 0])
        /\ UNCHANGED <<texts, edits, permitted, lease, tasks, calls, accepted, patches, tested, before, after, handle, text, inodes>>
    BY <1>17 DEF T!Restore, T!Set, T!Go, T!SameDisk, T!SameHost, T!SameEdit, T!PutBack, T!FallsShort
  <2>2. ToolTypeOK'
    <3>1. inodes' \in 1..MaxInodes /\ file' \in 0..inodes'
      BY <1>1, <2>1, BoundsAreNumbers DEF ToolTypeOK
    <3>2. bytes' \in [1..MaxInodes -> Nat]
      <4>1. before[a].text \in Nat /\ 0 \in Nat
        BY <1>1 DEF ToolTypeOK, Snapshots
      <4>2. bytes' = bytes \/ \E v \in Nat : bytes' = [bytes EXCEPT ![after[a].ino] = v]
        BY <2>1, <4>1
      <4> QED
        BY <1>1, <4>2 DEF ToolTypeOK
    <3>3. at' \in [Agents -> {"off", "idle"} \cup Writing \cup Undoing]
      BY <1>1, <2>1 DEF ToolTypeOK, Writing, Undoing
    <3>4. /\ before' \in [Agents -> Snapshots] /\ after' \in [Agents -> Snapshots]
          /\ accepted' \in [Agents -> Snapshots] /\ tested' \in [Agents -> Snapshots]
      BY <1>1, <1>c, <2>1 DEF ToolTypeOK
    <3>5. handle' \in [Agents -> Nat] /\ text' \in [Agents -> Nat] /\ touched' \in [Agents -> BOOLEAN]
      BY <1>1, <2>1 DEF ToolTypeOK
    <3>6. patches' \in [Agents -> Seq(Patches)]
      BY <1>1, <2>1 DEF ToolTypeOK, Patches
    <3> QED
      BY <1>1, <2>1, <3>1, <3>2, <3>3, <3>4, <3>5, <3>6 DEF ToolTypeOK
  <2>4. Seen(a)'
    BY <1>1, <1>c, <2>1 DEF AgentOK, Seen, ToolTypeOK
  <2>5. ~touched'[a] => Quietly(a)'
    <3>1. SUFFICES ASSUME ~touched'[a] PROVE Quietly(a)'
      OBVIOUS
    <3>u. UNCHANGED touched
      BY <1>1, <2>1, <3>1 DEF ToolTypeOK
    <3>v. \/ T!SameFile(T!Current, after[a]) /\ T!IsMissing(before[a]) /\ file' = 0
          \/ /\ T!SameFile(T!Current, after[a]) /\ ~T!IsMissing(before[a]) /\ UNCHANGED file
             /\ bytes' = [bytes EXCEPT ![after[a].ino] = before[a].text]
          \/ ~T!SameFile(T!Current, after[a])
      BY <1>1, <2>1, <3>1 DEF ToolTypeOK
    <3>2. /\ accepted[a] = before[a] /\ accepted[a] # T!None /\ T!SameFile(T!Current, after[a])
          /\ tested[a] # T!None => tested[a] = accepted[a]
          /\ T!IsMissing(before[a]) => before[a] = T!Missing
          /\ T!IsMissing(before[a]) \/ file = before[a].ino
      BY <1>1, <2>1, <3>1, <3>u DEF AgentOK, Quietly, Writing
    <3>3. T!Current' = before[a]
      <4>1. CASE T!IsMissing(before[a])
        BY <3>v, <3>2, <4>1 DEF T!Current, T!Missing
      <4>2. CASE ~T!IsMissing(before[a])
        <5>1. before[a] \in Snapshots /\ file = before[a].ino /\ file # 0 /\ file \in 1..MaxInodes
          BY <1>1, <3>2, <4>2, BoundsAreNumbers DEF ToolTypeOK, T!IsMissing
        <5>2. bytes' = [bytes EXCEPT ![file] = before[a].text] /\ file' = file
          BY <1>c, <3>v, <3>2, <4>2 DEF T!SameFile
        <5>3. T!Current' = [ino |-> file, text |-> before[a].text]
          BY <1>1, <5>1, <5>2 DEF T!Current, T!Snapshot, ToolTypeOK
        <5> QED
          BY <5>1, <5>3 DEF Snapshots
      <4> QED
        BY <4>1, <4>2
    <3>4. at'[a] = "idle" /\ accepted'[a] = accepted[a] /\ tested'[a] = tested[a]
      BY <1>1, <2>1 DEF ToolTypeOK
    <3> QED
      BY <3>2, <3>3, <3>4 DEF Quietly, Writing
  <2>6. AgentOK(a)'
    BY <1>1, <2>1, <2>4, <2>5 DEF AgentOK, ToolTypeOK
  <2>9. \A b \in Agents \ {a} : /\ at'[b] = at[b] /\ accepted'[b] = accepted[b]
                                /\ tested'[b] = tested[b] /\ patches'[b] = patches[b]
    BY <1>1, <2>1 DEF ToolTypeOK
  <2>10. T!WritesWhatWasSeen
    BY <1>1, <2>1 DEF AgentOK, Seen, SameOrNew, T!WritesWhatWasSeen, ToolTypeOK
  <2> QED
    BY <1>1, <2>1, <2>2, <2>6, <2>9, <2>10, Alone DEF AgentOK
<1>18. ASSUME NEW a \in Agents, T!BeginUndo(a) PROVE ToolsInv' /\ T!WritesWhatWasSeen
  <2>1. /\ at[a] = "idle" /\ patches[a] # <<>> /\ at' = [at EXCEPT ![a] = "undoing"]
        /\ UNCHANGED <<file, bytes, inodes, texts, edits, permitted, lease, tasks, calls, accepted, patches, tested, touched, before, after, handle, text>>
    BY <1>18 DEF T!BeginUndo, T!Set, T!Go, T!SameDisk, T!SameHost, T!SameSession, T!SameEdit
  <2>2. ToolTypeOK'
    <3>1. inodes' \in 1..MaxInodes /\ file' \in 0..inodes'
      BY <1>1, <2>1, BoundsAreNumbers DEF ToolTypeOK
    <3>2. bytes' \in [1..MaxInodes -> Nat]
      BY <1>1, <2>1 DEF ToolTypeOK, Snapshots
    <3>3. at' \in [Agents -> {"off", "idle"} \cup Writing \cup Undoing]
      BY <1>1, <2>1 DEF ToolTypeOK, Writing, Undoing
    <3>4. /\ before' \in [Agents -> Snapshots] /\ after' \in [Agents -> Snapshots]
          /\ accepted' \in [Agents -> Snapshots] /\ tested' \in [Agents -> Snapshots]
      BY <1>1, <1>c, <2>1 DEF ToolTypeOK
    <3>5. handle' \in [Agents -> Nat] /\ text' \in [Agents -> Nat] /\ touched' \in [Agents -> BOOLEAN]
      BY <1>1, <2>1 DEF ToolTypeOK
    <3>6. patches' \in [Agents -> Seq(Patches)]
      BY <1>1, <2>1 DEF ToolTypeOK, Patches
    <3> QED
      BY <1>1, <2>1, <3>1, <3>2, <3>3, <3>4, <3>5, <3>6 DEF ToolTypeOK
  <2>3. T!Current' = T!Current
    BY <2>1 DEF T!Current
  <2>4. Seen(a)'
    BY <1>1, <1>c, <2>1 DEF AgentOK, Seen, ToolTypeOK
  <2>5. ~touched[a] => Quietly(a)'
    BY <1>1, <1>c, <2>1, <2>3 DEF AgentOK, Quietly, ToolTypeOK, Writing, Undoing, T!None, T!Snapshot, T!Missing, T!IsMissing, T!SameFile
  <2>6. AgentOK(a)'
    BY <1>1, <2>1, <2>4, <2>5 DEF AgentOK, ToolTypeOK
  <2>9. \A b \in Agents \ {a} : /\ at'[b] = at[b] /\ accepted'[b] = accepted[b]
                                /\ tested'[b] = tested[b] /\ patches'[b] = patches[b]
    BY <1>1, <2>1 DEF ToolTypeOK
  <2>10. T!WritesWhatWasSeen
    BY <2>1 DEF T!WritesWhatWasSeen
  <2> QED
    BY <1>1, <2>1, <2>2, <2>6, <2>9, <2>10, Alone DEF AgentOK
<1>19. ASSUME NEW a \in Agents, T!Undo(a) PROVE ToolsInv' /\ T!WritesWhatWasSeen
  <2>1. /\ at[a] = "undoing" /\ UNCHANGED <<file, bytes, inodes, texts, edits, permitted, lease, tasks, calls, accepted, tested, touched, handle, text>>
        /\ patches' = [patches EXCEPT ![a] = T!Front(patches[a])]
        /\ before' = [before EXCEPT ![a] = T!Last(patches[a]).before]
        /\ after' = [after EXCEPT ![a] = T!Last(patches[a]).after]
        /\ at' = [at EXCEPT ![a] = IF T!Current = T!Last(patches[a]).after THEN "undo"
                                   ELSE IF Len(patches[a]) > 1 THEN "undoing" ELSE "undone"]
    BY <1>19 DEF T!Undo, T!Set, T!Go, T!SameDisk, T!SameHost, T!SameSession, T!SameEdit
  <2>7. PICK n \in Nat : n + 1 = Len(patches[a])
    <3>1. patches[a] \in Seq(Patches) /\ patches[a] # <<>>
      BY <1>1, <2>1 DEF ToolTypeOK, AgentOK, Seen
    <3> QED
      BY <3>1
  <2>8. /\ T!Last(patches[a]) = patches[a][n + 1] /\ T!Last(patches[a]) \in Patches
        /\ T!Front(patches[a]) \in Seq(Patches) /\ Len(T!Front(patches[a])) = n
        /\ DOMAIN T!Front(patches[a]) = 1..n /\ DOMAIN patches[a] = 1..(n + 1)
        /\ \A k \in 1..n : T!Front(patches[a])[k] = patches[a][k]
    <3>1. patches[a] \in Seq(Patches)
      BY <1>1 DEF ToolTypeOK
    <3> QED
      BY <2>7, <3>1 DEF T!Last, T!Front
  <2>2. ToolTypeOK'
    <3>1. T!Last(patches[a]).before \in Snapshots /\ T!Last(patches[a]).after \in Snapshots
      BY <2>8 DEF Patches
    <3> QED
      BY <1>1, <1>c, <2>1, <2>8, <3>1 DEF ToolTypeOK, Writing, Undoing
  <2>3. T!Current' = T!Current
    BY <2>1 DEF T!Current
  <2>4. Seen(a)'
    <3>1. \A k \in 1..(n + 1) : SameOrNew(patches[a][k].before, patches[a][k].after)
      BY <1>1, <2>8 DEF AgentOK, Seen
    <3>2. \A k \in DOMAIN patches'[a] : SameOrNew(patches'[a][k].before, patches'[a][k].after)
      <4>1. patches'[a] = T!Front(patches[a])
        BY <1>1, <2>1 DEF ToolTypeOK
      <4>2. ASSUME NEW k \in 1..n PROVE SameOrNew(T!Front(patches[a])[k].before, T!Front(patches[a])[k].after)
        <5>1. k \in 1..(n + 1) /\ T!Front(patches[a])[k] = patches[a][k]
          BY <2>8
        <5> QED
          BY <3>1, <5>1
      <4> QED
        BY <2>8, <4>1, <4>2
    <3>3. SameOrNew(before'[a], after'[a])
      BY <1>1, <2>1, <2>7, <2>8, <3>1 DEF ToolTypeOK
    <3>4. at'[a] = "undoing" => patches'[a] # <<>>
      BY <1>1, <2>1, <2>7, <2>8 DEF ToolTypeOK
    <3>5. at'[a] \in {"undo", "undoing", "undone"}
      BY <1>1, <2>1 DEF ToolTypeOK
    <3> QED
      BY <3>2, <3>3, <3>4, <3>5 DEF Seen
  <2>5. ~touched[a] => Quietly(a)'
    <3>1. at'[a] \in {"undo", "undoing", "undone"}
      BY <1>1, <2>1 DEF ToolTypeOK
    <3> QED
      BY <3>1 DEF Quietly, Writing
  <2>6. AgentOK(a)'
    BY <1>1, <2>1, <2>4, <2>5 DEF AgentOK, ToolTypeOK
  <2>9. \A b \in Agents \ {a} : /\ at'[b] = at[b] /\ accepted'[b] = accepted[b]
                                /\ tested'[b] = tested[b] /\ patches'[b] = patches[b]
    BY <1>1, <2>1 DEF ToolTypeOK
  <2>10. T!WritesWhatWasSeen
    BY <2>1 DEF T!WritesWhatWasSeen
  <2> QED
    BY <1>1, <2>1, <2>2, <2>6, <2>9, <2>10, Alone DEF AgentOK
<1>20. ASSUME NEW a \in Agents, T!UndoWrite(a) PROVE ToolsInv' /\ T!WritesWhatWasSeen
  <2>1. /\ at[a] = "undo"
        /\ at' = [at EXCEPT ![a] = IF patches[a] = <<>> THEN "undone" ELSE "undoing"]
        /\ \/ /\ T!SameFile(T!Current, after[a]) /\ T!IsMissing(before[a]) /\ file' = 0 /\ UNCHANGED bytes
           \/ /\ T!SameFile(T!Current, after[a]) /\ ~T!IsMissing(before[a]) /\ UNCHANGED file
              /\ bytes' = [bytes EXCEPT ![after[a].ino] = before[a].text]
           \/ ~T!SameFile(T!Current, after[a]) /\ UNCHANGED <<file, bytes>>
           \/ /\ UNCHANGED file
              /\ UNCHANGED bytes \/ (~T!IsMissing(before[a]) /\ bytes' = [bytes EXCEPT ![after[a].ino] = 0])
        /\ UNCHANGED <<texts, edits, permitted, lease, tasks, calls, accepted, patches, tested, touched, before, after, handle, text, inodes>>
    BY <1>20 DEF T!UndoWrite, T!Set, T!Go, T!SameDisk, T!SameHost, T!SameSession, T!SameEdit, T!PutBack, T!FallsShort
  <2>2. ToolTypeOK'
    <3>1. inodes' \in 1..MaxInodes /\ file' \in 0..inodes'
      BY <1>1, <2>1, BoundsAreNumbers, SMTT(20) DEF ToolTypeOK
    <3>2. bytes' \in [1..MaxInodes -> Nat]
      <4>1. before[a].text \in Nat /\ 0 \in Nat
        BY <1>1 DEF ToolTypeOK, Snapshots
      <4>2. bytes' = bytes \/ \E v \in Nat : bytes' = [bytes EXCEPT ![after[a].ino] = v]
        BY <2>1, <4>1
      <4> QED
        BY <1>1, <4>2 DEF ToolTypeOK
    <3>3. at' \in [Agents -> {"off", "idle"} \cup Writing \cup Undoing]
      BY <1>1, <2>1 DEF ToolTypeOK, Writing, Undoing
    <3>4. /\ before' \in [Agents -> Snapshots] /\ after' \in [Agents -> Snapshots]
          /\ accepted' \in [Agents -> Snapshots] /\ tested' \in [Agents -> Snapshots]
      BY <1>1, <1>c, <2>1 DEF ToolTypeOK
    <3>5. handle' \in [Agents -> Nat] /\ text' \in [Agents -> Nat] /\ touched' \in [Agents -> BOOLEAN]
      BY <1>1, <2>1 DEF ToolTypeOK
    <3>6. patches' \in [Agents -> Seq(Patches)]
      BY <1>1, <2>1 DEF ToolTypeOK, Patches
    <3> QED
      BY <1>1, <2>1, <3>1, <3>2, <3>3, <3>4, <3>5, <3>6 DEF ToolTypeOK
  <2>4. Seen(a)'
    BY <1>1, <1>c, <2>1 DEF AgentOK, Seen, ToolTypeOK
  <2>5. ~touched[a] => Quietly(a)'
    <3>1. at'[a] \in {"undoing", "undone"}
      BY <1>1, <2>1 DEF ToolTypeOK
    <3> QED
      BY <3>1 DEF Quietly, Writing
  <2>6. AgentOK(a)'
    BY <1>1, <2>1, <2>4, <2>5 DEF AgentOK, ToolTypeOK
  <2>9. \A b \in Agents \ {a} : /\ at'[b] = at[b] /\ accepted'[b] = accepted[b]
                                /\ tested'[b] = tested[b] /\ patches'[b] = patches[b]
    BY <1>1, <2>1 DEF ToolTypeOK
  <2>10. T!WritesWhatWasSeen
    BY <1>1, <2>1 DEF AgentOK, Seen, SameOrNew, T!WritesWhatWasSeen, ToolTypeOK
  <2> QED
    BY <1>1, <2>1, <2>2, <2>6, <2>9, <2>10, Alone DEF AgentOK
<1>21. ASSUME T!Touch, inodes' \in 1..MaxInodes, file' \in 0..inodes', texts' \in Nat,
              bytes' \in [1..MaxInodes -> Nat]
       PROVE  ToolsInv' /\ T!WritesWhatWasSeen
  <2>1. /\ edits' = edits + 1 /\ touched' = [a \in Agents |-> at[a] # "off"]
        /\ UNCHANGED <<permitted, lease, tasks, at, accepted, patches, tested, before, after, handle, text>>
    BY <1>21 DEF T!Touch, T!SameEdit
  <2>2. ToolTypeOK'
    BY <1>1, <1>21, <2>1 DEF ToolTypeOK
  <2>3. ASSUME NEW a \in Agents PROVE AgentOK(a)'
    <3>1. Seen(a)'
      BY <1>1, <2>1 DEF AgentOK, Seen
    <3>2. at[a] # "off" => touched'[a]
      BY <2>1
    <3> QED
      BY <1>1, <2>1, <3>1, <3>2 DEF AgentOK, T!None, T!Snapshot
  <2>4. edits' # edits
    BY <1>1, <2>1 DEF ToolTypeOK
  <2> QED
    BY <2>2, <2>3, <2>4 DEF ToolsInv, T!WritesWhatWasSeen
<1>22. ASSUME T!EditInPlace \/ T!Replace \/ T!Delete PROVE ToolsInv' /\ T!WritesWhatWasSeen
  <2>1. CASE T!EditInPlace
    BY <1>1, <1>21, <2>1, BoundsAreNumbers DEF T!EditInPlace, T!Set, ToolTypeOK
  <2>2. CASE T!Replace
    BY <1>1, <1>21, <2>2, BoundsAreNumbers DEF T!Replace, T!Set, ToolTypeOK
  <2>3. CASE T!Delete
    BY <1>1, <1>21, <2>3, BoundsAreNumbers DEF T!Delete, ToolTypeOK
  <2> QED
    BY <1>22, <2>1, <2>2, <2>3
<1>23. CASE T!Permit
  <2>1. /\ permitted' \in BOOLEAN
        /\ UNCHANGED <<file, bytes, inodes, calls, accepted, patches, tested, touched, before, after, handle,
                       text, texts, edits, lease, tasks, at>>
    BY <1>1, <1>23 DEF T!Permit, T!SameDisk, T!SameSession, T!SameEdit, ToolTypeOK
  <2>2. ToolsInv'
    BY <1>1, <2>1 DEF ToolsInv, ToolTypeOK, AgentOK, Seen, Quietly, T!Current, SameOrNew
  <2> QED
    BY <2>1, <2>2 DEF T!WritesWhatWasSeen
<1>24. ASSUME NEW a \in Agents, T!RunCommand(a) PROVE ToolsInv' /\ T!WritesWhatWasSeen
  BY <1>22, <1>24 DEF T!RunCommand
<1> QED
  BY <1>2, <1>3, <1>4, <1>5, <1>6, <1>7, <1>8, <1>9, <1>10, <1>11, <1>12, <1>13, <1>14, <1>15, <1>16, <1>17,
     <1>18, <1>19, <1>20, <1>22, <1>23, <1>24 DEF T!Next

\* What the invariant says about the file and the evidence.
LEMMA ToolsSafe ==
  ASSUME ToolsInv
  PROVE  T!OwnedFileIsAccepted /\ T!EvidenceIsCurrent
BY DEF ToolsInv, AgentOK, Quietly, T!OwnedFileIsAccepted, T!EvidenceIsCurrent

\* Nobody has a tool yet.
LEMMA ToolsStart == T!Init => ToolsInv
<1> SUFFICES ASSUME T!Init PROVE ToolsInv
  OBVIOUS
<1>1. ToolTypeOK
  BY BoundsAreNumbers DEF T!Init, ToolTypeOK, T!None, T!Missing, T!Snapshot, Snapshots
<1>2. \A a \in Agents : AgentOK(a)
  BY DEF T!Init, AgentOK, Seen
<1> QED
  BY <1>1, <1>2 DEF ToolsInv
---------------------------------------------------------------------------
(* The development of a plan *)

Working == {"start"} \cup Coordinated \cup Verifying

\* Slices that are done: those they need are done, and a tester was the last on each.
Judged(results) == \A s \in DOMAIN results : /\ s \in Slices /\ Needs[s] \subseteq DOMAIN results
                                             /\ results[s].last = <<"tester", TRUE>>

\* A run at work holds the lock and works on the plan; one that goes through the slices
\* is the coordinator's; what is reported as ready was tested as it is.
RunOK(r) ==
  /\ "at" \in DOMAIN run[r]
  /\ run[r].at \in Working => "plan" \in DOMAIN run[r] /\ run[r].plan = plan /\ r \in lock
  /\ Executing(r) => "results" \in DOMAIN run[r] /\ Judged(run[r].results) /\ coord.run = r
  /\ run[r].at \in Dispatched \cup {"record"} =>
       /\ "slice" \in DOMAIN run[r] /\ run[r].slice \in Slices
       /\ Needs[run[r].slice] \subseteq DOMAIN run[r].results
  /\ run[r].at = "record" => /\ {"result", "evidence"} \subseteq DOMAIN run[r]
                             /\ run[r].result = "passed" => run[r].evidence.last = <<"tester", TRUE>>
  /\ run[r].at = "check tests" => "same" \in DOMAIN run[r] /\ run[r].same \in BOOLEAN
  /\ run[r].at = "compare" => /\ {"same", "tested"} \subseteq DOMAIN run[r]
                              /\ run[r].same \in BOOLEAN /\ run[r].tested \in BOOLEAN
                              /\ run[r].same => run[r].tested
  /\ run[r].at = "finish" => /\ {"same", "tested", "delivery"} \subseteq DOMAIN run[r]
                             /\ run[r].delivery \in BOOLEAN /\ run[r].tested \in BOOLEAN
                             /\ run[r].delivery => run[r].tested

DeliveredOK ==
  delivered # NoRecord => /\ delivered \in [plan : Nat, ready : BOOLEAN, tested : BOOLEAN, same : BOOLEAN]
                          /\ delivered.ready => delivered.tested /\ delivered.plan = plan

\* While the requirements change nothing is approved, and nobody works on the old plan.
SharedOK ==
  /\ plan \in Nat \ {None} /\ run = [r \in Runs |-> run[r]] /\ "run" \in DOMAIN coord
  /\ saved # NoCheckpoint => Judged(saved.slices)
  /\ DeliveredOK
  /\ change # "none" => approved = None /\ delivered = NoRecord
  /\ change = "generating" => \A r \in Runs : run[r].at \notin Working

DevelopmentInv == SharedOK /\ \A r \in Runs : RunOK(r)
\* A set of slices that is not empty has a first one.
LEMMA FirstIsOne ==
  ASSUME NEW S \in SUBSET Nat, S # {}
  PROVE  First(S) \in S
<1>1. PICK s \in S : TRUE
  OBVIOUS
<1> DEFINE below == {n \in 0..s : \A k \in S : n <= k}
<1>2. below \in SUBSET Nat /\ 0 \in below /\ \A n \in below : n <= s
  OBVIOUS
<1>3. PICK low \in below : \A n \in below : n <= low
  <2> HIDE DEF below
  <2> QED
    BY <1>1, <1>2, LargestExists
<1>4. low \in S
  <2>1. SUFFICES ASSUME low \notin S PROVE FALSE
    OBVIOUS
  <2>2. \A k \in S : low <= k /\ low # k /\ k \in Nat /\ low \in Nat /\ s \in Nat
    BY <1>1, <2>1
  <2>3. \A k \in S : low + 1 <= k
    BY <2>2
  <2>4. low + 1 \in 0..s
    BY <1>1, <2>2, <2>3
  <2>5. low + 1 \in below /\ low \in Nat
    BY <1>1, <2>2, <2>3, <2>4
  <2> HIDE DEF below
  <2> QED
    BY <1>3, <2>5
<1>5. \A k \in S : low <= k
  OBVIOUS
<1> QED
  BY <1>4, <1>5 DEF First

\* A step of one run: what it keeps of itself, all keep.
LEMMA RunTurns ==
  ASSUME DevelopmentInv, NEW r \in Runs, UNCHANGED <<plan, change, approved>>,
         \E new : run' = [run EXCEPT ![r] = new],
         lock \ {r} \subseteq lock',
         "run" \in DOMAIN coord', \A q \in Runs \ {r} : coord.run = q => coord'.run = q,
         saved' = saved \/ Judged(saved'.slices),
         DeliveredOK', delivered' = NoRecord \/ change = "none",
         run'[r].at \in Working => run[r].at \in Working \/ change = "none",
         RunOK(r)'
  PROVE  DevelopmentInv'
<1>1. SharedOK /\ \A q \in Runs : RunOK(q)
  BY DEF DevelopmentInv
<1>2. \A q \in Runs : q # r => run'[q] = run[q]
  BY <1>1 DEF SharedOK
<1>3. SharedOK'
  <2>1. plan' \in Nat \ {None} /\ "run" \in DOMAIN coord'
    BY <1>1 DEF SharedOK
  <2>2. run' = [q \in Runs |-> run'[q]]
    BY <1>1 DEF SharedOK
  <2>3. saved' # NoCheckpoint => Judged(saved'.slices)
    BY <1>1 DEF SharedOK
  <2>4. change' # "none" => approved' = None /\ delivered' = NoRecord
    BY <1>1 DEF SharedOK
  <2>5. change' = "generating" => \A q \in Runs : run'[q].at \notin Working
    BY <1>1, <1>2 DEF SharedOK
  <2> QED
    BY <2>1, <2>2, <2>3, <2>4, <2>5 DEF SharedOK, Judged, Runs, NoRecord, NoCheckpoint
<1>4. ASSUME NEW q \in Runs, q # r PROVE RunOK(q)'
  <2>1. RunOK(q) /\ run'[q] = run[q] /\ plan' = plan /\ (q \in lock => q \in lock')
        /\ (coord.run = q => coord'.run = q)
    BY <1>1, <1>2, <1>4
  <2>2. Judged(run[q].results) => Judged(run'[q].results)
    BY <2>1 DEF Judged
  <2> QED
    BY <2>1, <2>2 DEF RunOK, Executing, Judged
<1> QED
  BY <1>3, <1>4 DEF DevelopmentInv

\* What was reported stays reported, at most of files that are not as they were.
LEMMA OutdatedIsOK ==
  ASSUME DeliveredOK, delivered' = delivered \/ delivered' = Outdated(delivered), plan' = plan
  PROVE  DeliveredOK' /\ (delivered = NoRecord => delivered' = NoRecord)
BY DEF DeliveredOK, Outdated, NoRecord
\* A run that works no more.
LEMMA Leaves ==
  ASSUME DevelopmentInv, NEW r \in Runs, NEW new, run' = [run EXCEPT ![r] = new],
         "at" \in DOMAIN new, new.at \notin Working, UNCHANGED <<plan, change, approved>>,
         lock \ {r} \subseteq lock',
         \/ coord' = coord \/ (coord.run = r /\ coord' = IdleCoordinator)
         \/ \E asks : coord' = [coord EXCEPT !.pause = asks],
         saved' = saved \/ Judged(saved'.slices),
         delivered' = delivered \/ delivered' = Outdated(delivered) \/ delivered' = NoRecord
  PROVE  DevelopmentInv'
<1>1. SharedOK /\ "run" \in DOMAIN coord /\ DeliveredOK
      /\ (delivered = NoRecord \/ change = "none") /\ run'[r] = new
  BY DEF DevelopmentInv, SharedOK
<1>2. DeliveredOK' /\ (delivered' = NoRecord \/ change = "none")
  <2>1. CASE delivered' = NoRecord
    BY <2>1 DEF DeliveredOK, NoRecord
  <2>2. CASE delivered' = delivered \/ delivered' = Outdated(delivered)
    BY <1>1, <2>2, OutdatedIsOK
  <2> QED
    BY <2>1, <2>2
<1>3. "run" \in DOMAIN coord' /\ \A q \in Runs \ {r} : coord.run = q => coord'.run = q
  BY <1>1 DEF IdleCoordinator
<1>4. RunOK(r)'
  BY <1>1 DEF RunOK, Executing, Working, Coordinated, Verifying, Dispatched
<1> QED
  BY <1>1, <1>2, <1>3, <1>4, RunTurns

\* A run fails: the controller's and the coordinator's catch.
LEMMA Fails ==
  ASSUME DevelopmentInv, NEW r \in Runs, Fail(r), UNCHANGED <<plan, change, approved, saved>>,
         lock \ {r} \subseteq lock', delivered' = delivered \/ delivered' = Outdated(delivered)
  PROVE  DevelopmentInv'
<1>1. PICK new : new = [at |-> "release", ready |-> IF run[r].ready = "no" THEN "rejected" ELSE run[r].ready]
  OBVIOUS
<1>2. run' = [run EXCEPT ![r] = new] /\ coord' = Freed(r)
  BY <1>1 DEF Fail
<1>3. "at" \in DOMAIN new /\ new.at \notin Working
  BY <1>1 DEF Working, Coordinated, Verifying, Dispatched
<1>4. coord' = coord \/ (coord.run = r /\ coord' = IdleCoordinator)
  BY <1>2 DEF Freed
<1> QED
  BY <1>2, <1>3, <1>4, Leaves

\* A run goes on through the slices.
LEMMA Goes ==
  ASSUME DevelopmentInv, NEW r \in Runs, Executing(r), NEW new, run' = [run EXCEPT ![r] = new],
         {"at", "plan", "results"} \subseteq DOMAIN new, new.at \in Coordinated, new.plan = run[r].plan,
         Judged(new.results),
         new.at \in Dispatched \cup {"record"} =>
           "slice" \in DOMAIN new /\ new.slice \in Slices /\ Needs[new.slice] \subseteq DOMAIN new.results,
         new.at = "record" => /\ {"result", "evidence"} \subseteq DOMAIN new
                              /\ new.result = "passed" => new.evidence.last = <<"tester", TRUE>>,
         UNCHANGED <<plan, change, approved, coord, lock>>,
         saved' = saved \/ Judged(saved'.slices),
         delivered' = delivered \/ delivered' = Outdated(delivered)
  PROVE  DevelopmentInv'
<1>1. SharedOK /\ "run" \in DOMAIN coord /\ DeliveredOK /\ RunOK(r)
      /\ (delivered = NoRecord \/ change = "none") /\ run'[r] = new
  BY DEF DevelopmentInv, SharedOK
<1>2. DeliveredOK' /\ (delivered' = NoRecord \/ change = "none")
  BY <1>1, OutdatedIsOK
<1>3. run[r].at \in Working /\ coord.run = r /\ r \in lock /\ run[r].plan = plan
  BY <1>1 DEF Executing, Working, RunOK
<1>4. RunOK(r)'
  <2>1. new.at \notin Verifying /\ new.at # "start"
    BY DEF Coordinated, Dispatched, Verifying
  <2> QED
    BY <1>1, <1>3, <2>1 DEF RunOK, Executing, Judged, Verifying
<1> QED
  BY <1>1, <1>2, <1>3, <1>4, RunTurns

\* One round of the executor, from the gate of a slice or after a repair.
LEMMA Rounds ==
  ASSUME DevelopmentInv, NEW r \in Runs, Executing(r), NEW s \in Slices,
         Needs[s] \subseteq DOMAIN run[r].results, NEW n, NEW d, Round(r, s, n, d),
         UNCHANGED <<plan, change, approved, coord, lock, saved>>,
         delivered' = delivered \/ delivered' = Outdated(delivered)
  PROVE  DevelopmentInv'
<1>1. PICK new : new = [at |-> IF Todo(s, there') = {} THEN "test" ELSE "develop",
            ready |-> "yes", plan |-> run[r].plan, results |-> run[r].results,
            slice |-> s, todo |-> Todo(s, there'), attempt |-> n, developer |-> d]
  OBVIOUS
<1>2. run' = [run EXCEPT ![r] = new]
  BY <1>1 DEF Round
<1>3. /\ {"at", "plan", "results", "slice"} \subseteq DOMAIN new /\ new.at \in {"test", "develop"}
      /\ new.plan = run[r].plan /\ new.results = run[r].results /\ new.slice = s
  BY <1>1
<1>4. Judged(new.results)
  BY <1>3 DEF DevelopmentInv, RunOK
<1> QED
  BY <1>2, <1>3, <1>4, Goes DEF Coordinated, Dispatched

\* The end of a slice.
LEMMA Dones ==
  ASSUME DevelopmentInv, NEW r \in Runs, Dispatching(r), NEW result, NEW evidence,
         Done(r, result, evidence), result = "passed" => evidence.last = <<"tester", TRUE>>,
         UNCHANGED <<plan, change, approved, coord, lock, saved>>,
         delivered' = delivered \/ delivered' = Outdated(delivered)
  PROVE  DevelopmentInv'
<1>1. PICK new : new = [at |-> "record", ready |-> "yes", plan |-> run[r].plan,
            results |-> run[r].results, slice |-> run[r].slice, result |-> result, evidence |-> evidence]
  OBVIOUS
<1>2. run' = [run EXCEPT ![r] = new]
  BY <1>1 DEF Done
<1>3. Executing(r) /\ RunOK(r)
  BY DEF Dispatching, Executing, Coordinated, DevelopmentInv
<1>4. /\ {"at", "plan", "results", "slice", "result", "evidence"} \subseteq DOMAIN new /\ new.at = "record"
      /\ new.plan = run[r].plan /\ new.results = run[r].results /\ new.slice = run[r].slice
      /\ new.result = result /\ new.evidence = evidence
  BY <1>1
<1>5. Judged(new.results) /\ new.slice \in Slices /\ Needs[new.slice] \subseteq DOMAIN new.results
  BY <1>3, <1>4 DEF RunOK, Dispatching
<1> QED
  BY <1>2, <1>3, <1>4, <1>5, Goes DEF Coordinated

\* What is done about a dispatch that did not go well.
LEMMA Handles ==
  ASSUME DevelopmentInv, NEW r \in Runs, Dispatching(r), NEW role, NEW bad, Handle(r, role, bad),
         UNCHANGED <<plan, change, approved, coord, lock, saved>>,
         delivered' = delivered \/ delivered' = Outdated(delivered)
  PROVE  DevelopmentInv'
<1>1. /\ Executing(r) /\ RunOK(r) /\ run[r].slice \in Slices
      /\ Needs[run[r].slice] \subseteq DOMAIN run[r].results /\ Judged(run[r].results)
  BY DEF Dispatching, Executing, Coordinated, DevelopmentInv, RunOK
<1>2. CASE Decide(bad.wrong, run[r].attempt) = "retry"
  <2>1. Round(r, run[r].slice, run[r].attempt + 1, run[r].developer)
    BY <1>2 DEF Handle
  <2>2. PICK s \in Slices : s = run[r].slice
    BY <1>1
  <2>3. PICK n : n = run[r].attempt + 1
    OBVIOUS
  <2>4. PICK d : d = run[r].developer
    OBVIOUS
  <2>5. Round(r, s, n, d) /\ Needs[s] \subseteq DOMAIN run[r].results
    BY <1>1, <2>1, <2>2, <2>3, <2>4
  <2> QED
    BY <1>1, <2>5, Rounds
<1>3. CASE Decide(bad.wrong, run[r].attempt) = "repair"
  <2>1. PICK new : new = [at |-> "fix", ready |-> "yes", plan |-> run[r].plan,
                          results |-> run[r].results, slice |-> run[r].slice,
                          attempt |-> run[r].attempt + 1, developer |-> run[r].developer,
                          of |-> <<role, bad.end>>]
    OBVIOUS
  <2>2. run' = [run EXCEPT ![r] = new]
    BY <1>3, <2>1 DEF Handle
  <2>3. /\ {"at", "plan", "results", "slice"} \subseteq DOMAIN new /\ new.at = "fix"
        /\ new.plan = run[r].plan /\ new.results = run[r].results /\ new.slice = run[r].slice
    BY <2>1
  <2> QED
    BY <1>1, <2>2, <2>3, Goes DEF Coordinated, Dispatched
<1>4. CASE Decide(bad.wrong, run[r].attempt) \notin {"retry", "repair"}
  <2>1. Done(r, "stopped", NoEvidence)
    BY <1>4 DEF Handle, Stopped
  <2>2. PICK result : result = "stopped"
    OBVIOUS
  <2>3. PICK evidence : evidence = NoEvidence
    OBVIOUS
  <2>4. Done(r, result, evidence) /\ result # "passed"
    BY <2>1, <2>2, <2>3
  <2> QED
    BY <2>4, Dones
<1> QED
  BY <1>2, <1>3, <1>4
\* The controller's steps: resume and what follows it, and the end of a run.
LEMMA ControllerKeeps ==
  ASSUME DevelopmentInv, NEW r \in Runs, Controller(r)
  PROVE  DevelopmentInv'
<1>1. SharedOK /\ RunOK(r) /\ "at" \in DOMAIN run[r] /\ "run" \in DOMAIN coord
  BY DEF DevelopmentInv, RunOK, SharedOK
<1>2. CASE Resume(r)
  <2>1. PICK new : new = [at |-> "before", ready |-> "no"]
    OBVIOUS
  <2>2. /\ run' = [run EXCEPT ![r] = new] /\ "at" \in DOMAIN new /\ new.at \notin Working
        /\ UNCHANGED <<plan, change, approved, lock, coord, saved, delivered>>
    BY <1>2, <2>1 DEF Resume, durable, host, Working, Coordinated, Verifying, Dispatched
  <2> QED
    BY <2>2, Leaves
<1>3. CASE Begin(r)
  <2>1. UNCHANGED <<plan, change, approved, lock, coord, saved, delivered>>
    BY <1>3 DEF Begin, durable
  <2>2. PICK new : /\ run' = [run EXCEPT ![r] = new]
                   /\ new = Over \/ new = [run[r] EXCEPT !.at = "load"]
    BY <1>3 DEF Begin, Go
  <2>3. "at" \in DOMAIN new /\ new.at \in {"over", "load"}
    <3>1. CASE new = Over
      BY <3>1 DEF Over
    <3>2. CASE new = [run[r] EXCEPT !.at = "load"]
      BY <1>1, <3>2
    <3> QED
      BY <2>2, <3>1, <3>2
  <2>4. new.at \notin Working
    BY <2>3 DEF Working, Coordinated, Verifying, Dispatched
  <2> QED
    BY <2>1, <2>2, <2>3, <2>4, Leaves
<1>4. CASE Load(r)
  <2>1. UNCHANGED <<plan, change, approved, saved, delivered>> /\ lock \ {r} \subseteq lock'
    BY <1>4 DEF Load, durable
  <2>2. CASE Fail(r)
    BY <2>1, <2>2, Fails
  <2>3. CASE ~Fail(r)
    <3>1. PICK new : new = [at |-> "start", ready |-> "no", plan |-> plan]
      OBVIOUS
    <3>2. /\ run' = [run EXCEPT ![r] = new] /\ coord' = coord /\ Fresh /\ lock' = lock \cup {r}
      BY <1>4, <2>3, <3>1 DEF Load
    <3>3. change = "none"
      BY <1>1, <3>2 DEF SharedOK, Fresh
    <3>4. run'[r] = new /\ {"at", "plan"} \subseteq DOMAIN new /\ new.at = "start" /\ new.plan = plan
      BY <1>1, <3>1, <3>2 DEF SharedOK
    <3>5. RunOK(r)'
      BY <2>1, <3>2, <3>4 DEF RunOK, Executing, Working, Coordinated, Verifying, Dispatched
    <3>6. DeliveredOK' /\ "run" \in DOMAIN coord'
      BY <1>1, <2>1, <3>2 DEF SharedOK, DeliveredOK, NoRecord
    <3> QED
      BY <2>1, <3>2, <3>3, <3>5, <3>6, RunTurns
  <2> QED
    BY <2>2, <2>3
<1>5. CASE Start(r)
  <2>0. CASE Fail(r)
    BY <1>5, <2>0, Fails DEF Start, durable
  <2>1. UNCHANGED <<plan, change, approved, saved, delivered, lock>> /\ run[r].at = "start"
    BY <1>5 DEF Start, durable
  <2>2. CASE ~Fail(r) /\ Free /\ Resumable(saved, run[r].plan)
    <3>1. PICK new : new = [at |-> "gate", ready |-> "yes", plan |-> run[r].plan,
                            results |-> IF saved = NoCheckpoint THEN << >> ELSE saved.slices]
      OBVIOUS
    <3>2. /\ run' = [run EXCEPT ![r] = new] /\ coord.run = None
          /\ coord' = [run |-> r, pause |-> ctl.pause \/ ctl.closed]
      BY <1>5, <2>2, <3>1 DEF Start, Free
    <3>3. Judged(new.results)
      <4>1. CASE saved = NoCheckpoint
        <5>1. new.results = << >> /\ DOMAIN << >> = {}
          BY <3>1, <4>1
        <5> QED
          BY <5>1 DEF Judged
      <4>2. CASE saved # NoCheckpoint
        BY <1>1, <3>1, <4>2 DEF SharedOK
      <4> QED
        BY <4>1, <4>2
    <3>4. run'[r] = new /\ "run" \in DOMAIN coord' /\ coord'.run = r
      BY <1>1, <3>2 DEF SharedOK
    <3>5. /\ {"at", "plan", "results"} \subseteq DOMAIN new /\ new.at = "gate" /\ new.plan = run[r].plan
      BY <3>1
    <3>6. run[r].at \in Working /\ run[r].plan = plan /\ r \in lock
      BY <1>1, <2>1 DEF RunOK, Working
    <3>7. RunOK(r)'
      BY <2>1, <3>3, <3>4, <3>5, <3>6 DEF RunOK, Executing, Working, Judged, Coordinated, Verifying, Dispatched
    <3>8. DeliveredOK' /\ (delivered' = NoRecord \/ change = "none")
      BY <1>1, <2>1 DEF SharedOK, DeliveredOK, NoRecord
    <3>9. \A q \in Runs \ {r} : coord.run = q => coord'.run = q
      BY <3>2, BoundsAreNumbers DEF Runs, None
    <3> QED
      BY <2>1, <3>2, <3>4, <3>6, <3>7, <3>8, <3>9, RunTurns
  <2>3. CASE ~Fail(r) /\ ~(Free /\ Resumable(saved, run[r].plan))
    <3>1. PICK new : new = [at |-> "release", ready |-> "yes"]
      OBVIOUS
    <3>2. /\ run' = [run EXCEPT ![r] = new]
          /\ coord' = coord \/ \E asks : coord' = [coord EXCEPT !.pause = asks]
      BY <1>5, <2>3, <3>1 DEF Start, Ends
    <3>3. "at" \in DOMAIN new /\ new.at \notin Working
      BY <3>1 DEF Working, Coordinated, Verifying, Dispatched
    <3> QED
      BY <2>1, <3>2, <3>3, Leaves
  <2> QED
    BY <2>0, <2>2, <2>3
<1>6. CASE Release(r)
  <2>1. PICK new : new = [run[r] EXCEPT !.at = "over"]
    OBVIOUS
  <2>2. /\ run' = [run EXCEPT ![r] = new] /\ lock' = lock \ {r}
        /\ UNCHANGED <<plan, change, approved, coord, saved, delivered>>
    BY <1>6, <2>1 DEF Release, durable
  <2>3. "at" \in DOMAIN new /\ new.at \notin Working
    BY <1>1, <2>1 DEF Working, Coordinated, Verifying, Dispatched
  <2> QED
    BY <2>2, <2>3, Leaves
<1> QED
  BY <1>2, <1>3, <1>4, <1>5, <1>6 DEF Controller

\* The end of what the coordinator does: the last check, or none.
LEMMA Settles ==
  ASSUME DevelopmentInv, NEW r \in Runs, Executing(r), NEW result, Settle(r, result),
         UNCHANGED <<plan, change, approved, lock, delivered>>,
         saved' = saved \/ Judged(saved'.slices)
  PROVE  DevelopmentInv'
<1>1. SharedOK /\ RunOK(r) /\ "at" \in DOMAIN run[r] /\ coord.run = r /\ coord' = IdleCoordinator
  BY DEF DevelopmentInv, RunOK, SharedOK, Settle
<1>2. PICK to \in {"begin", "release"} : run' = [run EXCEPT ![r] = [run[r] EXCEPT !.at = to]]
  BY DEF Settle, Go
<1>3. PICK new : new = [run[r] EXCEPT !.at = to]
  OBVIOUS
<1>4. run' = [run EXCEPT ![r] = new] /\ "at" \in DOMAIN new /\ new.at = to
  BY <1>1, <1>2, <1>3
<1>5. CASE to = "release"
  <2>1. new.at \notin Working
    BY <1>4, <1>5 DEF Working, Coordinated, Verifying, Dispatched
  <2> QED
    BY <1>1, <1>4, <2>1, Leaves
<1>6. CASE to = "begin"
  <2>1. run[r].at \in Working /\ "plan" \in DOMAIN run[r] /\ run[r].plan = plan /\ r \in lock
    BY <1>1 DEF RunOK, Executing, Working
  <2>2. run'[r] = new /\ "plan" \in DOMAIN new /\ new.plan = plan
    BY <1>1, <1>3, <1>4, <2>1 DEF SharedOK
  <2>3. RunOK(r)'
    BY <1>4, <1>6, <2>1, <2>2 DEF RunOK, Executing, Working, Coordinated, Verifying, Dispatched
  <2>4. DeliveredOK' /\ (delivered' = NoRecord \/ change = "none") /\ "run" \in DOMAIN coord'
    BY <1>1 DEF SharedOK, DeliveredOK, NoRecord, IdleCoordinator
  <2>5. \A q \in Runs \ {r} : coord.run = q => coord'.run = q
    BY <1>1
  <2> QED
    BY <1>4, <2>1, <2>3, <2>4, <2>5, RunTurns
<1> QED
  BY <1>5, <1>6

\* The coordinator's steps: the gate, the next slice, the record of one.
LEMMA CoordinatorKeeps ==
  ASSUME DevelopmentInv, NEW r \in Runs, Coordinator(r)
  PROVE  DevelopmentInv'
<1>1. SharedOK /\ RunOK(r) /\ "at" \in DOMAIN run[r] /\ "run" \in DOMAIN coord
  BY DEF DevelopmentInv, RunOK, SharedOK
<1>2. Executing(r)
  BY DEF Coordinator, Gate, NextSlice, Record, Executing, Coordinated
<1>3. /\ "results" \in DOMAIN run[r] /\ Judged(run[r].results) /\ coord.run = r
      /\ "plan" \in DOMAIN run[r]
  BY <1>1, <1>2 DEF RunOK, Executing, Working
<1>4. CASE Gate(r)
  <2>1. UNCHANGED <<plan, change, approved, lock, delivered>>
    BY <1>4 DEF Gate
  <2>2. CASE Fresh /\ Saved(r, run[r].results) /\ Go(r, "next") /\ UNCHANGED <<status, coord>>
    <3>1. PICK new : new = [run[r] EXCEPT !.at = "next"]
      OBVIOUS
    <3>2. run' = [run EXCEPT ![r] = new] /\ saved' = [plan |-> run[r].plan, slices |-> run[r].results]
      BY <2>2, <3>1 DEF Go, Saved
    <3>3. /\ {"at", "plan", "results"} \subseteq DOMAIN new /\ new.at = "next" /\ new.plan = run[r].plan
          /\ new.results = run[r].results
      BY <1>1, <1>3, <3>1
    <3>4. saved'.slices = run[r].results
      BY <3>2
    <3>5. Judged(saved'.slices) /\ Judged(new.results)
      BY <1>3, <3>3, <3>4
    <3> QED
      BY <1>2, <2>1, <2>2, <3>2, <3>3, <3>5, Goes DEF Coordinated, Dispatched
  <2>3. CASE Fail(r) /\ UNCHANGED saved
    BY <2>1, <2>3, Fails
  <2> QED
    BY <1>4, <2>2, <2>3 DEF Gate
<1>5. CASE NextSlice(r)
  <2>1. UNCHANGED <<plan, change, approved, lock, delivered, saved>>
    BY <1>5 DEF NextSlice, durable
  <2>2. CASE Settle(r, "passed") \/ Settle(r, "stopped")
    <3>1. PICK result : Settle(r, result)
      BY <2>2
    <3> QED
      BY <1>2, <2>1, <3>1, Settles
  <2>3. CASE ~(Settle(r, "passed") \/ Settle(r, "stopped")) /\ ~Fail(r)
    <3>1. PICK s : s = First(Remaining(r))
      OBVIOUS
    <3>2. /\ Remaining(r) # {} /\ Needs[s] \subseteq DOMAIN run[r].results
          /\ Round(r, s, 0, FALSE) /\ coord' = coord
      BY <1>5, <2>3, <3>1 DEF NextSlice
    <3>3. s \in Slices
      <4>1. Remaining(r) \in SUBSET Nat
        BY BoundsAreNumbers DEF Remaining
      <4>2. s \in Remaining(r)
        BY <3>1, <3>2, <4>1, FirstIsOne
      <4> QED
        BY <4>2 DEF Remaining
    <3>4. PICK n, d : n = 0 /\ d = FALSE
      OBVIOUS
    <3>5. Round(r, s, n, d)
      BY <3>2, <3>4
    <3> QED
      BY <1>2, <2>1, <3>2, <3>3, <3>5, Rounds
  <2>4. CASE Fail(r)
    BY <2>1, <2>4, Fails
  <2> QED
    BY <2>2, <2>3, <2>4
<1>6. CASE Record(r)
  <2>1. UNCHANGED <<plan, change, approved, lock, delivered>> /\ run[r].at = "record"
    BY <1>6 DEF Record
  <2>2. PICK results : results = IF run[r].result = "passed" THEN Extended(r) ELSE run[r].results
    OBVIOUS
  <2>3. Judged(results)
    <3>1. CASE run[r].result = "passed"
      <4>1. /\ run[r].slice \in Slices /\ Needs[run[r].slice] \subseteq DOMAIN run[r].results
            /\ run[r].evidence.last = <<"tester", TRUE>>
        BY <1>1, <2>1, <3>1 DEF RunOK
      <4>2. /\ DOMAIN results = DOMAIN run[r].results \cup {run[r].slice}
            /\ \A s \in DOMAIN results : results[s] = IF s = run[r].slice THEN run[r].evidence ELSE run[r].results[s]
        BY <2>2, <3>1 DEF Extended
      <4> QED
        BY <1>3, <4>1, <4>2 DEF Judged
    <3>2. CASE run[r].result # "passed"
      BY <1>3, <2>2, <3>2
    <3> QED
      BY <3>1, <3>2
  <2>4. CASE /\ Saved(r, results)
             /\ IF run[r].result = "passed"
                THEN /\ run' = [run EXCEPT ![r] = [at |-> "next", ready |-> "yes", plan |-> run[r].plan, results |-> results]]
                     /\ UNCHANGED <<status, coord>>
                ELSE Settle(r, run[r].result)
    <3>1. saved' = [plan |-> run[r].plan, slices |-> results]
      BY <2>4 DEF Saved
    <3>2. saved'.slices = results
      BY <3>1
    <3>3. Judged(saved'.slices)
      BY <2>3, <3>2
    <3>4. CASE run[r].result = "passed"
      <4>1. PICK new : new = [at |-> "next", ready |-> "yes", plan |-> run[r].plan, results |-> results]
        OBVIOUS
      <4>2. run' = [run EXCEPT ![r] = new] /\ coord' = coord
        BY <2>4, <3>4, <4>1
      <4>3. /\ {"at", "plan", "results"} \subseteq DOMAIN new /\ new.at = "next" /\ new.plan = run[r].plan
            /\ new.results = results
        BY <4>1
      <4> QED
        BY <1>2, <2>1, <2>3, <3>3, <4>2, <4>3, Goes DEF Coordinated, Dispatched
    <3>5. CASE run[r].result # "passed"
      <4>1. PICK result : result = run[r].result
        OBVIOUS
      <4>2. Settle(r, result)
        BY <2>4, <3>5, <4>1
      <4> QED
        BY <1>2, <2>1, <3>3, <4>2, Settles
    <3> QED
      BY <3>4, <3>5
  <2>5. CASE Fail(r) /\ UNCHANGED saved
    BY <2>1, <2>5, Fails
  <2> QED
    BY <1>6, <2>2, <2>4, <2>5 DEF Record
<1> QED
  BY <1>4, <1>5, <1>6 DEF Coordinator
\* The executor's steps: the dispatches of a slice.
LEMMA ExecutorKeeps ==
  ASSUME DevelopmentInv, NEW r \in Runs, Executor(r)
  PROVE  DevelopmentInv'
<1>1. RunOK(r) /\ "at" \in DOMAIN run[r] /\ Dispatching(r) /\ Executing(r)
  BY DEF DevelopmentInv, RunOK, Executor, Develop, Test, Fix, Retest, Dispatching, Dispatched, Executing, Coordinated
<1>2. /\ {"at", "plan", "results", "slice"} \subseteq DOMAIN run[r] /\ Judged(run[r].results)
      /\ run[r].slice \in Slices /\ Needs[run[r].slice] \subseteq DOMAIN run[r].results
  BY <1>1 DEF RunOK, Executing, Dispatching, Working
<1>3. UNCHANGED <<plan, change, approved, lock, saved>>
  BY DEF Executor, Develop, Test, Fix, Retest, durable, host
<1>4. delivered' = delivered \/ delivered' = Outdated(delivered)
  BY DEF Executor, Develop, Test, Fix, Retest, durable, Writes
<1>5. ASSUME NEW n, NEW d, Round(r, run[r].slice, n, d), UNCHANGED coord PROVE DevelopmentInv'
  <2>1. PICK s \in Slices : s = run[r].slice
    BY <1>2
  <2>2. Round(r, s, n, d) /\ Needs[s] \subseteq DOMAIN run[r].results
    BY <1>2, <1>5, <2>1
  <2> QED
    BY <1>1, <1>3, <1>4, <1>5, <2>2, Rounds
<1>6. ASSUME NEW new, run' = [run EXCEPT ![r] = new], {"at", "plan", "results", "slice"} \subseteq DOMAIN new,
             new.at \in Dispatched, new.plan = run[r].plan, new.results = run[r].results,
             new.slice = run[r].slice, UNCHANGED coord
      PROVE  DevelopmentInv'
  <2>1. new.at \in Coordinated /\ new.at # "record"
    BY <1>6 DEF Coordinated, Dispatched
  <2> QED
    BY <1>1, <1>2, <1>3, <1>4, <1>6, <2>1, Goes
<1>7. ASSUME Passed(r, <<"tester", TRUE>>), UNCHANGED coord PROVE DevelopmentInv'
  <2>1. PICK evidence : evidence = [developer |-> run[r].developer, last |-> <<"tester", TRUE>>]
    OBVIOUS
  <2>2. PICK result : result = "passed"
    OBVIOUS
  <2>3. Done(r, result, evidence) /\ evidence.last = <<"tester", TRUE>>
    BY <1>7, <2>1, <2>2 DEF Passed
  <2> QED
    BY <1>1, <1>3, <1>4, <1>7, <2>3, Dones
<1>8. ASSUME Stopped(r), UNCHANGED coord PROVE DevelopmentInv'
  <2>1. PICK evidence : evidence = NoEvidence
    OBVIOUS
  <2>2. PICK result : result = "stopped"
    OBVIOUS
  <2>3. Done(r, result, evidence) /\ result # "passed"
    BY <1>8, <2>1, <2>2 DEF Stopped
  <2> QED
    BY <1>1, <1>3, <1>4, <1>8, <2>3, Dones
<1>9. ASSUME NEW role, NEW bad, Handle(r, role, bad), UNCHANGED coord PROVE DevelopmentInv'
  BY <1>1, <1>3, <1>4, <1>9, Handles
<1>10. CASE Develop(r)
  <2>1. UNCHANGED coord
    BY <1>10 DEF Develop, host
  <2>2. CASE \E bad \in Refusals : Handle(r, "developer", bad)
    <3>1. PICK bad \in Refusals : Handle(r, "developer", bad)
      BY <2>2
    <3>2. PICK role : role = "developer"
      OBVIOUS
    <3> QED
      BY <1>9, <2>1, <3>1, <3>2
  <2>3. CASE ~\E bad \in Refusals : Handle(r, "developer", bad)
    <3>1. PICK rest : rest = run[r].todo \ {First(run[r].todo)}
      OBVIOUS
    <3>2. PICK new : new = [run[r] EXCEPT !.at = IF rest = {} THEN "test" ELSE "develop", !.todo = rest, !.developer = TRUE]
      OBVIOUS
    <3>3. run' = [run EXCEPT ![r] = new]
      BY <1>10, <2>3, <3>1, <3>2 DEF Develop
    <3>4. /\ {"at", "plan", "results", "slice"} \subseteq DOMAIN new /\ new.at \in Dispatched
          /\ new.plan = run[r].plan /\ new.results = run[r].results /\ new.slice = run[r].slice
      BY <1>2, <3>2 DEF Dispatched
    <3> QED
      BY <1>6, <2>1, <3>3, <3>4
  <2> QED
    BY <2>2, <2>3
<1>11. CASE Test(r)
  <2>1. UNCHANGED coord
    BY <1>11 DEF Test, host
  <2>2. CASE \E bad \in Refusals : Handle(r, "tester", bad)
    <3>1. PICK bad \in Refusals : Handle(r, "tester", bad)
      BY <2>2
    <3>2. PICK role : role = "tester"
      OBVIOUS
    <3> QED
      BY <1>9, <2>1, <3>1, <3>2
  <2> QED
    BY <1>7, <1>11, <2>1, <2>2 DEF Test
<1>12. CASE Fix(r)
  <2>1. ASSUME IF run[r].of = <<"tester", "refused">>
               THEN run' = [run EXCEPT ![r].at = "retest"]
               ELSE Round(r, run[r].slice, run[r].attempt, run[r].developer), UNCHANGED coord
        PROVE  DevelopmentInv'
    <3>1. CASE run[r].of = <<"tester", "refused">>
      <4>1. PICK new : new = [run[r] EXCEPT !.at = "retest"]
        OBVIOUS
      <4>2. run' = [run EXCEPT ![r] = new]
        BY <2>1, <3>1, <4>1
      <4>3. /\ {"at", "plan", "results", "slice"} \subseteq DOMAIN new /\ new.at \in Dispatched
            /\ new.plan = run[r].plan /\ new.results = run[r].results /\ new.slice = run[r].slice
        BY <1>2, <4>1 DEF Dispatched
      <4> QED
        BY <1>6, <2>1, <4>2, <4>3
    <3>2. CASE run[r].of # <<"tester", "refused">>
      BY <1>5, <2>1, <3>2
    <3> QED
      BY <3>1, <3>2
  <2>2. ASSUME Fail(r) PROVE DevelopmentInv'
    BY <1>3, <1>4, <2>2, Fails
  <2> QED
    BY <1>8, <1>12, <2>1, <2>2 DEF Fix
<1>13. CASE Retest(r)
  <2>1. ASSUME Fail(r) PROVE DevelopmentInv'
    BY <1>3, <1>4, <2>1, Fails
  <2> QED
    BY <1>5, <1>7, <1>8, <1>13, <2>1 DEF Retest
<1> QED
  BY <1>10, <1>11, <1>12, <1>13 DEF Executor

\* The last check: what it reports as ready was tested as it is.
LEMMA FinalCheckKeeps ==
  ASSUME DevelopmentInv, NEW r \in Runs, FinalCheck(r)
  PROVE  DevelopmentInv'
<1>1. SharedOK /\ RunOK(r) /\ "at" \in DOMAIN run[r] /\ "run" \in DOMAIN coord /\ DeliveredOK
  BY DEF DevelopmentInv, RunOK, SharedOK
<1>2. /\ run[r].at \in Verifying /\ run[r].at \in Working /\ "plan" \in DOMAIN run[r]
      /\ run[r].plan = plan /\ r \in lock /\ UNCHANGED <<plan, change, approved, lock, saved>>
  BY <1>1 DEF FinalCheck, BeginFinal, CheckTests, Compare, Finish, Verifying, Working, RunOK, durable, host
<1>3. ASSUME NEW new, run' = [run EXCEPT ![r] = new], {"at", "plan"} \subseteq DOMAIN new, new.plan = plan,
             new.at \in Verifying, UNCHANGED coord, delivered' = delivered \/ delivered' = NoRecord,
             new.at = "check tests" => "same" \in DOMAIN new /\ new.same \in BOOLEAN,
             new.at = "compare" => /\ {"same", "tested"} \subseteq DOMAIN new
                                   /\ new.same \in BOOLEAN /\ new.tested \in BOOLEAN
                                   /\ new.same => new.tested,
             new.at = "finish" => /\ {"same", "tested", "delivery"} \subseteq DOMAIN new
                                  /\ new.delivery \in BOOLEAN /\ new.tested \in BOOLEAN
                                  /\ new.delivery => new.tested
      PROVE  DevelopmentInv'
  <2>1. run'[r] = new
    BY <1>1, <1>3 DEF SharedOK
  <2>2. new.at \notin Coordinated /\ new.at \notin Dispatched \cup {"record"}
    BY <1>3 DEF Verifying, Coordinated, Dispatched
  <2>3. RunOK(r)'
    <3>1. ~Executing(r)' /\ run'[r].at \notin Dispatched \cup {"record"} /\ run'[r].at # "record"
      BY <2>1, <2>2 DEF Executing
    <3>2. "at" \in DOMAIN run'[r] /\ "plan" \in DOMAIN run'[r] /\ run'[r].plan = plan' /\ r \in lock'
      BY <1>2, <1>3, <2>1
    <3>3. run'[r].at = "check tests" => "same" \in DOMAIN run'[r] /\ run'[r].same \in BOOLEAN
      BY <1>3, <2>1
    <3>4. run'[r].at = "compare" => /\ {"same", "tested"} \subseteq DOMAIN run'[r]
                                    /\ run'[r].same \in BOOLEAN /\ run'[r].tested \in BOOLEAN
                                    /\ run'[r].same => run'[r].tested
      BY <1>3, <2>1
    <3>5. run'[r].at = "finish" => /\ {"same", "tested", "delivery"} \subseteq DOMAIN run'[r]
                                   /\ run'[r].delivery \in BOOLEAN /\ run'[r].tested \in BOOLEAN
                                   /\ run'[r].delivery => run'[r].tested
      BY <1>3, <2>1
    <3> QED
      BY <3>1, <3>2, <3>3, <3>4, <3>5 DEF RunOK
  <2>4. DeliveredOK' /\ (delivered' = NoRecord \/ change = "none")
    BY <1>1, <1>2, <1>3 DEF SharedOK, DeliveredOK, NoRecord
  <2>5. "run" \in DOMAIN coord' /\ \A q \in Runs \ {r} : coord.run = q => coord'.run = q
    BY <1>1, <1>3
  <2> QED
    BY <1>2, <1>3, <2>3, <2>4, <2>5, RunTurns
<1>4. ASSUME NEW result, Ends(r, result), UNCHANGED coord, delivered' = delivered \/ delivered' = NoRecord
      PROVE  DevelopmentInv'
  <2>1. PICK new : new = [at |-> "release", ready |-> "yes"]
    OBVIOUS
  <2>2. run' = [run EXCEPT ![r] = new] /\ "at" \in DOMAIN new /\ new.at \notin Working
    BY <1>4, <2>1 DEF Ends, Working, Coordinated, Verifying, Dispatched
  <2> QED
    BY <1>2, <1>4, <2>2, Leaves
<1>5. CASE BeginFinal(r)
  <2>1. CASE Fail(r) /\ UNCHANGED <<phase, delivered>>
    BY <1>2, <2>1, Fails
  <2>2. CASE ~(Fail(r) /\ UNCHANGED <<phase, delivered>>)
    <3>1. delivered' = NoRecord /\ coord' = coord
      BY <1>5, <2>2 DEF BeginFinal
    <3>2. CASE Tasks \subseteq there
      <4>1. PICK new : new = [at |-> "check tests", ready |-> "yes", plan |-> run[r].plan, same |-> TRUE]
        OBVIOUS
      <4>2. run' = [run EXCEPT ![r] = new]
        BY <1>5, <2>2, <3>2, <4>1 DEF BeginFinal
      <4>3. {"at", "plan", "same"} \subseteq DOMAIN new /\ new.at = "check tests" /\ new.plan = plan /\ new.same = TRUE
        BY <1>2, <4>1
      <4> QED
        BY <1>3, <3>1, <4>2, <4>3 DEF Verifying
    <3>3. CASE ~(Tasks \subseteq there)
      <4>1. PICK result : result = "stopped"
        OBVIOUS
      <4>2. Ends(r, result)
        BY <1>5, <2>2, <3>3, <4>1 DEF BeginFinal
      <4> QED
        BY <1>4, <3>1, <4>2
    <3> QED
      BY <3>2, <3>3
  <2> QED
    BY <2>1, <2>2
<1>6. CASE CheckTests(r)
  <2>1. PICK verdict \in {"passed", "failed"} :
          run' = [run EXCEPT ![r] = [at |-> "compare", ready |-> "yes", plan |-> run[r].plan, same |-> run[r].same,
                                     verdict |-> verdict, tested |-> run[r].same]]
    BY <1>6 DEF CheckTests
  <2>2. PICK new : new = [at |-> "compare", ready |-> "yes", plan |-> run[r].plan, same |-> run[r].same,
                          verdict |-> verdict, tested |-> run[r].same]
    OBVIOUS
  <2>3. run' = [run EXCEPT ![r] = new] /\ coord' = coord /\ delivered' = delivered
    BY <1>6, <2>1, <2>2 DEF CheckTests, durable, host
  <2>4. run[r].same \in BOOLEAN
    BY <1>1, <1>6 DEF RunOK, CheckTests
  <2>5. /\ {"at", "plan", "same", "tested"} \subseteq DOMAIN new /\ new.at = "compare" /\ new.plan = plan
        /\ new.same = run[r].same /\ new.tested = run[r].same
    BY <1>2, <2>2
  <2> QED
    BY <1>3, <2>3, <2>4, <2>5 DEF Verifying
<1>7. CASE Compare(r)
  <2>1. PICK ready \in BOOLEAN :
          /\ run' = [run EXCEPT ![r] = [at |-> "finish", ready |-> "yes", plan |-> run[r].plan, same |-> run[r].same,
                                        tested |-> run[r].tested, delivery |-> ready]]
          /\ ready => run[r].same
    BY <1>7 DEF Compare, Unchanged
  <2>2. PICK new : new = [at |-> "finish", ready |-> "yes", plan |-> run[r].plan, same |-> run[r].same,
                          tested |-> run[r].tested, delivery |-> ready]
    OBVIOUS
  <2>3. run' = [run EXCEPT ![r] = new] /\ coord' = coord /\ delivered' = delivered
    BY <1>7, <2>1, <2>2 DEF Compare, durable, host
  <2>4. run[r].tested \in BOOLEAN /\ (run[r].same => run[r].tested)
    BY <1>1, <1>7 DEF RunOK, Compare
  <2>5. /\ {"at", "plan", "same", "tested", "delivery"} \subseteq DOMAIN new /\ new.at = "finish" /\ new.plan = plan
        /\ new.tested = run[r].tested /\ new.delivery = ready
    BY <1>2, <2>2
  <2> QED
    BY <1>3, <2>1, <2>3, <2>4, <2>5 DEF Verifying
<1>8. CASE Finish(r)
  <2>1. CASE Fail(r) /\ UNCHANGED <<phase, delivered>>
    BY <1>2, <2>1, Fails
  <2>2. CASE ~(Fail(r) /\ UNCHANGED <<phase, delivered>>)
    <3>1. /\ delivered' = [plan |-> run[r].plan, ready |-> run[r].delivery, tested |-> run[r].tested, same |-> TRUE]
          /\ Fresh /\ coord' = coord /\ run' = [run EXCEPT ![r] = [at |-> "release", ready |-> "yes"]]
      BY <1>8, <2>2 DEF Finish, Ends
    <3>2. change = "none"
      BY <1>1, <3>1 DEF SharedOK, Fresh
    <3>3. run[r].delivery \in BOOLEAN /\ run[r].tested \in BOOLEAN /\ (run[r].delivery => run[r].tested)
      BY <1>1, <1>8 DEF RunOK, Finish
    <3>4. DeliveredOK'
      BY <1>1, <1>2, <3>1, <3>3 DEF DeliveredOK, SharedOK, NoRecord
    <3>5. PICK new : new = [at |-> "release", ready |-> "yes"]
      OBVIOUS
    <3>6. run' = [run EXCEPT ![r] = new] /\ "at" \in DOMAIN new /\ new.at \notin Working
      BY <3>1, <3>5 DEF Working, Coordinated, Verifying, Dispatched
    <3>7. run'[r] = new
      BY <1>1, <3>6 DEF SharedOK
    <3>8. RunOK(r)'
      BY <3>6, <3>7 DEF RunOK, Executing, Working, Coordinated, Verifying, Dispatched
    <3>9. "run" \in DOMAIN coord' /\ \A q \in Runs \ {r} : coord.run = q => coord'.run = q
      BY <1>1, <3>1
    <3> QED
      BY <1>2, <3>2, <3>4, <3>6, <3>7, <3>8, <3>9, RunTurns
  <2> QED
    BY <2>1, <2>2
<1> QED
  BY <1>5, <1>6, <1>7, <1>8 DEF FinalCheck
\* Every step of the development keeps its invariant.
LEMMA DevelopmentStep ==
  ASSUME DevelopmentInv, [Next]_vars
  PROVE  DevelopmentInv'
<1>1. SharedOK /\ (\A r \in Runs : RunOK(r)) /\ "run" \in DOMAIN coord /\ DeliveredOK
  BY DEF DevelopmentInv, SharedOK
<1>2. ASSUME UNCHANGED <<plan, run, lock, approved, change, saved>>, "run" \in DOMAIN coord', coord'.run = coord.run,
             delivered' = delivered \/ delivered' = NoRecord
      PROVE  DevelopmentInv'
  <2>1. SharedOK'
    BY <1>1, <1>2 DEF SharedOK, DeliveredOK, Judged, NoRecord, NoCheckpoint, Runs, Working, Coordinated, Verifying, Dispatched
  <2>2. ASSUME NEW r \in Runs PROVE RunOK(r)'
    BY <1>1, <1>2 DEF RunOK, Executing, Judged
  <2> QED
    BY <2>1, <2>2 DEF DevelopmentInv
<1>3. CASE UNCHANGED vars
  BY <1>1, <1>2, <1>3 DEF vars, durable, host
<1>4. ASSUME NEW r \in Runs, Controller(r) \/ Coordinator(r) \/ Executor(r) \/ FinalCheck(r) PROVE DevelopmentInv'
  BY <1>4, ControllerKeeps, CoordinatorKeeps, ExecutorKeeps, FinalCheckKeeps
<1>5. ASSUME NEW c, Call(c) \/ Ready(c) \/ Settled(c) PROVE DevelopmentInv'
  <2>1. UNCHANGED <<plan, run, lock, approved, change, saved, delivered>>
    BY <1>5 DEF Call, Ready, Settled, durable, host
  <2>2. "run" \in DOMAIN coord' /\ coord'.run = coord.run
    <3>1. coord' = coord \/ coord' = [coord EXCEPT !.pause = TRUE]
      BY <1>5 DEF Call, Ready, Settled, host
    <3> QED
      BY <1>1, <3>1
  <2> QED
    BY <1>2, <2>1, <2>2
<1>6. CASE Paused \/ EditDocument \/ Boot
  <2>1. /\ UNCHANGED <<plan, run, lock, approved, change, saved, coord>>
        /\ delivered' = delivered \/ delivered' = NoRecord
    BY <1>6 DEF Paused, EditDocument, Boot, durable, host
  <2> QED
    BY <1>1, <1>2, <2>1
<1>7. CASE Reopen
  <2>1. UNCHANGED <<plan, run, lock, saved, coord>>
    BY <1>7 DEF Reopen, host
  <2>2. CASE UNCHANGED <<phase, approved, delivered, change>>
    BY <1>1, <1>2, <2>1, <2>2
  <2>3. CASE approved' = None /\ delivered' = NoRecord /\ change' = "preparing"
    <3>1. SharedOK'
      BY <1>1, <2>1, <2>3 DEF SharedOK, DeliveredOK, Judged, NoRecord, NoCheckpoint, Runs
    <3>2. ASSUME NEW r \in Runs PROVE RunOK(r)'
      BY <1>1, <2>1 DEF RunOK, Executing, Judged
    <3> QED
      BY <3>1, <3>2 DEF DevelopmentInv
  <2> QED
    BY <1>7, <2>2, <2>3 DEF Reopen
<1>8. CASE Archive
  <2>1. /\ UNCHANGED <<plan, run, lock, approved, delivered, coord>> /\ change = "preparing"
        /\ lock = {} /\ saved' = NoCheckpoint /\ change' = "generating"
    BY <1>8 DEF Archive, Unlocked, host
  <2>2. \A r \in Runs : run[r].at \notin Working
    BY <1>1, <2>1 DEF RunOK
  <2>3. SharedOK'
    BY <1>1, <2>1, <2>2 DEF SharedOK, DeliveredOK, NoRecord, NoCheckpoint, Runs, Working, Coordinated, Verifying, Dispatched
  <2>4. ASSUME NEW r \in Runs PROVE RunOK(r)'
    BY <1>1, <2>1, ZenonT(30) DEF RunOK, Executing, Judged
  <2> QED
    BY <2>3, <2>4 DEF DevelopmentInv
<1>9. CASE Approve
  <2>1. /\ UNCHANGED <<run, lock, saved, delivered, coord>> /\ change = "generating"
        /\ plan' = plan + 1 /\ change' = "none"
    BY <1>9 DEF Approve, host
  <2>2. (\A r \in Runs : run[r].at \notin Working) /\ delivered = NoRecord
    BY <1>1, <2>1 DEF SharedOK
  <2>3. SharedOK'
    <3>1. plan' \in Nat \ {None}
      BY <1>1, <2>1 DEF SharedOK, None
    <3>2. DeliveredOK'
      BY <2>1, <2>2 DEF DeliveredOK, NoRecord
    <3> QED
      BY <1>1, <2>1, <3>1, <3>2 DEF SharedOK, Judged, NoCheckpoint, Runs
  <2>4. ASSUME NEW r \in Runs PROVE RunOK(r)'
    BY <1>1, <2>1, <2>2 DEF RunOK, Executing, Judged, Working, Coordinated, Verifying, Dispatched
  <2> QED
    BY <2>3, <2>4 DEF DevelopmentInv
<1>10. CASE EditFile
  <2>1. /\ UNCHANGED <<plan, lock, approved, saved, coord, change>>
        /\ delivered' = Outdated(delivered)
        /\ run' = [r \in Runs |-> IF "same" \in DOMAIN run[r] THEN [run[r] EXCEPT !.same = FALSE] ELSE run[r]]
    BY <1>10 DEF EditFile, Rewritten, host
  <2>2. ASSUME NEW r \in Runs
        PROVE  /\ DOMAIN run'[r] = DOMAIN run[r]
               /\ \A x \in DOMAIN run[r] : x # "same" => run'[r][x] = run[r][x]
               /\ "same" \in DOMAIN run[r] => run'[r].same = FALSE
    BY <2>1
  <2>3. ASSUME NEW r \in Runs PROVE RunOK(r)' /\ run'[r].at = run[r].at
    <3>1. RunOK(r) /\ "at" \in DOMAIN run[r] /\ run'[r].at = run[r].at /\ plan' = plan /\ lock' = lock /\ coord' = coord
      BY <1>1, <2>1, <2>2 DEF RunOK
    <3>2. run[r].at \in Working => "plan" \in DOMAIN run'[r] /\ run'[r].plan = plan /\ r \in lock
      BY <2>2, <3>1 DEF RunOK
    <3>3. Executing(r) => "results" \in DOMAIN run'[r] /\ Judged(run'[r].results) /\ coord.run = r
                          /\ run'[r].results = run[r].results
      BY <2>2, <3>1 DEF RunOK, Judged
    <3>4. run[r].at \in Dispatched \cup {"record"} =>
            /\ "slice" \in DOMAIN run'[r] /\ run'[r].slice \in Slices
            /\ Needs[run'[r].slice] \subseteq DOMAIN run'[r].results
      BY <2>2, <3>1, <3>3 DEF RunOK, Executing, Coordinated
    <3>5. run[r].at = "record" => /\ {"result", "evidence"} \subseteq DOMAIN run'[r]
                                  /\ run'[r].result = "passed" => run'[r].evidence.last = <<"tester", TRUE>>
      BY <2>2, <3>1 DEF RunOK
    <3>6. run[r].at = "check tests" => "same" \in DOMAIN run'[r] /\ run'[r].same \in BOOLEAN
      BY <2>2, <3>1 DEF RunOK
    <3>7. run[r].at = "compare" => /\ {"same", "tested"} \subseteq DOMAIN run'[r]
                                   /\ run'[r].same \in BOOLEAN /\ run'[r].tested \in BOOLEAN
                                   /\ run'[r].same => run'[r].tested
      BY <2>2, <3>1 DEF RunOK
    <3>8. run[r].at = "finish" => /\ {"same", "tested", "delivery"} \subseteq DOMAIN run'[r]
                                  /\ run'[r].delivery \in BOOLEAN /\ run'[r].tested \in BOOLEAN
                                  /\ run'[r].delivery => run'[r].tested
      BY <2>2, <3>1 DEF RunOK
    <3> QED
      BY <2>2, <3>1, <3>2, <3>3, <3>4, <3>5, <3>6, <3>7, <3>8 DEF RunOK, Executing
  <2>4. SharedOK'
    <3>1. DeliveredOK' /\ (delivered = NoRecord => delivered' = NoRecord)
      BY <1>1, <2>1, OutdatedIsOK
    <3>2. run' = [r \in Runs |-> run'[r]]
      BY <2>1
    <3>3. \A r \in Runs : run[r].at \notin Working => run'[r].at \notin Working
      BY <2>3
    <3> QED
      BY <1>1, <2>1, <3>1, <3>2, <3>3 DEF SharedOK, Judged, NoCheckpoint
  <2> QED
    BY <2>3, <2>4 DEF DevelopmentInv
<1>11. CASE Down
  <2>1. /\ UNCHANGED <<plan, approved, saved, delivered, change>> /\ coord' = IdleCoordinator
        /\ run' = [r \in Runs |-> IF run[r] = NoRun THEN NoRun ELSE Over]
    BY <1>11 DEF Down, durable
  <2>2. ASSUME NEW r \in Runs
        PROVE  "at" \in DOMAIN run'[r] /\ run'[r].at \in {"none", "over"}
    BY <2>1 DEF NoRun, Over
  <2>3. ASSUME NEW r \in Runs PROVE RunOK(r)' /\ run'[r].at \notin Working
    BY <2>2 DEF RunOK, Executing, Working, Coordinated, Verifying, Dispatched
  <2>4. run' = [r \in Runs |-> run'[r]]
    BY <2>1
  <2>5. SharedOK'
    BY <1>1, <2>1, <2>3, <2>4 DEF SharedOK, DeliveredOK, Judged, NoRecord, NoCheckpoint, IdleCoordinator
  <2> QED
    BY <2>3, <2>5 DEF DevelopmentInv
<1> QED
  BY <1>3, <1>4, <1>5, <1>6, <1>7, <1>8, <1>9, <1>10, <1>11 DEF Next

\* What the invariant says about runs, plans, checkpoints and deliveries.
LEMMA DevelopmentSafe ==
  ASSUME DevelopmentInv
  PROVE  OneExecutor /\ WorkIsOnApprovedPlan /\ CheckpointResumes /\ DeliveredIsTested
<1>1. OneExecutor
  BY DEF DevelopmentInv, RunOK, OneExecutor
<1>2. WorkIsOnApprovedPlan
  BY DEF DevelopmentInv, RunOK, WorkIsOnApprovedPlan, Executing, Working
<1>3. CheckpointResumes
  <2> SUFFICES ASSUME saved # NoCheckpoint, saved.plan = plan, Tasks \subseteq there
               PROVE  Resumable(saved, plan)
    BY DEF CheckpointResumes
  <2>1. Judged(saved.slices) /\ Completed(saved) = DOMAIN saved.slices
    BY DEF DevelopmentInv, SharedOK, Completed
  <2>2. ASSUME NEW s \in DOMAIN saved.slices
        PROVE  Needs[s] \subseteq DOMAIN saved.slices /\ Verified(s, saved.slices[s])
    <3>1. TasksOf[s] \subseteq there
      BY <2>1 DEF Judged, Tasks
    <3> QED
      BY <2>1, <3>1 DEF Judged, Verified
  <2> QED
    BY <2>1, <2>2 DEF Resumable
<1>4. DeliveredIsTested
  BY DEF DevelopmentInv, SharedOK, DeliveredOK, DeliveredIsTested
<1> QED
  BY <1>1, <1>2, <1>3, <1>4

\* No run has begun.
LEMMA DevelopmentStarts == Init => DevelopmentInv
<1> SUFFICES ASSUME Init PROVE DevelopmentInv
  OBVIOUS
<1>1. SharedOK
  BY DEF Init, SharedOK, DeliveredOK, IdleCoordinator, None
<1>2. \A r \in Runs : "at" \in DOMAIN run[r] /\ run[r].at = "none"
  BY DEF Init, NoRun
<1>3. ASSUME NEW r \in Runs PROVE RunOK(r)
  BY <1>2 DEF RunOK, Executing, Working, Coordinated, Verifying, Dispatched
<1> QED
  BY <1>1, <1>3 DEF DevelopmentInv
---------------------------------------------------------------------------
(* The work of the team *)

\* The invariants of the parts, of which one is in play.
TeamInv == /\ part = "sessions" => SessionsInv
           /\ part = "tools" => ToolsInv
           /\ part = "development" => DevelopmentInv

\* Every step of the team keeps the invariants, starts no effect that is done, and
\* writes to the file that was looked at.
LEMMA TeamStep ==
  ASSUME TeamInv, [TeamNext]_team
  PROVE  /\ TeamInv'
         /\ part = "sessions" => L!StartsWhatIsNotDone
         /\ part = "tools" => T!WritesWhatWasSeen
<1>1. part' = part
  BY DEF TeamNext, team
<1>2. CASE part = "sessions"
  <2>1. [L!Next]_(L!vars)
    BY <1>2 DEF TeamNext, team, sessions, L!vars
  <2>2. SessionsInv' /\ L!StartsWhatIsNotDone
    BY <1>2, <2>1, SessionsStep DEF TeamInv
  <2> QED
    BY <1>1, <1>2, <2>2 DEF TeamInv
<1>3. CASE part = "tools"
  <2>1. [T!Next]_(T!vars)
    BY <1>3 DEF TeamNext, team, tools, T!vars
  <2>2. ToolsInv' /\ T!WritesWhatWasSeen
    BY <1>3, <2>1, ToolsStep DEF TeamInv
  <2> QED
    BY <1>1, <1>3, <2>2 DEF TeamInv
<1>4. CASE part = "development"
  <2>1. [Next]_vars
    BY <1>4 DEF TeamNext, team
  <2>2. DevelopmentInv'
    BY <1>4, <2>1, DevelopmentStep DEF TeamInv
  <2> QED
    BY <1>1, <1>4, <2>2 DEF TeamInv
<1>5. CASE part \notin {"sessions", "tools", "development"}
  BY <1>1, <1>5 DEF TeamInv
<1> QED
  BY <1>2, <1>3, <1>4, <1>5

\* The parts start as their invariants say.
LEMMA TeamStarts == TeamInit => TeamInv
BY SessionsStart, ToolsStart, DevelopmentStarts DEF TeamInit, TeamInv

\* The invariants hold throughout the work of the team.
THEOREM TeamIsSound == TeamSpec => []TeamInv
<1>1. TeamInv /\ [TeamNext]_team => TeamInv'
  BY TeamStep
<1> QED
  BY <1>1, TeamStarts, PTL DEF TeamSpec

\* The compaction a session goes by is on disk, and what the model is sent of the rest of
\* its transcript has no result without its call, whatever fails to be saved and whoever
\* dies (context-manager.ts compact, restore and findCompactionBoundary).
THEOREM CompactionsAreWholeHolds == TeamSpec => []CompactionsAreWhole
<1>1. TeamInv => CompactionsAreWhole
  BY SessionsSafe DEF TeamInv, CompactionsAreWhole
<1> QED
  BY <1>1, TeamIsSound, PTL

\* A process holds the run lease exactly while it has a session, or one whose last save
\* failed, whatever way its agents end (SharedLongTaskRunLease).
THEOREM LeaseIsCountedHolds == TeamSpec => [](part = "sessions" => L!LeaseIsCounted)
<1>1. TeamInv => (part = "sessions" => L!LeaseIsCounted)
  BY SessionsSafe DEF TeamInv
<1> QED
  BY <1>1, TeamIsSound, PTL

\* No process starts a side effect whose completion is in the checkpoint of its task
\* (long-task-execution-session.ts runTool, under the shared run lease).
THEOREM CompletedRunsOnceHolds == TeamSpec => CompletedRunsOnce
<1>1. TeamInv /\ [TeamNext]_team => [part = "sessions" => L!StartsWhatIsNotDone]_team
  BY TeamStep
<1> QED
  BY <1>1, TeamIsSound, PTL DEF TeamSpec, CompletedRunsOnce

\* While nobody else touches the file it holds what the task that owns it accepted last,
\* after any failed edit, and its test evidence is of that (patch-tracker.ts,
\* managed-test-evidence.ts).
THEOREM OwnedFileIsAcceptedHolds == TeamSpec => []OwnedFileIsAccepted
<1>1. TeamInv => OwnedFileIsAccepted
  BY ToolsSafe DEF TeamInv, OwnedFileIsAccepted
<1> QED
  BY <1>1, TeamIsSound, PTL

\* An agent's bytes, those of a rollback too, go into the file it took a snapshot of or
\* created, never into one the user put in its place (patch-tracker.ts).
THEOREM WritesGoToTheFileSeenHolds == TeamSpec => WritesGoToTheFileSeen
<1>1. TeamInv /\ [TeamNext]_team => [part = "tools" => T!WritesWhatWasSeen]_team
  BY TeamStep
<1> QED
  BY <1>1, TeamIsSound, PTL DEF TeamSpec, WritesGoToTheFileSeen

\* One run goes through the plan at a time and on the approved plan, a checkpoint can be
\* resumed, and what is delivered as ready was tested with the files it names
\* (development-coordinator.ts, requirement-change.ts, final-development-verification.ts).
THEOREM WorkKeepsItsPlanHolds == TeamSpec => []WorkKeepsItsPlan
<1>1. TeamInv => WorkKeepsItsPlan
  BY DevelopmentSafe DEF TeamInv, WorkKeepsItsPlan
<1> QED
  BY <1>1, TeamIsSound, PTL
============================================================================
