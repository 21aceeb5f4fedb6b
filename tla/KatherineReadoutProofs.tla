------------------------ MODULE KatherineReadoutProofs ------------------------
(***************************************************************************)
(* Proofs about the readout, for every acquisition, every size of          *)
(* datagrams and every number of faults.                                   *)
(*                                                                         *)
(* - The synchronous reader starts no acquisition the detector is not      *)
(*   configured for.  Only commands and replies matter to it.              *)
(* - Hits are written once, with their times where the parser knows the    *)
(*   offset they were sent under, and those missing from the total are in  *)
(*   the datagrams that were not read.  For that the frames of the         *)
(*   acquisition are followed: cut into datagrams, each in one place, then *)
(*   parsed.  What an offset frame leaves in force (InForce) is the same   *)
(*   over the whole acquisition and over a datagram begun with the offset  *)
(*   known before it (InForceShifted).                                     *)
(***************************************************************************)
EXTENDS KatherineReadout, FiniteSetTheorems, WellFoundedInduction, TLAPS

\* The first k commands.
FirstCommands(k) == [i \in 1..k |-> Commands[i]]

\* The inductive invariant.  Katherine executed the first k commands; the reader
\* is at most one command ahead of it, and only a command that was answered is
\* followed by another.  What is missing on the way was lost, and then the reader
\* waits for ever.
AtCommand(k) ==
    /\ pc = "command"
    /\ step \in 1..7
    /\ k = step - 1
    /\ commands = <<>>
    /\ replies = <<>>

AtReply(k) ==
    /\ pc = "await"
    /\ step \in 2..7
    /\ \/ k = step - 2 /\ replies = <<>> /\ commands \in {<<>>, <<Commands[step - 1]>>}
       \/ k = step - 1 /\ commands = <<>> /\ replies \in {<<>>, <<Commands[step - 1]>>}

AtData(k) ==
    /\ pc \in {"receive", "close", "done"}
    /\ replies = <<>>
    /\ \/ k = 6 /\ commands \in {<<>>, <<Commands[7]>>}
       \/ k = 7 /\ commands = <<>>

Handshake ==
    node = "sync" =>
        \E k \in 0..7 : executed = FirstCommands(k) /\ (AtCommand(k) \/ AtReply(k) \/ AtData(k))

-----------------------------------------------------------------------------
\* What a command can be.
Names == {Commands[i] : i \in 1..7}

\* There are seven commands, of which only the last starts an acquisition.
LEMMA CommandFacts ==
    /\ Commands \in Seq(Names)
    /\ Len(Commands) = 7
    /\ Commands[7] = "START_ACQ"
    /\ \A i \in 1..6 : Commands[i] # "START_ACQ"
    /\ \A i \in 1..7 : Commands[i] \in Names
<1>1. Len(Commands) = 7 /\ DOMAIN Commands = 1..7
  BY DEF Commands
<1>2. Commands[7] = "START_ACQ"
  BY DEF Commands
<1>3. \A i \in 1..6 : Commands[i] # "START_ACQ"
  <2>1. \A i \in 1..6 : i = 1 \/ i = 2 \/ i = 3 \/ i = 4 \/ i = 5 \/ i = 6
    OBVIOUS
  <2>2. /\ Commands[1] # "START_ACQ" /\ Commands[2] # "START_ACQ"
        /\ Commands[3] # "START_ACQ" /\ Commands[4] # "START_ACQ"
        /\ Commands[5] # "START_ACQ" /\ Commands[6] # "START_ACQ"
    BY DEF Commands
  <2> QED BY <2>1, <2>2
<1>4. \A i \in 1..7 : Commands[i] \in Names
  BY DEF Names
<1>5. Commands \in Seq(Names)
  <2>1. Commands = [i \in 1..7 |-> Commands[i]]
    BY DEF Commands
  <2> QED BY <1>4, <2>1
<1> QED BY <1>1, <1>2, <1>3, <1>4, <1>5

\* One message on its way, lost or read, leaves none.
LEMMA TailOfOne == ASSUME NEW c \in Names PROVE Tail(<<c>>) = <<>>
OBVIOUS

\* The next command after the first k makes the first k + 1.
LEMMA FirstCommandsGrow ==
    ASSUME NEW k \in 0..6
    PROVE  Append(FirstCommands(k), Commands[k + 1]) = FirstCommands(k + 1)
<1>1. FirstCommands(k) \in Seq(Names) /\ Len(FirstCommands(k)) = k
  BY CommandFacts DEF FirstCommands
<1>2. FirstCommands(k + 1) \in Seq(Names) /\ Len(FirstCommands(k + 1)) = k + 1
  BY CommandFacts DEF FirstCommands
<1> DEFINE longer == Append(FirstCommands(k), Commands[k + 1])
<1>3. longer \in Seq(Names) /\ Len(longer) = k + 1
  BY <1>1, CommandFacts
<1>4. \A i \in 1..(k + 1) : longer[i] = FirstCommands(k + 1)[i]
  BY <1>1 DEF FirstCommands
<1> QED BY <1>2, <1>3, <1>4

\* What was executed is an acquisition's start only if it is all the commands.
LEMMA StartIsLast ==
    ASSUME NEW k \in 0..7, Contains(FirstCommands(k), "START_ACQ")
    PROVE  FirstCommands(k) = Commands
<1>1. FirstCommands(k) \in Seq(Names) /\ Len(FirstCommands(k)) = k
  BY CommandFacts DEF FirstCommands
<1>2. PICK i \in 1..k : Commands[i] = "START_ACQ"
  BY <1>1 DEF Contains, FirstCommands
<1>3. k = 7
  BY <1>2, CommandFacts
<1> QED BY <1>1, <1>3, CommandFacts DEF FirstCommands

-----------------------------------------------------------------------------
LEMMA HandshakeInit == Init => Handshake
<1> SUFFICES ASSUME Init, node = "sync"
             PROVE  executed = FirstCommands(0) /\ AtCommand(0)
  BY DEF Handshake
<1>1. FirstCommands(0) = <<>>
  BY DEF FirstCommands
<1> QED BY <1>1 DEF Init, AtCommand

\* No step of the protocol breaks the handshake: one step per action that touches
\* commands, replies or the reader's place.
LEMMA HandshakeStep == Handshake /\ [Next]_vars => Handshake'
<1> SUFFICES ASSUME Handshake, [Next]_vars, node' = "sync"
             PROVE  (\E k \in 0..7 : /\ executed = FirstCommands(k)
                                     /\ AtCommand(k) \/ AtReply(k) \/ AtData(k))'
  BY DEF Handshake
<1>1. node = "sync"
  BY DEF Next, Reader, Katherine, Network, SendCommand, GetReply, SendAllCommands,
         ReceiveDatagram, CloseWriter, ExecuteCommand, SendDatagram, ArriveInOrder,
         Overtake, Arrive, LoseDatagram, LoseControl, vars
<1>2. PICK k \in 0..7 : /\ executed = FirstCommands(k)
                        /\ AtCommand(k) \/ AtReply(k) \/ AtData(k)
  BY <1>1 DEF Handshake
<1>3. CASE SendCommand
  <2>1. AtCommand(k) /\ commands' = <<Commands[step]>> /\ step' = step + 1
        /\ UNCHANGED <<replies, executed>>
    BY <1>2, <1>3 DEF SendCommand, AtCommand, AtReply, AtData
  <2>2. executed' = FirstCommands(k)
    BY <1>2, <2>1
  <2>3. CASE step = 7
    <3>1. pc' = "receive"
      BY <1>3, <2>3, CommandFacts DEF SendCommand, AwaitsReply
    <3> QED BY <2>1, <2>2, <2>3, <3>1 DEF AtCommand, AtData
  <2>4. CASE step \in 1..6
    <3>1. pc' = "await"
      BY <1>3, <2>4, CommandFacts DEF SendCommand, AwaitsReply
    <3> QED BY <2>1, <2>2, <2>4, <3>1 DEF AtCommand, AtReply
  <2> QED BY <2>1, <2>3, <2>4 DEF AtCommand
<1>4. CASE GetReply
  <2>1. AtReply(k) /\ k = step - 1 /\ commands = <<>> /\ replies = <<Commands[step - 1]>>
    BY <1>2, <1>4 DEF GetReply, AtCommand, AtReply, AtData
  <2>2. replies' = <<>> /\ pc' = "command" /\ UNCHANGED <<step, commands, executed>>
    BY <1>4, <2>1 DEF GetReply
  <2> QED BY <1>2, <2>1, <2>2 DEF AtCommand, AtReply
<1>5. CASE SendAllCommands
  BY <1>1, <1>5 DEF SendAllCommands
<1>6. CASE ExecuteCommand
  <2>1. UNCHANGED <<pc, step>> /\ commands # <<>>
    BY <1>6 DEF ExecuteCommand
  <2>2. CASE AtReply(k)
    <3>1. k = step - 2 /\ step \in 2..7 /\ replies = <<>> /\ commands = <<Commands[step - 1]>>
      BY <2>1, <2>2 DEF AtReply
    <3>2. Head(commands) = Commands[k + 1] /\ Commands[k + 1] # "START_ACQ" /\ k \in 0..6
      BY <3>1, CommandFacts
    <3>3. /\ executed' = Append(executed, Commands[k + 1])
          /\ replies' = <<Commands[step - 1]>>
          /\ commands' = <<>>
      BY <1>1, <1>6, <3>1, <3>2 DEF ExecuteCommand
    <3>4. executed' = FirstCommands(k + 1)
      BY <1>2, <3>2, <3>3, FirstCommandsGrow
    <3>5. AtReply(k + 1)'
      BY <2>1, <2>2, <3>1, <3>3 DEF AtReply
    <3> QED BY <3>2, <3>4, <3>5
  <2>3. CASE AtData(k)
    <3>1. k = 6 /\ replies = <<>> /\ commands = <<Commands[7]>>
      BY <2>1, <2>3 DEF AtData
    <3>2. /\ executed' = Append(executed, Commands[7])
          /\ replies' = <<>>
          /\ commands' = <<>>
      BY <1>6, <3>1, CommandFacts DEF ExecuteCommand
    <3>3. executed' = FirstCommands(7)
      BY <1>2, <3>1, <3>2, FirstCommandsGrow
    <3>4. AtData(7)'
      BY <2>1, <2>3, <3>2 DEF AtData
    <3> QED BY <3>3, <3>4
  <2> QED BY <1>2, <2>1, <2>2, <2>3 DEF AtCommand
<1>7. CASE LoseControl
  <2>1. UNCHANGED <<pc, step, executed>>
    BY <1>7 DEF LoseControl
  <2>2. CASE commands # <<>> /\ commands' = Tail(commands) /\ UNCHANGED replies
    <3>1. PICK i \in 1..7 : commands = <<Commands[i]>>
      BY <1>2, <2>2 DEF AtCommand, AtReply, AtData
    <3>2. commands' = <<>>
      BY <2>2, <3>1, CommandFacts, TailOfOne
    <3> QED BY <1>2, <2>1, <2>2, <3>2 DEF AtCommand, AtReply, AtData
  <2>3. CASE replies # <<>> /\ replies' = Tail(replies) /\ UNCHANGED commands
    <3>1. PICK i \in 1..7 : replies = <<Commands[i]>>
      BY <1>2, <2>3 DEF AtCommand, AtReply, AtData
    <3>2. replies' = <<>>
      BY <2>3, <3>1, CommandFacts, TailOfOne
    <3> QED BY <1>2, <2>1, <2>3, <3>2 DEF AtCommand, AtReply, AtData
  <2> QED BY <1>7, <2>2, <2>3 DEF LoseControl
<1>8. CASE ReceiveDatagram \/ CloseWriter
  <2>1. pc \in {"receive", "close"} /\ pc' \in {"receive", "close", "done"}
        /\ UNCHANGED <<step, control>>
    BY <1>8 DEF ReceiveDatagram, CloseWriter
  <2> QED BY <1>2, <2>1 DEF control, AtCommand, AtReply, AtData
<1>9. CASE SendDatagram \/ ArriveInOrder \/ Overtake \/ LoseDatagram \/ UNCHANGED vars
  <2>1. UNCHANGED <<pc, step, control>>
    BY <1>9 DEF SendDatagram, ArriveInOrder, Overtake, Arrive, LoseDatagram, vars
  <2> QED BY <1>2, <2>1 DEF control, AtCommand, AtReply, AtData
<1> QED BY <1>3, <1>4, <1>5, <1>6, <1>7, <1>8, <1>9 DEF Next, Reader, Katherine, Network

-----------------------------------------------------------------------------
\* Commands and replies stay in step: sync_start_acq sends a command only when the
\* one before it was executed.
THEOREM ReadoutHandshake == Spec => []Handshake
<1> QED BY HandshakeInit, HandshakeStep, PTL DEF Spec

\* Katherine never measures without its configuration, whatever is lost.
THEOREM ReadoutStartsConfigured == Spec => []StartsConfigured
<1>1. Handshake => StartsConfigured
  <2> SUFFICES ASSUME Handshake, node = "sync", Acquiring
               PROVE  executed = Commands
    BY DEF StartsConfigured
  <2>1. PICK k \in 0..7 : executed = FirstCommands(k)
    BY DEF Handshake
  <2> QED BY <2>1, StartIsLast DEF Acquiring
<1> QED BY <1>1, ReadoutHandshake, PTL

-----------------------------------------------------------------------------
(* Induction, and the largest of some numbers.                             *)

\* Induction over the naturals, for a set: a set of them has a least member.
LEMMA LeastElement ==
    ASSUME NEW S \in SUBSET Nat, S # {}
    PROVE  \E m \in S : \A k \in S : m <= k
<1> DEFINE F == {0..m : m \in S}
<1>1. F \subseteq FiniteSubsetsOf(Nat) /\ F # {}
  <2>1. \A m \in S : 0..m \subseteq Nat /\ IsFiniteSet(0..m)
    BY FS_Interval
  <2> QED BY <2>1 DEF FiniteSubsetsOf
<1>2. PICK x \in F : \A y \in F : <<y, x>> \notin StrictSubsetOrdering(Nat)
  <2> HIDE DEF F
  <2> QED BY <1>1, FS_StrictSubsetOrderingWellFounded, WFMin
<1>3. PICK m \in S : x = 0..m
  BY <1>2
<1>4. ASSUME NEW k \in S, ~(m <= k) PROVE FALSE
  <2>1. k \in Nat /\ m \in Nat /\ k < m
    BY <1>4
  <2>2. 0..k \subseteq 0..m /\ m \notin 0..k /\ m \in 0..m
      /\ 0..k \subseteq Nat /\ 0..m \subseteq Nat
    BY <2>1
  <2>3. <<0..k, 0..m>> \in StrictSubsetOrdering(Nat) /\ 0..k \in F
    BY <2>2 DEF StrictSubsetOrdering
  <2> QED BY <2>3, <1>2, <1>3
<1> QED BY <1>4

LEMMA Induction ==
    ASSUME NEW S, 0 \in S, \A n \in Nat : n \in S => n + 1 \in S
    PROVE  Nat \subseteq S
<1> DEFINE T == {n \in Nat : n \notin S}
<1> SUFFICES ASSUME T # {} PROVE FALSE
  OBVIOUS
<1>1. T \in SUBSET Nat
  OBVIOUS
<1>2. PICK m \in T : \A k \in T : m <= k
  <2> HIDE DEF T
  <2> QED BY <1>1, LeastElement
<1>3. m \in Nat \ {0} /\ m \notin S
  BY <1>2
<1>4. m - 1 \in Nat /\ (m - 1) + 1 = m /\ ~(m <= m - 1)
  BY <1>3
<1>5. m - 1 \in S
  BY <1>2, <1>4
<1> QED BY <1>3, <1>4, <1>5


LEMMA MaxIs ==
    ASSUME NEW S \in SUBSET Int, NEW m \in S, \A k \in S : k <= m
    PROVE  Max(S) = m
<1>1. m \in S /\ \A k \in S : m >= k
  OBVIOUS
<1>2. Max(S) \in S /\ \A k \in S : Max(S) >= k
  <2> DEFINE Largest(x) == x \in S /\ \A k \in S : x >= k
  <2>1. Largest(m)
    BY <1>1
  <2> QED BY <2>1 DEF Max
<1>3. Max(S) \in Int /\ m \in Int
  BY <1>2
<1>4. m >= Max(S) /\ Max(S) >= m
  BY <1>1, <1>2
<1> HIDE DEF Max
<1> QED BY <1>3, <1>4

LEMMA MaxIn ==
    ASSUME NEW n \in Nat, NEW S \in SUBSET (0..n), S # {}
    PROVE  Max(S) \in S /\ \A k \in S : k <= Max(S)
<1> DEFINE T == {n - k : k \in S}
<1>1. T \in SUBSET Nat /\ T # {}
  <2>1. \A k \in S : n - k \in Nat
    OBVIOUS
  <2>2. PICK k \in S : TRUE
    OBVIOUS
  <2>3. n - k \in T
    BY <2>2
  <2> QED BY <2>1, <2>3
<1>2. PICK t \in T : \A u \in T : t <= u
  <2> HIDE DEF T
  <2> QED BY <1>1, LeastElement
<1>3. PICK m \in S : t = n - m
  BY <1>2
<1>4. ASSUME NEW k \in S PROVE k <= m
  <2>1. n - k \in T
    OBVIOUS
  <2>2. n - m <= n - k
    BY <1>2, <1>3, <2>1
  <2>3. k \in Int /\ m \in Int
    OBVIOUS
  <2> QED BY ONLY <2>2, <2>3, n \in Nat
<1>5. Max(S) = m
  <2>1. S \in SUBSET Int
    OBVIOUS
  <2> QED BY <1>4, <2>1, MaxIs
<1> QED BY <1>4, <1>5

-----------------------------------------------------------------------------
(* The offset in force among frames, and what a parser makes of them.      *)

Frame == [type : {"hit", "offset", "finished", "lost"}, id : Nat, value : Nat]

OffsetsIn(fs, k) == {j \in 1..k : fs[j].type = "offset"}

\* The offset in force after the first k frames, if o was in force before them.
InForce(fs, k, o) ==
    IF OffsetsIn(fs, k) = {} THEN o ELSE fs[Max(OffsetsIn(fs, k))].value

After(fs, o) == InForce(fs, Len(fs), o)

LEMMA InForceStep ==
    ASSUME NEW fs, NEW o, NEW k \in Nat
    PROVE  /\ InForce(fs, 0, o) = o
           /\ InForce(fs, k + 1, o) = IF fs[k + 1].type = "offset" THEN fs[k + 1].value
                                      ELSE InForce(fs, k, o)
<1>1. OffsetsIn(fs, 0) = {}
  BY DEF OffsetsIn
<1>2. CASE fs[k + 1].type = "offset"
  <2>1. k + 1 \in OffsetsIn(fs, k + 1) /\ OffsetsIn(fs, k + 1) \in SUBSET Int
        /\ \A j \in OffsetsIn(fs, k + 1) : j <= k + 1
    BY <1>2 DEF OffsetsIn
  <2>2. Max(OffsetsIn(fs, k + 1)) = k + 1
    BY <2>1, MaxIs
  <2> QED BY <1>1, <1>2, <2>1, <2>2 DEF InForce
<1>3. CASE fs[k + 1].type # "offset"
  <2>1. \A j \in 1..(k + 1) : j \in 1..k \/ j = k + 1
    OBVIOUS
  <2>2. 1..k \subseteq 1..(k + 1)
    OBVIOUS
  <2>3. OffsetsIn(fs, k + 1) = OffsetsIn(fs, k)
    BY <1>3, <2>1, <2>2 DEF OffsetsIn
  <2> QED BY <1>1, <1>3, <2>3 DEF InForce
<1> QED BY <1>2, <1>3

\* n frames that are a part of others, from place b + 1 on.
PartOf(gs, fs, b, n) ==
    b \in Nat /\ n \in Nat /\ \A j \in 1..n : gs[j] = fs[b + j]

LEMMA InForceShifted ==
    ASSUME NEW fs, NEW gs, NEW b, NEW n, NEW o, PartOf(gs, fs, b, n)
    PROVE  \A j \in 0..n : InForce(fs, b + j, o) = InForce(gs, j, InForce(fs, b, o))
<1>0. b \in Nat /\ n \in Nat /\ \A j \in 1..n : gs[j] = fs[b + j]
  BY DEF PartOf
<1> DEFINE u == InForce(fs, b, o)
           S == {j \in Nat : j <= n => InForce(fs, b + j, o) = InForce(gs, j, u)}
<1>1. 0 \in S
  <2>1. InForce(gs, 0, u) = u
    BY InForceStep
  <2>2. b + 0 = b
    BY <1>0
  <2> QED BY <2>1, <2>2
<1> HIDE DEF u
<1>2. ASSUME NEW j \in Nat, j \in S PROVE j + 1 \in S
  <2> SUFFICES ASSUME j + 1 <= n
               PROVE  InForce(fs, b + (j + 1), o) = InForce(gs, j + 1, u)
    OBVIOUS
  <2>1. InForce(fs, b + j, o) = InForce(gs, j, u)
    <3>1. j <= n
      BY <1>0
    <3> QED BY <1>2, <3>1
  <2>2. PICK k \in Nat : k = b + j
    BY <1>0
  <2>3. b + (j + 1) = k + 1 /\ j + 1 \in 1..n
    BY <1>0, <2>2
  <2>4. gs[j + 1] = fs[k + 1]
    BY <1>0, <2>3
  <2>5. InForce(fs, k + 1, o) = IF fs[k + 1].type = "offset" THEN fs[k + 1].value
                                ELSE InForce(fs, k, o)
    BY InForceStep
  <2>6. InForce(gs, j + 1, u) = IF gs[j + 1].type = "offset" THEN gs[j + 1].value
                                ELSE InForce(gs, j, u)
    BY InForceStep
  <2> QED BY ONLY <2>1, <2>2, <2>3, <2>4, <2>5, <2>6
<1>3. Nat \subseteq S
  <2> HIDE DEF S
  <2> QED BY <1>1, <1>2, Induction
<1> QED BY <1>3 DEF u

\* Offsets are numbers.
LEMMA InForceNat ==
    ASSUME NEW fs \in Seq(Frame), NEW o \in Nat, NEW k \in 0..Len(fs)
    PROVE  InForce(fs, k, o) \in Nat
<1> DEFINE S == OffsetsIn(fs, k)
<1>1. CASE S = {}
  BY <1>1 DEF InForce
<1>2. CASE S # {}
  <2>1. k \in Nat /\ S \in SUBSET (0..k)
    BY DEF OffsetsIn
  <2> HIDE DEF S
  <2>2. Max(S) \in S
    BY <1>2, <2>1, MaxIn
  <2>3. Max(S) \in 1..Len(fs)
    BY <2>2 DEF S, OffsetsIn
  <2>4. PICK m \in 1..Len(fs) : m = Max(S)
    BY <2>3
  <2>5. fs[m] \in Frame
    OBVIOUS
  <2> QED BY <1>2, <2>4, <2>5 DEF InForce, S, Frame
<1> QED BY <1>1, <1>2

\* A recursive function: what a first value becomes, step by step.
Iterated(g, F, S, a, n) ==
    g \in [0..n -> S] /\ g[0] = a /\ \A k \in 1..n : g[k] = F[k][g[k - 1]]

Iterable(F, S, a, n) == n \in Nat /\ a \in S /\ F \in [1..n -> [S -> S]]

LEMMA Iterates ==
    ASSUME NEW S, NEW a, NEW n, NEW F, Iterable(F, S, a, n)
    PROVE  \E g : Iterated(g, F, S, a, n)
<1>0. n \in Nat /\ a \in S /\ F \in [1..n -> [S -> S]]
  BY DEF Iterable
<1> DEFINE P(m, g) == g \in [0..m -> S] /\ g[0] = a /\ \A k \in 1..m : g[k] = F[k][g[k - 1]]
           T == {m \in Nat : m <= n => \E g : P(m, g)}
<1>1. 0 \in T
  <2>1. P(0, [k \in 0..0 |-> a])
    BY <1>0
  <2> HIDE DEF P
  <2> QED BY <2>1
<1>2. ASSUME NEW m \in Nat, m \in T PROVE m + 1 \in T
  <2>1. CASE m + 1 <= n
    <3>1. PICK g : P(m, g)
      <4> HIDE DEF P
      <4> QED BY <1>0, <1>2, <2>1
    <3>2. m + 1 \in 1..n /\ m \in 0..m
      BY <1>0, <2>1
    <3>3. PICK x \in S : x = F[m + 1][g[m]]
      <4>1. g[m] \in S /\ F[m + 1] \in [S -> S]
        BY <1>0, <3>1, <3>2
      <4> QED BY <4>1
    <3> DEFINE h == [k \in 0..(m + 1) |-> IF k = m + 1 THEN x ELSE g[k]]
    <3>4. h \in [0..(m + 1) -> S] /\ h[0] = a /\ h[m + 1] = x /\ \A k \in 0..m : h[k] = g[k]
      BY <1>0, <3>1
    <3>5. ASSUME NEW k \in 1..(m + 1) PROVE h[k] = F[k][h[k - 1]]
      <4>1. CASE k = m + 1
        <5>1. k - 1 = m /\ m \in 0..m
          BY <4>1
        <5> QED BY <4>1, <5>1, <3>3, <3>4
      <4>2. CASE k # m + 1
        <5>1. k \in 1..m /\ k \in 0..m /\ k - 1 \in 0..m
          BY <4>2
        <5>2. g[k] = F[k][g[k - 1]]
          BY <5>1, <3>1
        <5>3. h[k] = g[k] /\ h[k - 1] = g[k - 1]
          BY <5>1, <3>4
        <5> QED BY <5>2, <5>3
      <4> QED BY <4>1, <4>2
    <3> HIDE DEF h
    <3>6. P(m + 1, h)
      BY <3>4, <3>5
    <3> HIDE DEF P
    <3> QED BY <3>6
  <2> HIDE DEF P
  <2> QED BY <2>1
<1>3. Nat \subseteq T
  <2> HIDE DEF T
  <2> QED BY <1>1, <1>2, Induction
<1>4. \E g : P(n, g)
  <2> HIDE DEF P
  <2> QED BY <1>0, <1>3
<1> QED BY <1>4 DEF Iterated

HitTime == [id : Nat, toa : Nat]

ParserState == [hits : Seq(HitTime), offset : Nat, total : Nat, final : BOOLEAN]

\* What is true of a parser after k of the frames, when it began with offset o and
\* total t.  A hit is timed by the offset in force where its frame is.
Parses(fs, o, t, k, r) ==
    /\ r \in ParserState
    /\ r.offset = InForce(fs, k, o)
    /\ r.total = t \/ \E j \in 1..k : fs[j].type = "finished" /\ r.total = fs[j].value
    /\ \A q \in DOMAIN r.hits : \E j \in 1..k :
         /\ fs[j].type = "hit"
         /\ r.hits[q].id = fs[j].id
         /\ r.hits[q].toa = TimeOf(fs[j].value, InForce(fs, j, o))
    /\ \A j \in 1..k : fs[j].type = "hit" => \E q \in DOMAIN r.hits : r.hits[q].id = fs[j].id

HitsOnce(fs) ==
    \A i, j \in DOMAIN fs :
        fs[i].type = "hit" /\ fs[j].type = "hit" /\ fs[i].id = fs[j].id => i = j

TimesOnce(hs) == \A q, p \in DOMAIN hs : hs[q].id = hs[p].id => q = p

LEMMA Timed ==
    ASSUME NEW v \in Nat, NEW o \in Nat
    PROVE  TimeOf(v, o) \in Nat
<1>1. PICK x \in Nat : x = OffsetUnit * o
  BY ReadoutAssumption DEF ReadoutAssumption
<1>2. TimeRange \in Nat \ {0}
  BY ReadoutAssumption DEF ReadoutAssumption
<1>3. x % TimeRange \in Nat
  BY ONLY <1>1, <1>2
<1>4. PICK y \in Nat : y = (OffsetUnit * o) % TimeRange
  BY <1>1, <1>3
<1> QED BY <1>4 DEF TimeOf

LEMMA FrameParsed ==
    ASSUME NEW fs \in Seq(Frame), NEW o \in Nat, NEW t \in Nat, NEW k \in Nat, k < Len(fs),
           NEW r, Parses(fs, o, t, k, r), HitsOnce(fs), TimesOnce(r.hits)
    PROVE  /\ Parses(fs, o, t, k + 1, ParseFrame(r, fs[k + 1]))
           /\ TimesOnce(ParseFrame(r, fs[k + 1]).hits)
<1> DEFINE f == fs[k + 1]  s == ParseFrame(r, f)
<1>1. k + 1 \in 1..Len(fs) /\ f \in Frame /\ r \in ParserState /\ DOMAIN fs = 1..Len(fs)
  BY DEF Parses
<1>2. /\ r.hits \in Seq(HitTime) /\ r.offset \in Nat /\ r.total \in Nat
      /\ f.type \in {"hit", "offset", "finished", "lost"} /\ f.id \in Nat /\ f.value \in Nat
  BY <1>1 DEF ParserState, Frame
<1>3. InForce(fs, k + 1, o) = IF f.type = "offset" THEN f.value ELSE InForce(fs, k, o)
  BY InForceStep
<1>4. r.offset = InForce(fs, k, o)
  BY DEF Parses
<1> DEFINE toa == TimeOf(f.value, r.offset)
<1>5. toa \in Nat
  BY <1>2, Timed
<1>6. /\ s.hits = IF f.type = "hit" THEN Append(r.hits, [id |-> f.id, toa |-> toa]) ELSE r.hits
      /\ s.offset = IF f.type = "offset" THEN f.value ELSE r.offset
      /\ s.total = IF f.type = "finished" THEN f.value ELSE r.total
      /\ s.final \in BOOLEAN
      /\ s = [hits |-> s.hits, offset |-> s.offset, total |-> s.total, final |-> s.final]
  BY DEF ParseFrame, IsEndFrame
<1> HIDE DEF s, toa
<1>7. /\ \A q \in DOMAIN r.hits : \E j \in 1..k :
           /\ fs[j].type = "hit"
           /\ r.hits[q].id = fs[j].id
           /\ r.hits[q].toa = TimeOf(fs[j].value, InForce(fs, j, o))
      /\ \A j \in 1..k : fs[j].type = "hit" => \E q \in DOMAIN r.hits : r.hits[q].id = fs[j].id
      /\ r.total = t \/ \E j \in 1..k : fs[j].type = "finished" /\ r.total = fs[j].value
  BY DEF Parses
<1>8. /\ \A j \in 1..k : j \in 1..(k + 1)
      /\ k + 1 \in 1..(k + 1)
      /\ \A j \in 1..(k + 1) : j \in 1..k \/ j = k + 1
  OBVIOUS
<1>9. s.total = t \/ \E j \in 1..(k + 1) : fs[j].type = "finished" /\ s.total = fs[j].value
  BY <1>6, <1>7, <1>8
<1>10. s.offset = InForce(fs, k + 1, o)
  BY <1>3, <1>4, <1>6
<1> HIDE DEF f
<1>11. CASE f.type # "hit"
  <2>1. s.hits = r.hits /\ s \in ParserState
    BY <1>2, <1>6, <1>11 DEF ParserState
  <2>2. \A q \in DOMAIN s.hits : \E j \in 1..(k + 1) :
           /\ fs[j].type = "hit"
           /\ s.hits[q].id = fs[j].id
           /\ s.hits[q].toa = TimeOf(fs[j].value, InForce(fs, j, o))
    BY <1>7, <1>8, <2>1
  <2>3. \A j \in 1..(k + 1) :
           fs[j].type = "hit" => \E q \in DOMAIN s.hits : s.hits[q].id = fs[j].id
    BY <1>7, <1>8, <1>11, <2>1 DEF f
  <2>4. TimesOnce(s.hits)
    BY <2>1
  <2> QED BY <1>9, <1>10, <2>1, <2>2, <2>3, <2>4 DEF Parses, s, f
<1>12. CASE f.type = "hit"
  <2>1. PICK h \in HitTime : h = [id |-> f.id, toa |-> toa]
    BY <1>2, <1>5 DEF HitTime
  <2>2. PICK n \in Nat : n = Len(r.hits)
    BY <1>2
  <2>3. PICK a : a = r.hits
    OBVIOUS
  <2>4. PICK b : b = s.hits
    OBVIOUS
  <2>5. a \in Seq(HitTime) /\ n = Len(a) /\ b = Append(a, h)
    BY <1>2, <1>6, <1>12, <2>1, <2>2, <2>3, <2>4
  <2>6. /\ b \in Seq(HitTime) /\ DOMAIN b = 1..(n + 1) /\ DOMAIN a = 1..n
        /\ b[n + 1] = h /\ \A q \in 1..n : b[q] = a[q]
    BY ONLY <2>1, <2>2, <2>5
  <2>7. s \in ParserState
    BY <1>2, <1>6, <1>12, <2>4, <2>6 DEF ParserState
  <2>8. h.id = fs[k + 1].id /\ h.toa = TimeOf(fs[k + 1].value, InForce(fs, k + 1, o))
        /\ fs[k + 1].type = "hit"
    <3>1. InForce(fs, k + 1, o) = r.offset
      BY <1>3, <1>4, <1>12 DEF f
    <3> QED BY <1>12, <2>1, <3>1 DEF f, toa
  <2>9. \A q \in DOMAIN b : q \in 1..n \/ q = n + 1
    BY <2>6
  <2>10. \A q \in DOMAIN b : \E j \in 1..(k + 1) :
           /\ fs[j].type = "hit"
           /\ b[q].id = fs[j].id
           /\ b[q].toa = TimeOf(fs[j].value, InForce(fs, j, o))
    <3> SUFFICES ASSUME NEW q \in DOMAIN b
                 PROVE  \E j \in 1..(k + 1) :
                          /\ fs[j].type = "hit"
                          /\ b[q].id = fs[j].id
                          /\ b[q].toa = TimeOf(fs[j].value, InForce(fs, j, o))
      OBVIOUS
    <3>1. CASE q = n + 1
      <4>1. b[q] = h
        BY <2>6, <3>1
      <4> QED BY ONLY <1>8, <2>8, <4>1
    <3>2. CASE q \in 1..n
      <4>1. b[q] = r.hits[q] /\ q \in DOMAIN r.hits
        BY <2>3, <2>6, <3>2
      <4>2. PICK j \in 1..k : /\ fs[j].type = "hit"
                              /\ r.hits[q].id = fs[j].id
                              /\ r.hits[q].toa = TimeOf(fs[j].value, InForce(fs, j, o))
        BY ONLY <1>7, <4>1
      <4>3. j \in 1..(k + 1)
        BY <1>8
      <4> QED BY ONLY <4>1, <4>2, <4>3
    <3> QED BY <2>9, <3>1, <3>2
  <2>11. \A j \in 1..(k + 1) : fs[j].type = "hit" => \E q \in DOMAIN b : b[q].id = fs[j].id
    <3> SUFFICES ASSUME NEW j \in 1..(k + 1), fs[j].type = "hit"
                 PROVE  \E q \in DOMAIN b : b[q].id = fs[j].id
      OBVIOUS
    <3>1. CASE j = k + 1
      <4>1. n + 1 \in DOMAIN b
        BY <2>6
      <4> QED BY <2>6, <2>8, <3>1, <4>1
    <3>2. CASE j \in 1..k
      <4>1. PICK q \in DOMAIN r.hits : r.hits[q].id = fs[j].id
        BY <1>7, <3>2
      <4>2. q \in 1..n /\ q \in DOMAIN b
        BY <2>3, <2>6, <4>1
      <4> QED BY <2>3, <2>6, <4>1, <4>2
    <3> QED BY <1>8, <3>1, <3>2
  <2>12. \A q \in 1..n : a[q].id # h.id
    <3> SUFFICES ASSUME NEW q \in 1..n, a[q].id = h.id PROVE FALSE
      OBVIOUS
    <3>0. q \in DOMAIN r.hits /\ a[q] = r.hits[q]
      BY <2>3, <2>6
    <3>1. PICK j \in 1..k : fs[j].type = "hit" /\ a[q].id = fs[j].id
      BY ONLY <1>7, <3>0
    <3>2. j \in DOMAIN fs /\ k + 1 \in DOMAIN fs /\ j # k + 1
      BY <1>1, <3>1
    <3> QED BY <2>8, <3>1, <3>2 DEF HitsOnce
  <2>13. TimesOnce(b)
    <3> SUFFICES ASSUME NEW q \in DOMAIN b, NEW p \in DOMAIN b, b[q].id = b[p].id PROVE q = p
      BY DEF TimesOnce
    <3>1. \A i, j \in 1..n : a[i].id = a[j].id => i = j
      BY <2>3, <2>6 DEF TimesOnce
    <3> QED BY <2>6, <2>9, <2>12, <3>1
  <2> QED BY <1>9, <1>10, <2>4, <2>7, <2>10, <2>11, <2>13 DEF Parses, s, f
<1> QED BY <1>11, <1>12

LEMMA FramesParsed ==
    ASSUME NEW fs \in Seq(Frame), NEW st, st.offset \in Nat, st.total \in Nat, HitsOnce(fs)
    PROVE  /\ Parses(fs, st.offset, st.total, Len(fs), ParseFrames(st, fs))
           /\ TimesOnce(ParseFrames(st, fs).hits)
<1> DEFINE n == Len(fs)
           a == [hits |-> <<>>, offset |-> st.offset, total |-> st.total, final |-> FALSE]
           Rule(g) == [k \in 0..n |-> IF k = 0 THEN a ELSE ParseFrame(g[k - 1], fs[k])]
           parsed == CHOOSE g : g = Rule(g)
           F == [k \in 1..n |-> [r \in ParserState |-> ParseFrame(r, fs[k])]]
<1>1. n \in Nat /\ a \in ParserState
  BY DEF ParserState
<1>2. F \in [1..n -> [ParserState -> ParserState]]
  <2> SUFFICES ASSUME NEW k \in 1..n, NEW r \in ParserState
               PROVE  ParseFrame(r, fs[k]) \in ParserState
    OBVIOUS
  <2>1. PICK f \in Frame : f = fs[k]
    OBVIOUS
  <2>2. /\ r.hits \in Seq(HitTime) /\ r.offset \in Nat /\ r.total \in Nat
        /\ f.id \in Nat /\ f.value \in Nat
    BY DEF ParserState, Frame
  <2>3. PICK toa \in Nat : toa = TimeOf(f.value, r.offset)
    BY <2>2, Timed
  <2>4. PICK h \in HitTime : h = [id |-> f.id, toa |-> toa]
    BY <2>2, <2>3 DEF HitTime
  <2>5. PICK hs \in Seq(HitTime) : hs = IF f.type = "hit" THEN Append(r.hits, [id |-> f.id, toa |-> toa])
                                        ELSE r.hits
    <3>1. r.hits \in Seq(HitTime) /\ Append(r.hits, h) \in Seq(HitTime)
      BY <2>2
    <3> QED BY <2>4, <3>1
  <2>6. ParseFrame(r, f) =
          [hits |-> hs,
           offset |-> IF f.type = "offset" THEN f.value ELSE r.offset,
           total |-> IF f.type = "finished" THEN f.value ELSE r.total,
           final |-> IsEndFrame(f)]
    BY <2>3, <2>5 DEF ParseFrame
  <2>7. IsEndFrame(f) \in BOOLEAN
    BY DEF IsEndFrame
  <2>8. ParseFrame(r, f) \in ParserState
    BY <2>2, <2>5, <2>6, <2>7 DEF ParserState
  <2> QED BY <2>1, <2>8
<1>3. PICK g : Iterated(g, F, ParserState, a, n)
  <2>1. Iterable(F, ParserState, a, n)
    BY <1>1, <1>2 DEF Iterable
  <2> HIDE DEF F, a, n, parsed
  <2> QED BY <2>1, Iterates
<1>4. g \in [0..n -> ParserState] /\ g[0] = a /\ \A k \in 1..n : g[k] = F[k][g[k - 1]]
  <2> HIDE DEF F, a, n
  <2> QED BY <1>3 DEF Iterated
<1>5. g = Rule(g)
  <2>1. \A k \in 0..n : g[k] = IF k = 0 THEN a ELSE ParseFrame(g[k - 1], fs[k])
    <3> SUFFICES ASSUME NEW k \in 1..n PROVE g[k] = ParseFrame(g[k - 1], fs[k])
      <4>1. \A k \in 0..n : k = 0 \/ k \in 1..n
        BY <1>1
      <4>2. 0 \notin 1..n
        OBVIOUS
      <4> HIDE DEF n, a
      <4> QED BY <1>4, <4>1, <4>2
    <3>1. g[k] = F[k][g[k - 1]]
      <4> HIDE DEF F, n, a
      <4> QED BY <1>4
    <3>2. g[k - 1] \in ParserState
      <4> HIDE DEF F, n, a
      <4>1. k - 1 \in 0..n
        BY <1>1
      <4> QED BY <1>4, <4>1
    <3>3. PICK r \in ParserState : r = g[k - 1]
      BY <3>2
    <3>4. F[k][r] = ParseFrame(r, fs[k])
      <4> HIDE DEF n, a
      <4> QED BY <3>3
    <3> HIDE DEF n, F
    <3> QED BY <3>1, <3>3, <3>4
  <2> HIDE DEF n, a
  <2> QED BY <2>1, <1>4
<1>6. parsed = Rule(parsed)
  <2> HIDE DEF n, a
  <2> QED BY <1>5
<1>7. /\ parsed[0] = a
      /\ \A k \in 1..n : parsed[k] = ParseFrame(parsed[k - 1], fs[k])
  <2> HIDE DEF parsed
  <2>1. \A k \in 0..n : parsed[k] = IF k = 0 THEN a ELSE ParseFrame(parsed[k - 1], fs[k])
    <3> HIDE DEF n, a
    <3> QED BY <1>6
  <2>2. 0 \in 0..n /\ \A k \in 1..n : k \in 0..n /\ k # 0
    BY <1>1
  <2> HIDE DEF n, a
  <2> QED BY <2>1, <2>2
<1>8. ParseFrames(st, fs) = parsed[n]
  BY DEF ParseFrames
<1> DEFINE Parsed(k) == /\ Parses(fs, st.offset, st.total, k, parsed[k])
                        /\ TimesOnce(parsed[k].hits)
           T == {k \in Nat : k <= n => Parsed(k)}
<1> HIDE DEF parsed
<1>9. 0 \in T
  <2>1. InForce(fs, 0, st.offset) = st.offset
    BY InForceStep
  <2>2. Parsed(0)
    BY <1>1, <1>7, <2>1 DEF Parses, TimesOnce
  <2> HIDE DEF Parsed
  <2> QED BY <2>2
<1>10. ASSUME NEW k \in Nat, k \in T PROVE k + 1 \in T
  <2> SUFFICES ASSUME k + 1 <= n PROVE Parsed(k + 1)
    <3> HIDE DEF Parsed
    <3> QED OBVIOUS
  <2>1. k < n /\ k + 1 \in 1..n /\ (k + 1) - 1 = k /\ k <= n
    BY <1>1
  <2>2. Parsed(k)
    <3> HIDE DEF Parsed
    <3> QED BY <1>10, <2>1
  <2>3. parsed[k + 1] = ParseFrame(parsed[k], fs[k + 1])
    <3> HIDE DEF n
    <3> QED BY <1>7, <2>1
  <2>4. PICK o, t, r : o = st.offset /\ t = st.total /\ r = parsed[k]
    OBVIOUS
  <2>5. Parses(fs, o, t, k, r) /\ TimesOnce(r.hits) /\ k < Len(fs) /\ o \in Nat /\ t \in Nat
    BY <2>1, <2>2, <2>4
  <2>6. /\ Parses(fs, o, t, k + 1, ParseFrame(r, fs[k + 1]))
        /\ TimesOnce(ParseFrame(r, fs[k + 1]).hits)
    BY <2>5, FrameParsed
  <2> QED BY <2>3, <2>4, <2>6
<1>11. Nat \subseteq T
  <2> HIDE DEF T
  <2> QED BY <1>9, <1>10, Induction
<1>12. Parsed(n)
  <2> HIDE DEF Parsed, n
  <2> QED BY <1>1, <1>11
<1> QED BY <1>8, <1>12

LEMMA Appended ==
    ASSUME NEW S, NEW s \in Seq(S), NEW x \in S, NEW n, n = Len(s), NEW t, t = Append(s, x)
    PROVE  /\ n \in Nat /\ t \in Seq(S) /\ Len(t) = n + 1
           /\ DOMAIN s = 1..n /\ DOMAIN t = 1..(n + 1)
           /\ t[n + 1] = x /\ \A j \in 1..n : t[j] = s[j]
OBVIOUS

LEMMA InForceAppend ==
    ASSUME NEW fs \in Seq(Frame), NEW f \in Frame, NEW o
    PROVE  /\ \A j \in 0..Len(fs) : InForce(Append(fs, f), j, o) = InForce(fs, j, o)
           /\ After(Append(fs, f), o) = IF f.type = "offset" THEN f.value ELSE After(fs, o)
<1>1. PICK n, gs : n = Len(fs) /\ gs = Append(fs, f)
  OBVIOUS
<1>2. n \in Nat /\ Len(gs) = n + 1 /\ gs[n + 1] = f /\ \A j \in 1..n : gs[j] = fs[j]
  BY <1>1, Appended
<1>3. \A j \in 0..n : InForce(gs, j, o) = InForce(fs, j, o)
  <2>1. PICK b \in Nat : b = 0
    OBVIOUS
  <2>2. PartOf(fs, gs, b, n)
    BY <1>2, <2>1 DEF PartOf
  <2>3. \A j \in 0..n : InForce(gs, b + j, o) = InForce(fs, j, InForce(gs, b, o))
    BY <2>2, InForceShifted
  <2>4. InForce(gs, b, o) = o
    BY <2>1, InForceStep
  <2>5. \A j \in 0..n : b + j = j
    BY <2>1
  <2> QED BY <2>3, <2>4, <2>5
<1>4. InForce(gs, n + 1, o) = IF gs[n + 1].type = "offset" THEN gs[n + 1].value
                              ELSE InForce(gs, n, o)
  BY <1>2, InForceStep
<1>5. InForce(gs, n, o) = InForce(fs, n, o)
  BY <1>2, <1>3
<1> QED BY <1>1, <1>2, <1>3, <1>4, <1>5 DEF After

UnitOf(ts, i) == IF i = 0 THEN 0 ELSE ts[i] \div OffsetUnit

\* The frames have the first n hits, each once, with its time's low part, where the
\* offset in force is its high part.
Timely(fs, ts, n) ==
    /\ fs \in Seq(Frame)
    /\ \A j \in DOMAIN fs : fs[j].type = "hit" =>
         /\ fs[j].id \in 1..n
         /\ fs[j].value = ts[fs[j].id] % OffsetUnit
         /\ InForce(fs, j, 0) = ts[fs[j].id] \div OffsetUnit
    /\ HitsOnce(fs)
    /\ \A i \in 1..n : \E j \in DOMAIN fs : fs[j].type = "hit" /\ fs[j].id = i

\* One more frame.
LEMMA TimelyNext ==
    ASSUME NEW ts, NEW n \in Nat, NEW fs, Timely(fs, ts, n), NEW f \in Frame
    PROVE  /\ f.type # "hit" => Timely(Append(fs, f), ts, n)
           /\ f = Hit(n + 1, ts[n + 1]) /\ After(fs, 0) = UnitOf(ts, n + 1)
                => Timely(Append(fs, f), ts, n + 1)
<1>0. fs \in Seq(Frame)
  BY DEF Timely
<1>1. PICK l, gs : l = Len(fs) /\ gs = Append(fs, f)
  OBVIOUS
<1>2. /\ fs \in Seq(Frame) /\ DOMAIN fs = 1..l /\ DOMAIN gs = 1..(l + 1) /\ Len(gs) = l + 1
      /\ gs[l + 1] = f /\ \A j \in 1..l : gs[j] = fs[j]
      /\ l \in Nat /\ gs \in Seq(Frame)
  BY <1>0, <1>1, Appended
<1>3. /\ \A j \in 0..l : InForce(gs, j, 0) = InForce(fs, j, 0)
      /\ InForce(gs, l + 1, 0) = IF f.type = "offset" THEN f.value ELSE After(fs, 0)
  <2>1. PICK o : o = 0
    OBVIOUS
  <2>2. /\ \A j \in 0..Len(fs) : InForce(Append(fs, f), j, o) = InForce(fs, j, o)
        /\ After(Append(fs, f), o) = IF f.type = "offset" THEN f.value ELSE After(fs, o)
    BY <1>0, InForceAppend
  <2>3. After(gs, o) = InForce(gs, l + 1, o)
    BY <1>2 DEF After
  <2> QED BY <1>1, <2>1, <2>2, <2>3
<1>4. \A j \in 1..(l + 1) : j \in 1..l \/ j = l + 1
  BY <1>2
<1>5. \A j \in 1..l : j \in 0..l /\ j \in 1..(l + 1)
  BY <1>2
<1>6. \A j \in 1..l : fs[j].type = "hit" =>
         /\ fs[j].id \in 1..n
         /\ fs[j].value = ts[fs[j].id] % OffsetUnit
         /\ InForce(gs, j, 0) = ts[fs[j].id] \div OffsetUnit
  BY <1>2, <1>3, <1>5 DEF Timely
<1>7. /\ \A i, j \in 1..l : fs[i].type = "hit" /\ fs[j].type = "hit" /\ fs[i].id = fs[j].id => i = j
      /\ \A i \in 1..n : \E j \in 1..l : fs[j].type = "hit" /\ fs[j].id = i
  BY <1>2 DEF Timely, HitsOnce
<1>8. ASSUME f.type # "hit" PROVE Timely(gs, ts, n)
  <2>1. \A j \in DOMAIN gs : gs[j].type = "hit" => j \in 1..l /\ gs[j] = fs[j]
    BY <1>2, <1>4, <1>8
  <2>2. \A j \in DOMAIN gs : gs[j].type = "hit" =>
         /\ gs[j].id \in 1..n
         /\ gs[j].value = ts[gs[j].id] % OffsetUnit
         /\ InForce(gs, j, 0) = ts[gs[j].id] \div OffsetUnit
    BY <1>6, <2>1
  <2>3. HitsOnce(gs)
    BY <1>7, <2>1 DEF HitsOnce
  <2>4. \A i \in 1..n : \E j \in DOMAIN gs : gs[j].type = "hit" /\ gs[j].id = i
    BY <1>2, <1>5, <1>7
  <2> QED BY <1>2, <2>2, <2>3, <2>4 DEF Timely
<1>9. ASSUME f = Hit(n + 1, ts[n + 1]), After(fs, 0) = UnitOf(ts, n + 1)
      PROVE  Timely(gs, ts, n + 1)
  <2>1. /\ f.type = "hit" /\ f.id = n + 1 /\ f.value = ts[n + 1] % OffsetUnit
        /\ InForce(gs, l + 1, 0) = ts[n + 1] \div OffsetUnit
    <3>1. f.type = "hit" /\ f.id = n + 1 /\ f.value = ts[n + 1] % OffsetUnit
      BY <1>9 DEF Hit
    <3>2. UnitOf(ts, n + 1) = ts[n + 1] \div OffsetUnit
      BY DEF UnitOf
    <3> QED BY <1>3, <1>9, <3>1, <3>2
  <2>2. PICK k : k = n + 1
    OBVIOUS
  <2>3. k \in 1..k /\ k \notin 1..n /\ \A i \in 1..n : i \in 1..k
    BY <2>2
  <2>4. \A i \in 1..k : i \in 1..n \/ i = k
    BY <2>2
  <2>5. \A j \in DOMAIN gs : gs[j].type = "hit" =>
         /\ gs[j].id \in 1..k
         /\ gs[j].value = ts[gs[j].id] % OffsetUnit
         /\ InForce(gs, j, 0) = ts[gs[j].id] \div OffsetUnit
    <3> SUFFICES ASSUME NEW j \in 1..(l + 1), gs[j].type = "hit"
                 PROVE  /\ gs[j].id \in 1..k
                        /\ gs[j].value = ts[gs[j].id] % OffsetUnit
                        /\ InForce(gs, j, 0) = ts[gs[j].id] \div OffsetUnit
      BY <1>2
    <3>1. CASE j = l + 1
      BY <1>2, <2>1, <2>2, <2>3, <3>1
    <3>2. CASE j \in 1..l
      <4>1. gs[j] = fs[j]
        BY <1>2, <3>2
      <4> QED BY <1>6, <2>3, <3>2, <4>1
    <3> QED BY <1>4, <3>1, <3>2
  <2>6. HitsOnce(gs)
    <3>1. \A j \in 1..l : gs[j].type = "hit" => gs[j].id # k
      BY <1>2, <1>6, <2>3
    <3>2. gs[l + 1].id = k
      BY <1>2, <2>1, <2>2
    <3>3. \A i, j \in 1..l : gs[i].type = "hit" /\ gs[j].type = "hit" /\ gs[i].id = gs[j].id => i = j
      BY <1>2, <1>7
    <3> QED BY <1>2, <1>4, <3>1, <3>2, <3>3 DEF HitsOnce
  <2>7. \A i \in 1..k : \E j \in DOMAIN gs : gs[j].type = "hit" /\ gs[j].id = i
    <3> SUFFICES ASSUME NEW i \in 1..k PROVE \E j \in 1..(l + 1) : gs[j].type = "hit" /\ gs[j].id = i
      BY <1>2
    <3>1. CASE i = k
      <4>1. l + 1 \in 1..(l + 1)
        BY <1>2
      <4> QED BY <1>2, <2>1, <2>2, <3>1, <4>1
    <3>2. CASE i \in 1..n
      <4>1. PICK j \in 1..l : fs[j].type = "hit" /\ fs[j].id = i
        BY <1>7, <3>2
      <4> QED BY <1>2, <1>5, <4>1
    <3> QED BY <2>4, <3>1, <3>2
  <2> QED BY <1>2, <2>2, <2>5, <2>6, <2>7 DEF Timely
<1> QED BY <1>1, <1>8, <1>9

\* What Katherine sends for the i-th hit, behind what it sent before.
SentFor(ts, i, fs) ==
    Append(IF UnitOf(ts, i) = UnitOf(ts, i - 1) THEN fs ELSE Append(fs, Offset(UnitOf(ts, i))),
           Hit(i, ts[i]))

NoEnd(fs) == \A j \in DOMAIN fs : fs[j].type \in {"hit", "offset"}

Sending(fs, ts, i) == Timely(fs, ts, i) /\ After(fs, 0) = UnitOf(ts, i) /\ NoEnd(fs)

LEMMA UnitFacts ==
    ASSUME NEW n \in Nat, NEW ts \in [1..n -> 0..AcqTime]
    PROVE  /\ \A i \in 0..n : UnitOf(ts, i) \in Nat
           /\ \A i \in 1..n : Hit(i, ts[i]) \in Frame
           /\ \A i \in 0..n : Offset(UnitOf(ts, i)) \in Frame
<1>1. OffsetUnit \in Nat \ {0} /\ AcqTime \in Nat
  BY ReadoutAssumption DEF ReadoutAssumption
<1>2. ASSUME NEW i \in 1..n
      PROVE  ts[i] \div OffsetUnit \in Nat /\ ts[i] % OffsetUnit \in Nat
  <2>1. PICK t \in Nat : t = ts[i]
    BY <1>1
  <2>2. t \div OffsetUnit \in Nat /\ t % OffsetUnit \in Nat
    BY ONLY <1>1, t \in Nat
  <2> QED BY <2>1, <2>2
<1>3. \A i \in 0..n : UnitOf(ts, i) \in Nat
  BY <1>2 DEF UnitOf
<1>4. \A i \in 1..n : Hit(i, ts[i]) \in Frame
  <2> SUFFICES ASSUME NEW i \in 1..n PROVE Hit(i, ts[i]) \in Frame
    OBVIOUS
  <2>1. PICK v \in Nat : v = ts[i] % OffsetUnit
    BY <1>2
  <2>2. Hit(i, ts[i]) = [type |-> "hit", id |-> i, value |-> v]
    BY <2>1 DEF Hit
  <2> QED BY <2>2 DEF Frame
<1>5. \A i \in 0..n : Offset(UnitOf(ts, i)) \in Frame
  BY <1>3 DEF Offset, Frame
<1> QED BY <1>3, <1>4, <1>5

LEMMA SendingNext ==
    ASSUME NEW n \in Nat, NEW ts \in [1..n -> 0..AcqTime], NEW i \in Nat, i < n,
           NEW fs, Sending(fs, ts, i)
    PROVE  Sending(SentFor(ts, i + 1, fs), ts, i + 1)
<1>1. PICK k, u, v, h : k = i + 1 /\ u = UnitOf(ts, i) /\ v = UnitOf(ts, i + 1)
                        /\ h = Hit(i + 1, ts[i + 1])
  OBVIOUS
<1>2. k \in 1..n /\ k \in 0..n /\ k - 1 = i /\ i \in 0..n
  BY <1>1
<1>3. u \in Nat /\ v \in Nat /\ Offset(v) \in Frame /\ h \in Frame
  BY <1>1, <1>2, UnitFacts
<1>4. Timely(fs, ts, i) /\ After(fs, 0) = u /\ NoEnd(fs) /\ fs \in Seq(Frame)
  BY <1>1 DEF Sending, Timely
<1>5. PICK gs : gs = IF v = u THEN fs ELSE Append(fs, Offset(v))
  OBVIOUS
<1>6. Timely(gs, ts, i) /\ After(gs, 0) = v /\ NoEnd(gs) /\ gs \in Seq(Frame)
  <2>1. CASE v = u
    BY <1>4, <1>5, <2>1
  <2>2. CASE v # u
    <3>1. PICK f \in Frame : f = Offset(v)
      BY <1>3
    <3>2. f.type = "offset" /\ f.value = v
      BY <3>1 DEF Offset
    <3>3. gs = Append(fs, f)
      BY <1>5, <2>2, <3>1
    <3>4. Timely(gs, ts, i)
      BY <1>4, <3>2, <3>3, TimelyNext
    <3>5. After(gs, 0) = v
      <4>1. PICK o : o = 0
        OBVIOUS
      <4>2. After(Append(fs, f), o) = IF f.type = "offset" THEN f.value ELSE After(fs, o)
        BY <1>4, InForceAppend
      <4> QED BY <3>2, <3>3, <4>1, <4>2
    <3>6. NoEnd(gs)
      <4>1. PICK l : l = Len(fs)
        OBVIOUS
      <4>2. /\ l \in Nat /\ DOMAIN fs = 1..l /\ DOMAIN gs = 1..(l + 1)
            /\ gs[l + 1] = f /\ \A j \in 1..l : gs[j] = fs[j]
        BY <1>4, <3>3, <4>1, Appended
      <4>3. \A j \in 1..(l + 1) : j \in 1..l \/ j = l + 1
        BY <4>2
      <4> QED BY <1>4, <3>2, <4>2, <4>3 DEF NoEnd
    <3> QED BY <3>4, <3>5, <3>6 DEF Timely
  <2> QED BY <2>1, <2>2
<1>7. PICK hs : hs = Append(gs, h)
  OBVIOUS
<1>8. hs = SentFor(ts, i + 1, fs)
  <2>1. SentFor(ts, k, fs)
          = Append(IF UnitOf(ts, k) = UnitOf(ts, k - 1) THEN fs ELSE Append(fs, Offset(UnitOf(ts, k))),
                   Hit(k, ts[k]))
    BY DEF SentFor
  <2> QED BY <1>1, <1>2, <1>5, <1>7, <2>1
<1>9. Timely(hs, ts, i + 1)
  BY <1>1, <1>3, <1>6, <1>7, TimelyNext
<1>10. h.type = "hit"
  BY <1>1 DEF Hit
<1>11. After(hs, 0) = v
  <2>1. PICK o : o = 0
    OBVIOUS
  <2>2. After(Append(gs, h), o) = IF h.type = "offset" THEN h.value ELSE After(gs, o)
    BY <1>3, <1>6, InForceAppend
  <2> QED BY <1>6, <1>7, <1>10, <2>1, <2>2
<1>12. NoEnd(hs)
  <2>1. PICK l : l = Len(gs)
    OBVIOUS
  <2>2. /\ l \in Nat /\ DOMAIN gs = 1..l /\ DOMAIN hs = 1..(l + 1)
        /\ hs[l + 1] = h /\ \A j \in 1..l : hs[j] = gs[j]
    BY <1>3, <1>6, <1>7, <2>1, Appended
  <2>3. \A j \in 1..(l + 1) : j \in 1..l \/ j = l + 1
    BY <2>2
  <2> QED BY <1>6, <1>10, <2>2, <2>3 DEF NoEnd
<1> QED BY <1>1, <1>8, <1>9, <1>11, <1>12 DEF Sending

LEMMA HitFramesSending ==
    ASSUME NEW n \in Nat, NEW ts \in [1..n -> 0..AcqTime]
    PROVE  Sending(HitFrames(ts), ts, n) /\ Len(ts) = n
<1> DEFINE Rule(g) == [i \in 0..n |-> IF i = 0 THEN <<>> ELSE SentFor(ts, i, g[i - 1])]
           sent == CHOOSE g : g = Rule(g)
           F == [i \in 1..n |-> [fs \in Seq(Frame) |-> SentFor(ts, i, fs)]]
           a == <<>>
<1>1. Len(ts) = n /\ a \in Seq(Frame)
  OBVIOUS
<1>2. F \in [1..n -> [Seq(Frame) -> Seq(Frame)]]
  <2> SUFFICES ASSUME NEW i \in 1..n, NEW fs \in Seq(Frame)
               PROVE  SentFor(ts, i, fs) \in Seq(Frame)
    OBVIOUS
  <2>1. PICK f, h : f = Offset(UnitOf(ts, i)) /\ h = Hit(i, ts[i])
    OBVIOUS
  <2> HIDE DEF F
  <2>2. f \in Frame /\ h \in Frame
    <3>1. i \in 0..n
      OBVIOUS
    <3> QED BY <2>1, <3>1, UnitFacts
  <2>3. PICK gs \in Seq(Frame) : gs = IF UnitOf(ts, i) = UnitOf(ts, i - 1) THEN fs ELSE Append(fs, f)
    <3>1. Append(fs, f) \in Seq(Frame)
      BY <2>2
    <3> QED BY <3>1
  <2>4. Append(gs, h) \in Seq(Frame)
    BY <2>2
  <2> QED BY <2>1, <2>3, <2>4 DEF SentFor
<1>3. PICK g : Iterated(g, F, Seq(Frame), a, n)
  <2>1. Iterable(F, Seq(Frame), a, n)
    BY <1>1, <1>2 DEF Iterable
  <2> HIDE DEF F, a, sent
  <2> QED BY <2>1, Iterates
<1>4. g \in [0..n -> Seq(Frame)] /\ g[0] = a /\ \A i \in 1..n : g[i] = F[i][g[i - 1]]
  <2> HIDE DEF F, a
  <2> QED BY <1>3 DEF Iterated
<1>5. g = Rule(g)
  <2>1. \A i \in 0..n : g[i] = IF i = 0 THEN <<>> ELSE SentFor(ts, i, g[i - 1])
    <3> SUFFICES ASSUME NEW i \in 1..n PROVE g[i] = SentFor(ts, i, g[i - 1])
      <4>1. \A i \in 0..n : i = 0 \/ i \in 1..n
        OBVIOUS
      <4>2. 0 \notin 1..n
        OBVIOUS
      <4> QED BY <1>4, <4>1, <4>2
    <3>1. g[i] = F[i][g[i - 1]]
      <4> HIDE DEF F, a
      <4> QED BY <1>4
    <3>2. PICK fs \in Seq(Frame) : fs = g[i - 1]
      <4> HIDE DEF F, a
      <4>1. i - 1 \in 0..n
        OBVIOUS
      <4> QED BY <1>4, <4>1
    <3>3. F[i][fs] = SentFor(ts, i, fs)
      BY <3>2
    <3> HIDE DEF F
    <3> QED BY <3>1, <3>2, <3>3
  <2> QED BY <2>1, <1>4
<1>6. sent = Rule(sent)
  BY <1>5
<1>7. /\ sent[0] = <<>>
      /\ \A i \in 1..n : sent[i] = SentFor(ts, i, sent[i - 1])
  <2> HIDE DEF sent
  <2>1. \A i \in 0..n : sent[i] = IF i = 0 THEN <<>> ELSE SentFor(ts, i, sent[i - 1])
    BY <1>6
  <2>2. 0 \in 0..n /\ \A i \in 1..n : i \in 0..n /\ i # 0
    OBVIOUS
  <2> QED BY <2>1, <2>2
<1>8. HitFrames(ts) = sent[n]
  BY <1>1 DEF HitFrames, SentFor, UnitOf
<1> HIDE DEF sent
<1> DEFINE T == {i \in Nat : i <= n => Sending(sent[i], ts, i)}
<1>9. 0 \in T
  <2>1. PICK fs : fs = sent[0]
    OBVIOUS
  <2>2. fs \in Seq(Frame) /\ Len(fs) = 0 /\ DOMAIN fs = {}
    BY <1>7, <2>1
  <2>3. After(fs, 0) = 0
    BY <2>2, InForceStep DEF After
  <2>4. Timely(fs, ts, 0) /\ NoEnd(fs)
    BY <2>2 DEF Timely, NoEnd, HitsOnce
  <2> QED BY <2>1, <2>3, <2>4 DEF Sending, UnitOf
<1>10. ASSUME NEW i \in Nat, i \in T PROVE i + 1 \in T
  <2> SUFFICES ASSUME i + 1 <= n PROVE Sending(sent[i + 1], ts, i + 1)
    OBVIOUS
  <2>1. i < n /\ i <= n /\ i + 1 \in 1..n /\ (i + 1) - 1 = i
    OBVIOUS
  <2>2. PICK fs : fs = sent[i]
    OBVIOUS
  <2>3. Sending(fs, ts, i)
    BY <1>10, <2>1, <2>2
  <2>4. Sending(SentFor(ts, i + 1, fs), ts, i + 1)
    BY <2>1, <2>3, SendingNext
  <2>5. sent[i + 1] = SentFor(ts, i + 1, fs)
    BY <1>7, <2>1, <2>2
  <2> QED BY <2>4, <2>5
<1>11. Nat \subseteq T
  <2> HIDE DEF T
  <2> QED BY <1>9, <1>10, Induction
<1> QED BY <1>1, <1>8, <1>11

-----------------------------------------------------------------------------
(* An acquisition: the hits, then the end.                                 *)

\* Once there are all hits, and the frame that says how many comes after them.
Acquisition(fs, ts) ==
    /\ Timely(fs, ts, Len(ts))
    /\ Len(ts) \in Nat
    /\ ts \in [1..Len(ts) -> 0..AcqTime]
    /\ \A j \in DOMAIN fs : fs[j].type = "finished" =>
         /\ fs[j].value = Len(ts)
         /\ \A i \in DOMAIN fs : fs[i].type = "hit" => i < j

LEMMA EndAdded ==
    ASSUME NEW ts, NEW fs, Acquisition(fs, ts), NEW f \in Frame,
           f.type # "hit", f.type = "finished" => f.value = Len(ts)
    PROVE  Acquisition(Append(fs, f), ts)
<1>1. PICK l, gs, n : l = Len(fs) /\ gs = Append(fs, f) /\ n = Len(ts)
  OBVIOUS
<1>2. Timely(fs, ts, n) /\ n \in Nat /\ fs \in Seq(Frame)
  BY <1>1 DEF Acquisition, Timely
<1>3. /\ l \in Nat /\ DOMAIN fs = 1..l /\ DOMAIN gs = 1..(l + 1)
      /\ gs[l + 1] = f /\ \A j \in 1..l : gs[j] = fs[j]
  BY <1>1, <1>2, Appended
<1>4. /\ \A j \in 1..(l + 1) : j \in 1..l \/ j = l + 1
      /\ \A j \in 1..l : j < l + 1
  BY <1>3
<1>5. Timely(gs, ts, n)
  BY <1>1, <1>2, TimelyNext
<1>6. \A j \in 1..l : fs[j].type = "finished" =>
         /\ fs[j].value = n
         /\ \A i \in 1..l : fs[i].type = "hit" => i < j
  BY <1>1, <1>3 DEF Acquisition
<1>7. \A j \in DOMAIN gs : gs[j].type = "finished" =>
         /\ gs[j].value = n
         /\ \A i \in DOMAIN gs : gs[i].type = "hit" => i < j
  <2> SUFFICES ASSUME NEW j \in 1..(l + 1), gs[j].type = "finished"
               PROVE  /\ gs[j].value = n
                      /\ \A i \in 1..(l + 1) : gs[i].type = "hit" => i < j
    BY <1>3
  <2>1. \A i \in 1..(l + 1) : gs[i].type = "hit" => i \in 1..l /\ fs[i].type = "hit"
    BY <1>3, <1>4
  <2>2. CASE j = l + 1
    BY <1>1, <1>3, <1>4, <2>1, <2>2
  <2>3. CASE j \in 1..l
    BY <1>3, <1>6, <2>1, <2>3
  <2> QED BY <1>4, <2>2, <2>3
<1>8. ts \in [1..n -> 0..AcqTime]
  BY <1>1 DEF Acquisition
<1> QED BY <1>1, <1>2, <1>5, <1>7, <1>8 DEF Acquisition

LEMMA AcquisitionSent ==
    ASSUME NEW ts \in Times, NEW ending \in Endings(Len(ts))
    PROVE  Acquisition(HitFrames(ts) \o ending, ts)
<1>1. PICK n \in Nat : ts \in [1..n -> 0..AcqTime]
  <2>1. MaxHits \in Nat
    BY ReadoutAssumption DEF ReadoutAssumption
  <2>2. \E n \in 0..MaxHits : ts \in [1..n -> 0..AcqTime]
    BY DEF Times
  <2> QED BY <2>1, <2>2
<1>2. Sending(HitFrames(ts), ts, n) /\ Len(ts) = n
  BY <1>1, HitFramesSending
<1>3. PICK fs : fs = HitFrames(ts)
  OBVIOUS
<1>4. fs \in Seq(Frame) /\ Timely(fs, ts, n) /\ NoEnd(fs)
  BY <1>2, <1>3 DEF Sending, Timely
<1>5. Acquisition(fs, ts)
  BY <1>1, <1>2, <1>4 DEF Acquisition, NoEnd
<1>6. PICK f, g : f = Finished(n) /\ g = LostPixels
  OBVIOUS
<1>7. /\ f \in Frame /\ f.type = "finished" /\ f.value = Len(ts)
      /\ g \in Frame /\ g.type = "lost"
  BY <1>1, <1>2, <1>6 DEF Finished, LostPixels, Frame
<1>8. /\ Acquisition(Append(fs, f), ts)
      /\ Acquisition(Append(fs, g), ts)
  BY <1>5, <1>7, EndAdded
<1>9. /\ Acquisition(Append(Append(fs, f), g), ts)
      /\ Acquisition(Append(Append(fs, g), f), ts)
  <2>1. PICK s, t : s = Append(fs, f) /\ t = Append(fs, g)
    OBVIOUS
  <2>2. Acquisition(Append(s, g), ts) /\ Acquisition(Append(t, f), ts)
    BY <1>7, <1>8, <2>1, EndAdded
  <2> QED BY <2>1, <2>2
<1>10. /\ fs \o <<f>> = Append(fs, f)
       /\ fs \o <<f, g>> = Append(Append(fs, f), g)
       /\ fs \o <<g, f>> = Append(Append(fs, g), f)
  BY <1>4, <1>7
<1>11. ending \in {<<f>>, <<f, g>>, <<g, f>>}
  BY <1>2, <1>6 DEF Endings
<1> QED BY <1>3, <1>8, <1>9, <1>10, <1>11

-----------------------------------------------------------------------------
(* The inductive invariant of the data.                                    *)

Datagram == [no : Nat, frames : Seq(Frame)]

DataTypes ==
    /\ datagrams \in Seq(Datagram)
    /\ toSend \in [frames : Seq(Frame), times : Seq(0..AcqTime)]
    /\ wire \in Seq(Datagram)
    /\ socket \in Seq(Datagram)
    /\ received \in Seq(DOMAIN datagrams)
    /\ output \in Seq(HitTime)
    /\ parser \in [offset : Nat, total : Nat]
    /\ \A n \in DOMAIN datagrams : datagrams[n].no = n

\* No datagram is in two places.
Numbers(s) == {s[i].no : i \in DOMAIN s}
Different(s) == \A i, j \in DOMAIN s : s[i].no = s[j].no => i = j

AsSent(s, ds) == \A i \in DOMAIN s : s[i].no \in DOMAIN ds /\ s[i] = ds[s[i].no]

Places(w, s, r, ds) ==
    /\ AsSent(w, ds) /\ AsSent(s, ds)
    /\ Different(w) /\ Different(s)
    /\ \A p, q \in DOMAIN r : r[p] = r[q] => p = q
    /\ Numbers(w) \cap Numbers(s) = {}
    /\ Numbers(w) \cap Range(r) = {}
    /\ Numbers(s) \cap Range(r) = {}

OnePlace == Places(wire, socket, received, datagrams)

\* The datagrams and what is not yet in one are the acquisition, cut into parts:
\* part n begins after frame b[n].
Parts == 1..(Len(datagrams) + 1)
FramesOf(n) == IF n \in DOMAIN datagrams THEN datagrams[n].frames ELSE toSend.frames

\* The offset that a parser has after datagrams ns.
Known(n) == IF n = 0 THEN 0 ELSE After(datagrams[n].frames, 0)
KnownBy(ns) == Known(LastOffset(ns))
Start(n) == KnownBy(SentBefore(n))
Heard(p) == KnownBy(SubSeq(received, 1, p))

Cut(fs, b) ==
    /\ b \in [Parts -> Nat]
    /\ \A n \in Parts : \A j \in DOMAIN FramesOf(n) :
         b[n] + j \in DOMAIN fs /\ fs[b[n] + j] = FramesOf(n)[j]
    /\ \A q \in DOMAIN fs : \E n \in Parts : \E j \in DOMAIN FramesOf(n) : q = b[n] + j
    /\ \A n, m \in Parts : n < m => b[n] + Len(FramesOf(n)) <= b[m]
    /\ \A n \in Parts : Start(n) = InForce(fs, b[n], 0)

InParts == \E fs, b : Acquisition(fs, toSend.times) /\ Cut(fs, b)

\* The j-th frame of datagram n is that of hit i; what a parser makes of its time.
HitAt(n, j, i) ==
    /\ n \in DOMAIN datagrams
    /\ j \in DOMAIN datagrams[n].frames
    /\ datagrams[n].frames[j].type = "hit"
    /\ datagrams[n].frames[j].id = i

TimeAt(n, j, o) == TimeOf(datagrams[n].frames[j].value, InForce(datagrams[n].frames, j, o))

EndAt(n, j, t) ==
    /\ n \in DOMAIN datagrams
    /\ j \in DOMAIN datagrams[n].frames
    /\ datagrams[n].frames[j].type = "finished"
    /\ datagrams[n].frames[j].value = t

\* What was written is what was received, timed by the offsets received before it.
Written ==
    /\ parser.offset = Heard(Len(received))
    /\ \A q \in DOMAIN output : \E p \in DOMAIN received, j \in Nat :
         /\ HitAt(received[p], j, output[q].id)
         /\ output[q].toa = TimeAt(received[p], j, Heard(p - 1))
    /\ \A p \in DOMAIN received, j, i \in Nat :
         HitAt(received[p], j, i) => \E q \in DOMAIN output : output[q].id = i
    /\ TimesOnce(output)
    /\ parser.total = 0 \/ \E n, j \in Nat : EndAt(n, j, parser.total)

DataInv == DataTypes /\ OnePlace /\ InParts /\ Written

-----------------------------------------------------------------------------
(* The offset a parser has.                                                *)

LEMMA LastOffsetAppended ==
    ASSUME NEW ns \in Seq(Nat), NEW m \in Nat
    PROVE  LastOffset(Append(ns, m)) = IF HasOffset(m) THEN m ELSE LastOffset(ns)
<1>1. PICK l, ms : l = Len(ns) /\ ms = Append(ns, m)
  OBVIOUS
<1>2. /\ l \in Nat /\ DOMAIN ns = 1..l /\ DOMAIN ms = 1..(l + 1)
      /\ ms[l + 1] = m /\ \A j \in 1..l : ms[j] = ns[j]
  BY <1>1, Appended
<1> DEFINE A == {i \in DOMAIN ns : HasOffset(ns[i])}
           B == {i \in DOMAIN ms : HasOffset(ms[i])}
<1>3. /\ LastOffset(ns) = IF A = {} THEN 0 ELSE ns[Max(A)]
      /\ LastOffset(ms) = IF B = {} THEN 0 ELSE ms[Max(B)]
  BY DEF LastOffset
<1>4. /\ \A j \in 1..(l + 1) : j \in 1..l \/ j = l + 1
      /\ \A j \in 1..l : j \in 1..(l + 1)
      /\ l + 1 \in 1..(l + 1)
  BY <1>2
<1>5. CASE HasOffset(m)
  <2>1. l + 1 \in B /\ B \in SUBSET Int /\ \A j \in B : j <= l + 1
    BY <1>2, <1>4, <1>5
  <2> HIDE DEF B
  <2>2. PICK k : k = l + 1
    OBVIOUS
  <2>3. Max(B) = k
    BY <2>1, <2>2, MaxIs
  <2> QED BY <1>1, <1>2, <1>3, <1>5, <2>1, <2>2, <2>3
<1>6. CASE ~HasOffset(m)
  <2>1. A = B
    BY <1>2, <1>4, <1>6
  <2>2. A # {} => Max(A) \in 1..l
    <3>1. A \in SUBSET (0..l) /\ A \subseteq 1..l
      BY <1>2
    <3> HIDE DEF A
    <3> QED BY <1>2, <3>1, MaxIn
  <2> HIDE DEF A, B
  <2>3. A # {} => ms[Max(A)] = ns[Max(A)]
    BY <1>2, <2>2
  <2> QED BY <1>1, <1>3, <1>6, <2>1, <2>3
<1> QED BY <1>5, <1>6

LEMMA LastOffsetIn ==
    ASSUME NEW S \in SUBSET Nat, NEW ns \in Seq(S)
    PROVE  LastOffset(ns) = 0 \/ LastOffset(ns) \in S
<1>1. PICK l \in Nat : l = Len(ns) /\ DOMAIN ns = 1..l
  OBVIOUS
<1> DEFINE A == {i \in DOMAIN ns : HasOffset(ns[i])}
<1>2. LastOffset(ns) = IF A = {} THEN 0 ELSE ns[Max(A)]
  BY DEF LastOffset
<1>3. A # {} => Max(A) \in 1..l
  <2>1. A \in SUBSET (0..l) /\ A \subseteq 1..l
    BY <1>1
  <2> HIDE DEF A
  <2> QED BY <1>1, <2>1, MaxIn
<1> HIDE DEF A
<1>4. \A i \in 1..l : ns[i] \in S
  BY <1>1
<1> QED BY <1>2, <1>3, <1>4

\* A datagram with an offset leaves its last one in force, whatever was before.
LEMMA AfterOffset ==
    ASSUME DataTypes, NEW n \in DOMAIN datagrams, NEW o
    PROVE  After(datagrams[n].frames, o) = IF HasOffset(n) THEN Known(n) ELSE o
<1>1. PICK fs \in Seq(Frame) : fs = datagrams[n].frames
  <2>1. datagrams[n] \in Datagram
    BY DEF DataTypes
  <2> QED BY <2>1 DEF Datagram
<1>2. n # 0
  BY DEF DataTypes
<1>3. HasOffset(n) <=> OffsetsIn(fs, Len(fs)) # {}
  BY <1>1 DEF HasOffset, Range, OffsetsIn
<1> QED BY <1>1, <1>2, <1>3 DEF After, InForce, Known

LEMMA KnownByMore ==
    ASSUME DataTypes, NEW ns \in Seq(DOMAIN datagrams), NEW m \in DOMAIN datagrams
    PROVE  KnownBy(Append(ns, m)) = After(datagrams[m].frames, KnownBy(ns))
<1>1. ns \in Seq(Nat) /\ m \in Nat
  BY DEF DataTypes
<1>2. LastOffset(Append(ns, m)) = IF HasOffset(m) THEN m ELSE LastOffset(ns)
  BY <1>1, LastOffsetAppended
<1>3. PICK o : o = KnownBy(ns)
  OBVIOUS
<1>4. After(datagrams[m].frames, o) = IF HasOffset(m) THEN Known(m) ELSE o
  BY AfterOffset
<1> QED BY <1>2, <1>3, <1>4 DEF KnownBy

\* What is known of datagrams does not change when others are sent.
MoreSent ==
    \A n \in DOMAIN datagrams : n \in DOMAIN datagrams' /\ datagrams'[n] = datagrams[n]

LEMMA KnownBySame ==
    ASSUME DataTypes, MoreSent, NEW ns \in Seq(DOMAIN datagrams)
    PROVE  KnownBy(ns)' = KnownBy(ns)
<1>1. \A n \in DOMAIN datagrams : HasOffset(n)' <=> HasOffset(n)
  BY DEF MoreSent, HasOffset
<1>2. \A i \in DOMAIN ns : HasOffset(ns[i])' <=> HasOffset(ns[i])
  BY <1>1
<1>3. LastOffset(ns)' = LastOffset(ns)
  BY <1>2 DEF LastOffset
<1>4. PICK m : m = LastOffset(ns)
  OBVIOUS
<1>5. m = 0 \/ m \in DOMAIN datagrams
  <2>1. DOMAIN datagrams \in SUBSET Nat
    BY DEF DataTypes
  <2> QED BY <1>4, <2>1, LastOffsetIn
<1>6. Known(m)' = Known(m)
  BY <1>5 DEF Known, MoreSent
<1>7. KnownBy(ns)' = Known(m)'
  BY <1>3, <1>4 DEF KnownBy
<1>8. KnownBy(ns) = Known(m)
  BY <1>4 DEF KnownBy
<1> QED BY <1>6, <1>7, <1>8

-----------------------------------------------------------------------------
(* What follows from the invariant.                                        *)

\* Datagrams have each hit once, with its time where the offset that was sent
\* last is in force; and all of them, once they have the end.
LEMMA FramesHold ==
    ASSUME DataTypes, InParts
    PROVE  /\ \A n, m, j, k, i \in Nat : HitAt(n, j, i) /\ HitAt(m, k, i) => n = m /\ j = k
           /\ \A n, j, i \in Nat : HitAt(n, j, i) =>
                /\ i \in 1..Len(toSend.times)
                /\ datagrams[n].frames[j].value = toSend.times[i] % OffsetUnit
                /\ InForce(datagrams[n].frames, j, Start(n)) = toSend.times[i] \div OffsetUnit
           /\ \A m, k, t \in Nat : EndAt(m, k, t) =>
                /\ t = Len(toSend.times)
                /\ \A i \in 1..t : \E n, j \in Nat : HitAt(n, j, i)
<1>1. PICK fs, b : Acquisition(fs, toSend.times) /\ Cut(fs, b)
  BY DEF InParts
<1>2. PICK L \in Nat : L = Len(datagrams) /\ DOMAIN datagrams = 1..L /\ Parts = 1..(L + 1)
  BY DEF DataTypes, Parts
<1>3. PICK ts, N : ts = toSend.times /\ N = Len(ts)
  OBVIOUS
<1>4. Timely(fs, ts, N) /\ N \in Nat /\ fs \in Seq(Frame)
  BY <1>1, <1>3 DEF Acquisition, Timely
<1>5. \A n \in 1..L : n \in Parts /\ n \in DOMAIN datagrams /\ FramesOf(n) = datagrams[n].frames
  BY <1>2 DEF FramesOf
<1>6. \A n \in 1..L : datagrams[n].frames \in Seq(Frame)
  <2>1. \A n \in 1..L : datagrams[n] \in Datagram
    BY <1>2 DEF DataTypes
  <2> QED BY <2>1 DEF Datagram
<1>7. \A n \in Parts : b[n] \in Nat
  BY <1>1 DEF Cut
<1>8. \A n \in 1..L : \A j \in DOMAIN datagrams[n].frames :
        b[n] + j \in DOMAIN fs /\ fs[b[n] + j] = datagrams[n].frames[j]
  BY <1>1, <1>5 DEF Cut
<1>9. \A n, j, i \in Nat : HitAt(n, j, i) =>
        /\ n \in 1..L /\ j \in DOMAIN datagrams[n].frames /\ j \in 1..Len(datagrams[n].frames)
        /\ b[n] + j \in DOMAIN fs
        /\ fs[b[n] + j].type = "hit" /\ fs[b[n] + j].id = i
        /\ fs[b[n] + j] = datagrams[n].frames[j]
  BY <1>2, <1>6, <1>8 DEF HitAt
\* Places of different parts differ.
<1>10. \A n, m \in 1..L : \A j \in DOMAIN datagrams[n].frames, k \in DOMAIN datagrams[m].frames :
         n < m => b[n] + j < b[m] + k
  <2> SUFFICES ASSUME NEW n \in 1..L, NEW m \in 1..L, NEW j \in DOMAIN datagrams[n].frames,
                      NEW k \in DOMAIN datagrams[m].frames, n < m
               PROVE  b[n] + j < b[m] + k
    OBVIOUS
  <2>1. b[n] + Len(FramesOf(n)) <= b[m]
    BY <1>1, <1>5 DEF Cut
  <2>2. PICK x \in Nat, y \in Nat, l \in Nat : x = b[n] /\ y = b[m] /\ l = Len(datagrams[n].frames)
    BY <1>5, <1>6, <1>7
  <2>3. j \in 1..l /\ k \in Nat /\ k > 0
    BY <1>6, <2>2
  <2>4. x + l <= y
    BY <1>5, <2>1, <2>2
  <2>5. x + j < y + k
    BY ONLY x \in Nat, y \in Nat, l \in Nat, <2>3, <2>4
  <2> QED BY <2>2, <2>5
<1>11. ASSUME NEW n \in Nat, NEW m \in Nat, NEW j \in Nat, NEW k \in Nat, NEW i \in Nat,
              HitAt(n, j, i), HitAt(m, k, i)
       PROVE  n = m /\ j = k
  <2>1. /\ n \in 1..L /\ m \in 1..L
        /\ j \in DOMAIN datagrams[n].frames /\ k \in DOMAIN datagrams[m].frames
    BY <1>9, <1>11
  <2>2. PICK p, q : p = b[n] + j /\ q = b[m] + k
    OBVIOUS
  <2>3. /\ p \in DOMAIN fs /\ fs[p].type = "hit" /\ fs[p].id = i
        /\ q \in DOMAIN fs /\ fs[q].type = "hit" /\ fs[q].id = i
    BY <1>9, <1>11, <2>2
  <2>4. p = q
    BY <1>4, <2>3 DEF Timely, HitsOnce
  <2>5. (n < m => p < q) /\ (m < n => q < p)
    BY <1>10, <2>1, <2>2
  <2>6. PICK x \in Nat, y \in Nat : x = b[n] /\ y = b[m]
    BY <1>5, <1>7, <2>1
  <2>7. n = m
    BY <2>2, <2>4, <2>5, <2>6
  <2> QED BY <2>2, <2>4, <2>6, <2>7
<1>12. ASSUME NEW n \in Nat, NEW j \in Nat, NEW i \in Nat, HitAt(n, j, i)
       PROVE  /\ i \in 1..N
              /\ datagrams[n].frames[j].value = ts[i] % OffsetUnit
              /\ InForce(datagrams[n].frames, j, Start(n)) = ts[i] \div OffsetUnit
  <2>1. PICK p : p = b[n] + j
    OBVIOUS
  <2>2. /\ n \in 1..L /\ j \in 1..Len(datagrams[n].frames)
        /\ p \in DOMAIN fs /\ fs[p].type = "hit" /\ fs[p].id = i
        /\ fs[p] = datagrams[n].frames[j]
    BY <1>9, <1>12, <2>1
  <2>3. /\ i \in 1..N /\ fs[p].value = ts[i] % OffsetUnit
        /\ InForce(fs, p, 0) = ts[i] \div OffsetUnit
    BY <1>4, <2>2 DEF Timely
  <2>4. PICK gs, x, l, z : gs = datagrams[n].frames /\ x = b[n] /\ l = Len(gs) /\ z = 0
    OBVIOUS
  <2>5. PartOf(gs, fs, x, l)
    <3>1. x \in Nat /\ l \in Nat /\ DOMAIN gs = 1..l
      BY <1>5, <1>6, <1>7, <2>2, <2>4
    <3>2. \A h \in 1..l : gs[h] = fs[x + h]
      BY <1>8, <2>2, <2>4, <3>1
    <3> QED BY <3>1, <3>2 DEF PartOf
  <2>6. InForce(fs, x + j, z) = InForce(gs, j, InForce(fs, x, z))
    <3>1. \A h \in 0..l : InForce(fs, x + h, z) = InForce(gs, h, InForce(fs, x, z))
      BY <2>5, InForceShifted
    <3>2. j \in 0..l
      BY <2>2, <2>4
    <3> QED BY <3>1, <3>2
  <2>7. Start(n) = InForce(fs, x, z)
    BY <1>1, <1>5, <2>2, <2>4 DEF Cut
  <2> QED BY <2>1, <2>2, <2>3, <2>4, <2>6, <2>7
<1>13. ASSUME NEW m \in Nat, NEW k \in Nat, NEW t \in Nat, EndAt(m, k, t)
       PROVE  t = N /\ \A i \in 1..t : \E n, j \in Nat : HitAt(n, j, i)
  <2>1. /\ m \in 1..L /\ k \in DOMAIN datagrams[m].frames
        /\ datagrams[m].frames[k].type = "finished" /\ datagrams[m].frames[k].value = t
    BY <1>2, <1>13 DEF EndAt
  <2>2. PICK q : q = b[m] + k
    OBVIOUS
  <2>3. q \in DOMAIN fs /\ fs[q].type = "finished" /\ fs[q].value = t
    BY <1>8, <2>1, <2>2
  <2>4. t = N /\ \A p \in DOMAIN fs : fs[p].type = "hit" => p < q
    BY <1>1, <1>3, <2>3 DEF Acquisition
  <2>5. ASSUME NEW i \in 1..N PROVE \E n, j \in Nat : HitAt(n, j, i)
    <3>1. PICK p \in DOMAIN fs : fs[p].type = "hit" /\ fs[p].id = i
      BY <1>4 DEF Timely
    <3>2. p < q
      BY <2>4, <3>1
    <3>3. PICK n \in Parts : \E j \in DOMAIN FramesOf(n) : p = b[n] + j
      BY <1>1 DEF Cut
    <3>4. PICK j \in DOMAIN FramesOf(n) : p = b[n] + j
      BY <3>3
    <3>5. fs[p] = FramesOf(n)[j]
      BY <1>1, <3>4 DEF Cut
    <3>6. j \in Nat /\ j > 0
      <4>1. FramesOf(n) \in Seq(Frame)
        BY <1>2, <1>6 DEF FramesOf, DataTypes
      <4> QED BY <4>1
    <3>7. n <= m
      <4> SUFFICES ASSUME m < n PROVE FALSE
        BY <1>2, <2>1
      <4>1. b[m] + Len(FramesOf(m)) <= b[n]
        BY <1>1, <1>5, <2>1 DEF Cut
      <4>2. PICK x \in Nat, y \in Nat, l \in Nat :
               x = b[m] /\ y = b[n] /\ l = Len(datagrams[m].frames)
        BY <1>5, <1>6, <1>7, <2>1
      <4>3. k \in 1..l
        BY <1>6, <2>1, <4>2
      <4>4. x + l <= y
        BY <1>5, <2>1, <4>1, <4>2
      <4>5. y + j < x + k
        BY <2>2, <3>2, <3>4, <4>2
      <4> QED BY ONLY x \in Nat, y \in Nat, l \in Nat, <3>6, <4>3, <4>4, <4>5
    <3>8. n \in 1..L
      BY <1>2, <2>1, <3>7
    <3>9. HitAt(n, j, i)
      BY <1>5, <3>1, <3>4, <3>5, <3>8 DEF HitAt
    <3> QED BY <1>2, <3>6, <3>8, <3>9
  <2> QED BY <2>4, <2>5
<1> QED BY <1>3, <1>11, <1>12, <1>13


-----------------------------------------------------------------------------
(* The invariant holds initially.                                          *)

LEMMA DataInit == Init => DataInv
<1> SUFFICES ASSUME Init PROVE DataInv
  OBVIOUS
<1>0. PICK ts \in Times : \E ending \in Endings(Len(ts)) :
         toSend = [frames |-> HitFrames(ts) \o ending, times |-> ts]
  BY DEF Init
<1>1. PICK ending \in Endings(Len(ts)) :
         toSend = [frames |-> HitFrames(ts) \o ending, times |-> ts]
  BY <1>0
<1>2. PICK fs : fs = HitFrames(ts) \o ending
  OBVIOUS
<1>3. Acquisition(fs, ts)
  BY <1>2, AcquisitionSent
<1>4. toSend.frames = fs /\ toSend.times = ts /\ toSend = [frames |-> fs, times |-> ts]
  BY <1>1, <1>2
<1>5. fs \in Seq(Frame) /\ ts \in Seq(0..AcqTime)
  <2>1. fs \in Seq(Frame) /\ \E n \in Nat : ts \in [1..n -> 0..AcqTime]
    BY <1>3 DEF Acquisition, Timely
  <2>2. PICK n \in Nat : ts \in [1..n -> 0..AcqTime]
    BY <2>1
  <2>3. PICK S : S = 0..AcqTime
    OBVIOUS
  <2>4. ts \in [1..n -> S]
    BY <2>2, <2>3
  <2>5. ts \in Seq(S)
    BY ONLY <2>4, n \in Nat
  <2> QED BY <2>1, <2>3, <2>5
<1>6. /\ wire = <<>> /\ socket = <<>> /\ received = <<>> /\ output = <<>> /\ datagrams = <<>>
      /\ parser = [offset |-> 0, total |-> 0]
  BY DEF Init
<1>7. DataTypes
  BY <1>4, <1>5, <1>6 DEF DataTypes
<1>8. OnePlace
  BY <1>6 DEF OnePlace, Places, AsSent, Different, Numbers, Range
<1>9. \A ns : ns = <<>> => KnownBy(ns) = 0
  BY DEF KnownBy, LastOffset, Known
<1>10. InParts
  <2>1. Parts = {1} /\ FramesOf(1) = fs
    BY <1>4, <1>6 DEF Parts, FramesOf
  <2>2. SentBefore(1) = <<>>
    BY DEF SentBefore
  <2>3. Start(1) = 0
    BY <1>9, <2>2 DEF Start
  <2>4. PICK b : b = [n \in Parts |-> 0]
    OBVIOUS
  <2>5. b \in [Parts -> Nat] /\ b[1] = 0
    BY <2>1, <2>4
  <2>6. \A j \in DOMAIN fs : 0 + j = j
    BY <1>5
  <2>7. InForce(fs, 0, 0) = 0
    BY InForceStep
  <2>8. \A n, m \in Parts : ~(n < m)
    BY <2>1
  <2>9. Cut(fs, b)
    <3>1. \A n \in Parts : \A j \in DOMAIN FramesOf(n) :
            b[n] + j \in DOMAIN fs /\ fs[b[n] + j] = FramesOf(n)[j]
      BY <2>1, <2>5, <2>6
    <3>2. \A q \in DOMAIN fs : \E n \in Parts : \E j \in DOMAIN FramesOf(n) : q = b[n] + j
      BY <2>1, <2>5, <2>6
    <3>3. \A n \in Parts : Start(n) = InForce(fs, b[n], 0)
      BY <2>1, <2>3, <2>5, <2>7
    <3> QED BY <2>5, <2>8, <3>1, <3>2, <3>3 DEF Cut
  <2> QED BY <1>3, <1>4, <2>9 DEF InParts
<1>11. Written
  <2>1. Len(received) = 0 /\ SubSeq(received, 1, 0) = <<>>
    BY <1>6
  <2>2. Heard(Len(received)) = 0
    BY <1>9, <2>1 DEF Heard
  <2> QED BY <1>6, <2>2 DEF Written, TimesOnce
<1> QED BY <1>7, <1>8, <1>10, <1>11 DEF DataInv


-----------------------------------------------------------------------------
(* Datagrams on their way are in one place each.                           *)

\* t is s without its element i.
Without(t, s, i) ==
    \E g \in [DOMAIN t -> DOMAIN s \ {i}] :
       /\ \A k \in DOMAIN t : t[k] = s[g[k]]
       /\ \A k, l \in DOMAIN t : g[k] = g[l] => k = l

LEMMA Removed ==
    ASSUME NEW S, NEW s \in Seq(S), NEW i \in DOMAIN s, NEW t, t = RemoveAt(s, i)
    PROVE  t \in Seq(S) /\ Without(t, s, i)
<1>1. PICK l \in Nat : l = Len(s) /\ DOMAIN s = 1..l
  OBVIOUS
<1>2. PICK a, b : a = SubSeq(s, 1, i - 1) /\ b = SubSeq(s, i + 1, l)
  OBVIOUS
<1>3. t = a \o b
  BY <1>1, <1>2 DEF RemoveAt
<1>4. i \in Nat /\ 1 <= i /\ i <= l
  BY <1>1
<1>5. a \in Seq(S) /\ Len(a) = i - 1 /\ \A k \in 1..(i - 1) : a[k] = s[k]
  BY <1>1, <1>2, <1>4
<1>6. b \in Seq(S) /\ Len(b) = l - i /\ \A k \in 1..(l - i) : b[k] = s[i + k]
  <2>1. b \in Seq(S) /\ Len(b) = l - i
    BY <1>1, <1>2, <1>4
  <2>2. ASSUME NEW k \in 1..(l - i) PROVE b[k] = s[i + k]
    <3>1. b[k] = s[i + 1 + k - 1]
      BY <1>1, <1>2, <1>4
    <3>2. i + 1 + k - 1 = i + k
      BY <1>1, <1>4
    <3> QED BY <3>1, <3>2
  <2> QED BY <2>1, <2>2
<1>7. t \in Seq(S) /\ Len(t) = l - 1 /\ DOMAIN t = 1..(l - 1)
  BY <1>1, <1>3, <1>4, <1>5, <1>6
<1>8. \A k \in 1..(l - 1) : t[k] = IF k < i THEN s[k] ELSE s[k + 1]
  <2> SUFFICES ASSUME NEW k \in 1..(l - 1)
               PROVE  t[k] = IF k < i THEN s[k] ELSE s[k + 1]
    OBVIOUS
  <2>1. t[k] = IF k <= Len(a) THEN a[k] ELSE b[k - Len(a)]
    BY <1>1, <1>3, <1>4, <1>5, <1>6
  <2>2. CASE k < i
    <3>1. k \in 1..(i - 1) /\ k <= Len(a)
      BY <1>4, <1>5, <2>2
    <3> QED BY <1>5, <2>1, <2>2, <3>1
  <2>3. CASE ~(k < i)
    <3>1. PICK j : j = k - Len(a)
      OBVIOUS
    <3>2. j \in 1..(l - i) /\ ~(k <= Len(a)) /\ i + j = k + 1
      BY <1>1, <1>4, <1>5, <2>3, <3>1
    <3> QED BY <1>6, <2>1, <2>3, <3>1, <3>2
  <2> QED BY <2>2, <2>3
<1> DEFINE g == [k \in 1..(l - 1) |-> IF k < i THEN k ELSE k + 1]
<1>9. \A k \in 1..(l - 1) : (IF k < i THEN k ELSE k + 1) \in 1..l \ {i}
  BY <1>1, <1>4
<1>10. g \in [1..(l - 1) -> 1..l \ {i}]
  BY <1>9
<1>11. \A k \in 1..(l - 1) : t[k] = s[g[k]]
  BY <1>8
<1>12. \A k, j \in 1..(l - 1) : g[k] = g[j] => k = j
  BY <1>1, <1>4
<1> HIDE DEF g
<1>13. /\ g \in [DOMAIN t -> DOMAIN s \ {i}]
       /\ \A k \in DOMAIN t : t[k] = s[g[k]]
       /\ \A k, j \in DOMAIN t : g[k] = g[j] => k = j
  BY <1>1, <1>7, <1>10, <1>11, <1>12
<1>14. Without(t, s, i)
  BY <1>13, Zenon DEF Without
<1> QED BY <1>7, <1>14

LEMMA HeadRemoved ==
    ASSUME NEW S, NEW s \in Seq(S), s # <<>>, NEW t, t = Tail(s)
    PROVE  t \in Seq(S) /\ 1 \in DOMAIN s /\ Without(t, s, 1)
<1>1. PICK l \in Nat : l = Len(s) /\ DOMAIN s = 1..l
  OBVIOUS
<1>2. l # 0
  BY <1>1
<1>3. t \in Seq(S) /\ DOMAIN t = 1..(l - 1) /\ \A k \in 1..(l - 1) : t[k] = s[k + 1]
  BY <1>1, <1>2
<1> DEFINE g == [k \in 1..(l - 1) |-> k + 1]
<1>4. /\ g \in [1..(l - 1) -> 1..l \ {1}]
      /\ \A k, j \in 1..(l - 1) : g[k] = g[j] => k = j
      /\ \A k \in 1..(l - 1) : t[k] = s[g[k]]
  BY <1>1, <1>2, <1>3
<1> HIDE DEF g
<1>5. /\ g \in [DOMAIN t -> DOMAIN s \ {1}]
      /\ \A k \in DOMAIN t : t[k] = s[g[k]]
      /\ \A k, j \in DOMAIN t : g[k] = g[j] => k = j
  BY <1>1, <1>3, <1>4
<1>6. Without(t, s, 1)
  BY <1>5, Zenon DEF Without
<1> QED BY <1>1, <1>2, <1>3, <1>6

LEMMA WithoutOne ==
    ASSUME NEW s, NEW i \in DOMAIN s, NEW t, Without(t, s, i), NEW ds,
           AsSent(s, ds), Different(s)
    PROVE  /\ AsSent(t, ds) /\ Different(t)
           /\ Numbers(t) \subseteq Numbers(s) /\ s[i].no \notin Numbers(t)
<1>1. PICK g \in [DOMAIN t -> DOMAIN s \ {i}] :
         /\ \A k \in DOMAIN t : t[k] = s[g[k]]
         /\ \A k, l \in DOMAIN t : g[k] = g[l] => k = l
  BY DEF Without
<1>2. \A k \in DOMAIN t : g[k] \in DOMAIN s /\ g[k] # i /\ t[k] = s[g[k]]
  BY <1>1
<1>3. AsSent(t, ds)
  BY <1>2 DEF AsSent
<1>4. Different(t)
  BY <1>1, <1>2 DEF Different
<1>5. Numbers(t) \subseteq Numbers(s)
  BY <1>2 DEF Numbers
<1>6. s[i].no \notin Numbers(t)
  BY <1>2 DEF Numbers, Different
<1> QED BY <1>3, <1>4, <1>5, <1>6

LEMMA WithOne ==
    ASSUME NEW S, NEW s \in Seq(S), NEW d \in S, NEW t, t = Append(s, d), NEW ds,
           AsSent(s, ds), Different(s), d.no \notin Numbers(s),
           d.no \in DOMAIN ds, d = ds[d.no]
    PROVE  /\ AsSent(t, ds) /\ Different(t) /\ Numbers(t) = Numbers(s) \cup {d.no}
<1>1. PICK n : n = Len(s)
  OBVIOUS
<1>2. /\ n \in Nat /\ DOMAIN s = 1..n /\ DOMAIN t = 1..(n + 1)
      /\ t[n + 1] = d /\ \A j \in 1..n : t[j] = s[j]
  BY <1>1, Appended
<1>3. /\ \A j \in 1..(n + 1) : j \in 1..n \/ j = n + 1
      /\ \A j \in 1..n : j \in 1..(n + 1)
      /\ n + 1 \in 1..(n + 1)
  BY <1>2
<1>4. AsSent(t, ds)
  BY <1>2, <1>3 DEF AsSent
<1>5. Different(t)
  BY <1>2, <1>3 DEF Different, Numbers
<1>6. Numbers(t) = Numbers(s) \cup {d.no}
  BY <1>2, <1>3 DEF Numbers
<1> QED BY <1>4, <1>5, <1>6


\* A datagram arrives: in the socket, or at a full one and is lost.
LEMMA PlacesArrived ==
    ASSUME NEW S, NEW w \in Seq(S), NEW s \in Seq(S), NEW r, NEW ds, Places(w, s, r, ds),
           NEW i \in DOMAIN w, NEW v, Without(v, w, i), NEW t, t = Append(s, w[i])
    PROVE  Places(v, s, r, ds) /\ Places(v, t, r, ds)
<1>1. /\ AsSent(v, ds) /\ Different(v) /\ Numbers(v) \subseteq Numbers(w)
      /\ w[i].no \notin Numbers(v)
  BY WithoutOne DEF Places
<1>2. Places(v, s, r, ds)
  BY <1>1 DEF Places
<1>3. PICK d \in S : d = w[i]
  OBVIOUS
<1>4. d.no \in Numbers(w) /\ d.no \in DOMAIN ds /\ d = ds[d.no]
  BY <1>3 DEF Places, AsSent, Numbers
<1>5. d.no \notin Numbers(s) /\ d.no \notin Range(r)
  BY <1>4 DEF Places
<1>6. AsSent(t, ds) /\ Different(t) /\ Numbers(t) = Numbers(s) \cup {d.no}
  BY <1>3, <1>4, <1>5, WithOne DEF Places
<1>7. Places(v, t, r, ds)
  BY <1>1, <1>3, <1>5, <1>6 DEF Places
<1> QED BY <1>2, <1>7

\* The reader takes a datagram from the socket.
LEMMA PlacesRead ==
    ASSUME NEW S, NEW w \in Seq(S), NEW s \in Seq(S), NEW N, NEW r \in Seq(N), NEW ds,
           Places(w, s, r, ds), s # <<>>, NEW t, t = Tail(s), s[1].no \in N,
           NEW u, u = Append(r, s[1].no)
    PROVE  Places(w, t, u, ds)
<1>1. 1 \in DOMAIN s /\ Without(t, s, 1)
  BY HeadRemoved
<1>2. /\ AsSent(t, ds) /\ Different(t) /\ Numbers(t) \subseteq Numbers(s)
      /\ s[1].no \notin Numbers(t)
  BY <1>1, WithoutOne DEF Places
<1>3. PICK x, n : x \in N /\ x = s[1].no /\ n = Len(r)
  OBVIOUS
<1>4. x \in Numbers(s)
  BY <1>1, <1>3 DEF Numbers
<1>5. x \notin Range(r) /\ x \notin Numbers(w)
  BY <1>4 DEF Places
<1>6. /\ n \in Nat /\ DOMAIN r = 1..n /\ DOMAIN u = 1..(n + 1)
      /\ u[n + 1] = x /\ \A j \in 1..n : u[j] = r[j]
  BY <1>3, Appended
<1>7. /\ \A j \in 1..(n + 1) : j \in 1..n \/ j = n + 1
      /\ \A j \in 1..n : j \in 1..(n + 1)
      /\ n + 1 \in 1..(n + 1)
  BY <1>6
<1>8. Range(u) = Range(r) \cup {x}
  BY <1>6, <1>7 DEF Range
<1>9. \A p, q \in DOMAIN u : u[p] = u[q] => p = q
  <2>1. \A p, q \in 1..n : r[p] = r[q] => p = q
    BY <1>6 DEF Places
  <2>2. \A p \in 1..n : r[p] # x
    BY <1>5, <1>6 DEF Range
  <2> QED BY <1>6, <1>7, <2>1, <2>2
<1> QED BY <1>2, <1>3, <1>5, <1>8, <1>9 DEF Places

\* Another datagram is sent.
LEMMA PlacesSent ==
    ASSUME NEW S, NEW w \in Seq(S), NEW s \in Seq(S), NEW ds \in Seq(S),
           NEW r \in Seq(DOMAIN ds), Places(w, s, r, ds),
           NEW d \in S, d.no = Len(ds) + 1, NEW v, v = Append(w, d), NEW es, es = Append(ds, d)
    PROVE  Places(v, s, r, es)
<1>1. PICK n : n = Len(ds)
  OBVIOUS
<1>2. /\ n \in Nat /\ DOMAIN ds = 1..n /\ DOMAIN es = 1..(n + 1)
      /\ es[n + 1] = d /\ \A j \in 1..n : es[j] = ds[j]
  BY <1>1, Appended
<1>3. /\ n + 1 \notin DOMAIN ds /\ d.no = n + 1 /\ d.no \in DOMAIN es
      /\ \A j \in DOMAIN ds : j \in DOMAIN es /\ es[j] = ds[j]
  BY <1>1, <1>2
<1>4. AsSent(w, es) /\ AsSent(s, es)
  BY <1>3 DEF Places, AsSent
<1>5. Numbers(w) \subseteq DOMAIN ds /\ Numbers(s) \subseteq DOMAIN ds
  BY DEF Places, AsSent, Numbers
<1>6. Range(r) \subseteq DOMAIN ds
  BY DEF Range
<1>7. AsSent(v, es) /\ Different(v) /\ Numbers(v) = Numbers(w) \cup {d.no}
  <2>1. d.no \notin Numbers(w) /\ d = es[d.no]
    BY <1>2, <1>3, <1>5
  <2> QED BY <1>3, <1>4, <2>1, WithOne DEF Places
<1> QED BY <1>3, <1>4, <1>5, <1>6, <1>7 DEF Places

-----------------------------------------------------------------------------
(* Steps that send and read nothing.                                       *)

LEMMA PartsKept ==
    ASSUME InParts, UNCHANGED <<datagrams, toSend>>
    PROVE  InParts'
<1>1. \A n : HasOffset(n)' <=> HasOffset(n)
  BY DEF HasOffset
<1>2. \A ns : LastOffset(ns)' = LastOffset(ns)
  BY <1>1 DEF LastOffset
<1>3. \A ns : KnownBy(ns)' = KnownBy(ns)
  BY <1>2 DEF KnownBy, Known
<1>4. \A n : Start(n)' = Start(n)
  BY <1>3 DEF Start, SentBefore
<1>5. Parts' = Parts /\ \A n : FramesOf(n)' = FramesOf(n)
  BY DEF Parts, FramesOf
<1>6. \A fs, b : Cut(fs, b)' <=> Cut(fs, b)
  BY <1>4, <1>5 DEF Cut
<1> QED BY <1>6 DEF InParts

\* What was written does not change.
LEMMA WrittenKept ==
    ASSUME DataTypes, MoreSent, Written, UNCHANGED <<received, parser, output>>
    PROVE  Written'
<1>1. PICK r, n : r = received /\ n = Len(r)
  OBVIOUS
<1>2. r \in Seq(DOMAIN datagrams) /\ n \in Nat /\ DOMAIN r = 1..n /\ r = received'
  BY <1>1 DEF DataTypes
<1>3. ASSUME NEW p \in 0..n PROVE Heard(p)' = Heard(p)
  <2>1. PICK ns : ns = SubSeq(r, 1, p)
    OBVIOUS
  <2>2. ns \in Seq(DOMAIN datagrams)
    BY <1>1, <1>2, <2>1
  <2>3. KnownBy(ns)' = KnownBy(ns)
    BY <2>2, KnownBySame
  <2>4. Heard(p) = KnownBy(ns)
    BY <1>1, <2>1 DEF Heard
  <2>5. Heard(p)' = KnownBy(ns)'
    BY <1>2, <2>1 DEF Heard
  <2> QED BY <2>3, <2>4, <2>5
<1>4. \A p \in DOMAIN r : r[p] \in DOMAIN datagrams /\ p - 1 \in 0..n
  BY <1>2
<1>5. parser.offset' = Heard(Len(received))'
  <2>1. parser.offset = Heard(n) /\ n \in 0..n
    BY <1>1, <1>2 DEF Written
  <2>2. Heard(Len(received))' = Heard(n)'
    BY <1>1, <1>2
  <2> QED BY <1>3, <2>1, <2>2
<1>6. \A m \in DOMAIN datagrams : \A j, i, o :
        /\ HitAt(m, j, i)' <=> HitAt(m, j, i)
        /\ TimeAt(m, j, o)' = TimeAt(m, j, o)
        /\ EndAt(m, j, o) => EndAt(m, j, o)'
  BY DEF MoreSent, HitAt, TimeAt, EndAt
<1>7. ASSUME NEW q \in DOMAIN output
      PROVE  \E p \in DOMAIN r, j \in Nat :
                HitAt(r[p], j, output[q].id)' /\ output[q].toa = TimeAt(r[p], j, Heard(p - 1))'
  <2>1. PICK p \in DOMAIN r, j \in Nat :
           HitAt(r[p], j, output[q].id) /\ output[q].toa = TimeAt(r[p], j, Heard(p - 1))
    BY <1>1 DEF Written
  <2>2. r[p] \in DOMAIN datagrams /\ Heard(p - 1)' = Heard(p - 1)
    BY <1>3, <1>4
  <2>3. PICK o, m : o = Heard(p - 1) /\ m = r[p]
    OBVIOUS
  <2>4. TimeAt(r[p], j, Heard(p - 1))' = TimeAt(m, j, o)'
    BY <2>2, <2>3
  <2>5. HitAt(r[p], j, output[q].id)'
    <3>1. PICK i : i = output[q].id
      OBVIOUS
    <3>2. HitAt(m, j, i)' <=> HitAt(m, j, i)
      BY <1>6, <2>2, <2>3
    <3>3. HitAt(m, j, i)
      BY <2>1, <2>3, <3>1
    <3>4. HitAt(r[p], j, output[q].id)' <=> HitAt(m, j, i)'
      BY <2>3, <3>1
    <3> QED BY <3>2, <3>3, <3>4
  <2>6. output[q].toa = TimeAt(r[p], j, Heard(p - 1))'
    <3>1. TimeAt(m, j, o)' = TimeAt(m, j, o)
      BY <1>6, <2>2, <2>3
    <3> QED BY <2>1, <2>3, <2>4, <3>1
  <2> QED BY <2>1, <2>5, <2>6
<1>8. \A p \in DOMAIN r, j, i \in Nat :
         HitAt(r[p], j, i)' => \E q \in DOMAIN output : output[q].id = i
  <2> SUFFICES ASSUME NEW p \in DOMAIN r, NEW j \in Nat, NEW i \in Nat, HitAt(r[p], j, i)'
               PROVE  \E q \in DOMAIN output : output[q].id = i
    OBVIOUS
  <2>1. PICK m : m = r[p]
    OBVIOUS
  <2>2. HitAt(m, j, i)' <=> HitAt(m, j, i)
    BY <1>4, <1>6, <2>1
  <2>3. HitAt(received[p], j, i)
    BY <1>1, <2>1, <2>2
  <2> QED BY <1>1, <2>3 DEF Written
<1>9. parser.total' = 0 \/ \E m, j \in Nat : EndAt(m, j, parser.total)'
  <2>1. \A m, j, t : EndAt(m, j, t) => m \in DOMAIN datagrams
    BY DEF EndAt
  <2> QED BY <1>6, <2>1 DEF Written
<1>10. TimesOnce(output')
  BY DEF Written
<1> QED BY <1>1, <1>2, <1>5, <1>7, <1>8, <1>9, <1>10 DEF Written


LEMMA ReadingKept ==
    ASSUME DataTypes, InParts, Written, UNCHANGED <<datagrams, toSend, received, parser, output>>
    PROVE  InParts' /\ Written'
<1>1. MoreSent
  BY DEF MoreSent
<1> QED BY <1>1, PartsKept, WrittenKept

LEMMA DataKept ==
    ASSUME DataInv, UNCHANGED <<data, parser, output, received>>
    PROVE  DataInv'
<1>1. InParts' /\ Written'
  BY ReadingKept DEF DataInv, data
<1>2. DataTypes' /\ OnePlace'
  BY DEF DataInv, DataTypes, OnePlace, data
<1> QED BY <1>1, <1>2 DEF DataInv


LEMMA DataArrives ==
    ASSUME DataInv, NEW i, Arrive(i)
    PROVE  DataInv'
<1>1. InParts' /\ Written'
  BY ReadingKept DEF DataInv, Arrive
<1>2. DataTypes /\ OnePlace
  BY DEF DataInv
<1>3. PICK w, s, r, ds : w = wire /\ s = socket /\ r = received /\ ds = datagrams
  OBVIOUS
<1>4. w \in Seq(Datagram) /\ s \in Seq(Datagram) /\ Places(w, s, r, ds) /\ i \in DOMAIN w
  BY <1>2, <1>3 DEF DataTypes, OnePlace, Arrive
<1>5. PICK v, t : v = RemoveAt(w, i) /\ t = Append(s, w[i])
  OBVIOUS
<1>6. v \in Seq(Datagram) /\ Without(v, w, i)
  BY <1>4, <1>5, Removed
<1>7. t \in Seq(Datagram)
  BY <1>4, <1>5
<1>8. Places(v, s, r, ds) /\ Places(v, t, r, ds)
  BY <1>4, <1>5, <1>6, PlacesArrived
<1>9. wire' = v /\ socket' \in {s, t} /\ received' = r /\ datagrams' = ds
  BY <1>3, <1>5 DEF Arrive
<1>10. OnePlace'
  BY <1>8, <1>9 DEF OnePlace
<1>11. DataTypes'
  <2>1. UNCHANGED <<datagrams, toSend, received, output, parser>>
    BY DEF Arrive
  <2>2. wire' \in Seq(Datagram) /\ socket' \in Seq(Datagram)
    BY <1>4, <1>6, <1>7, <1>9
  <2> QED BY <1>2, <2>1, <2>2 DEF DataTypes
<1> QED BY <1>1, <1>10, <1>11 DEF DataInv

LEMMA DataLost == DataInv /\ LoseDatagram => DataInv'
<1> SUFFICES ASSUME DataInv, LoseDatagram PROVE DataInv'
  OBVIOUS
<1>1. InParts' /\ Written'
  BY ReadingKept DEF DataInv, LoseDatagram
<1>2. DataTypes /\ OnePlace
  BY DEF DataInv
<1>3. PICK w, s, r, ds : w = wire /\ s = socket /\ r = received /\ ds = datagrams
  OBVIOUS
<1>4. w \in Seq(Datagram) /\ s \in Seq(Datagram) /\ Places(w, s, r, ds) /\ w # <<>>
  BY <1>2, <1>3 DEF DataTypes, OnePlace, LoseDatagram
<1>5. PICK v, i : v = Tail(w) /\ i = 1
  OBVIOUS
<1>6. v \in Seq(Datagram) /\ i \in DOMAIN w /\ Without(v, w, i)
  BY <1>4, <1>5, HeadRemoved
<1>7. Places(v, s, r, ds)
  <2>1. PICK t : t = Append(s, w[i])
    OBVIOUS
  <2> QED BY <1>4, <1>6, <2>1, PlacesArrived
<1>8. wire' = v /\ socket' = s /\ received' = r /\ datagrams' = ds
  BY <1>3, <1>5 DEF LoseDatagram
<1>9. OnePlace'
  BY <1>7, <1>8 DEF OnePlace
<1>10. DataTypes'
  <2>1. UNCHANGED <<datagrams, toSend, received, output, parser>>
    BY DEF LoseDatagram
  <2>2. wire' \in Seq(Datagram) /\ socket' \in Seq(Datagram)
    BY <1>4, <1>6, <1>8
  <2> QED BY <1>2, <2>1, <2>2 DEF DataTypes
<1> QED BY <1>1, <1>9, <1>10 DEF DataInv


-----------------------------------------------------------------------------
(* A datagram is sent: the last part is cut in two.                        *)

\* Parts F[1], ..., F[N] make up fs, part n after place b[n].
Laid(fs, b, F, N) ==
    /\ b \in [1..N -> Nat]
    /\ F \in [1..N -> Seq(Frame)]
    /\ \A n \in 1..N : \A j \in DOMAIN F[n] : b[n] + j \in DOMAIN fs /\ fs[b[n] + j] = F[n][j]
    /\ \A q \in DOMAIN fs : \E n \in 1..N : \E j \in DOMAIN F[n] : q = b[n] + j
    /\ \A n, m \in 1..N : n < m => b[n] + Len(F[n]) <= b[m]

\* G and c are F and b with the last of N parts cut after k frames.
Splits(G, c, F, b, N, k) ==
    /\ N \in Nat \ {0} /\ k \in 0..Len(F[N])
    /\ G \in [1..(N + 1) -> Seq(Frame)] /\ c \in [1..(N + 1) -> Nat]
    /\ \A n \in 1..N : c[n] = b[n] /\ (n # N => G[n] = F[n])
    /\ c[N + 1] = b[N] + k
    /\ G[N] = SubSeq(F[N], 1, k) /\ G[N + 1] = SubSeq(F[N], k + 1, Len(F[N]))

LEMMA LaidFurther ==
    ASSUME NEW fs, NEW b, NEW F, NEW N, Laid(fs, b, F, N), NEW k, NEW G, NEW c,
           Splits(G, c, F, b, N, k), NEW M, M = N + 1
    PROVE  Laid(fs, c, G, M)
<1>0. /\ N \in Nat \ {0} /\ M \in Nat /\ N < M
      /\ \A n \in 1..M : n \in 1..N \/ n = M
      /\ \A n \in 1..N : n \in 1..M
      /\ N \in 1..N /\ M \in 1..M /\ M \notin 1..N
      /\ \A n \in 1..N : n < M /\ (n # N => n < N)
  BY DEF Splits
<1>1. PICK fr, l, B : fr = F[N] /\ l = Len(fr) /\ B = b[N]
  OBVIOUS
<1>2. fr \in Seq(Frame) /\ l \in Nat /\ DOMAIN fr = 1..l /\ B \in Nat
  BY <1>0, <1>1 DEF Laid
<1>3. k \in Nat /\ k <= l
  BY <1>1, <1>2 DEF Splits
<1>4. PICK x, y : x = SubSeq(fr, 1, k) /\ y = SubSeq(fr, k + 1, l)
  OBVIOUS
<1>5. /\ x \in Seq(Frame) /\ Len(x) = k /\ DOMAIN x = 1..k
      /\ \A j \in 1..k : x[j] = fr[j]
  BY <1>2, <1>3, <1>4
<1>6. /\ y \in Seq(Frame) /\ Len(y) = l - k /\ DOMAIN y = 1..(l - k)
      /\ \A j \in 1..(l - k) : y[j] = fr[k + j]
  <2>1. y \in Seq(Frame) /\ Len(y) = l - k /\ DOMAIN y = 1..(l - k)
    BY <1>2, <1>3, <1>4
  <2>2. ASSUME NEW j \in 1..(l - k) PROVE y[j] = fr[k + j]
    <3>1. y[j] = fr[k + 1 + j - 1]
      BY <1>2, <1>3, <1>4
    <3>2. k + 1 + j - 1 = k + j
      BY <1>2, <1>3
    <3> QED BY <3>1, <3>2
  <2> QED BY <2>1, <2>2
<1>7. /\ G[N] = x /\ G[M] = y /\ c[N] = B /\ c[M] = B + k
      /\ \A n \in 1..N : c[n] = b[n] /\ (n # N => G[n] = F[n])
      /\ G \in [1..M -> Seq(Frame)] /\ c \in [1..M -> Nat]
  BY <1>0, <1>1, <1>4 DEF Splits
<1>8. \A j \in 1..l : B + j \in DOMAIN fs /\ fs[B + j] = fr[j]
  BY <1>0, <1>1, <1>2 DEF Laid
<1>9. ASSUME NEW n \in 1..M, NEW j \in DOMAIN G[n]
      PROVE  c[n] + j \in DOMAIN fs /\ fs[c[n] + j] = G[n][j]
  <2>1. CASE n \in 1..N /\ n # N
    BY <1>7, <2>1 DEF Laid
  <2>2. CASE n = N
    <3>1. j \in 1..k /\ j \in 1..l
      BY <1>2, <1>3, <1>5, <1>7, <2>2
    <3> QED BY <1>5, <1>7, <1>8, <2>2, <3>1
  <2>3. CASE n = M
    <3>1. j \in 1..(l - k)
      BY <1>6, <1>7, <2>3
    <3>2. k + j \in 1..l /\ B + (k + j) = (B + k) + j
      BY <1>2, <1>3, <3>1
    <3> QED BY <1>6, <1>7, <1>8, <2>3, <3>1, <3>2
  <2> QED BY <1>0, <2>1, <2>2, <2>3
<1>10. ASSUME NEW q \in DOMAIN fs
       PROVE  \E n \in 1..M : \E j \in DOMAIN G[n] : q = c[n] + j
  <2>1. PICK n \in 1..N : \E j \in DOMAIN F[n] : q = b[n] + j
    BY DEF Laid
  <2>2. PICK j \in DOMAIN F[n] : q = b[n] + j
    BY <2>1
  <2>3. CASE n # N
    BY <1>0, <1>7, <2>2, <2>3
  <2>4. CASE n = N /\ j <= k
    <3>1. j \in 1..k
      BY <1>1, <1>2, <1>3, <2>4
    <3> QED BY <1>0, <1>1, <1>5, <1>7, <2>2, <2>4, <3>1
  <2>5. CASE n = N /\ ~(j <= k)
    <3>1. PICK i : i = j - k
      OBVIOUS
    <3>2. i \in 1..(l - k) /\ (B + k) + i = B + j
      BY <1>1, <1>2, <1>3, <2>5, <3>1
    <3> QED BY <1>0, <1>1, <1>6, <1>7, <2>2, <2>5, <3>2
  <2>6. j \in Int
    <3>1. F[n] \in Seq(Frame)
      BY DEF Laid
    <3> QED BY <3>1
  <2> QED BY <2>3, <2>4, <2>5
<1>11. ASSUME NEW n \in 1..M, NEW m \in 1..M, n < m
       PROVE  c[n] + Len(G[n]) <= c[m]
  <2>1. n \in 1..N
    BY <1>0, <1>11
  <2>2. CASE m \in 1..N
    <3>1. n # N
      BY <1>0, <1>11, <2>2
    <3>2. b[n] + Len(F[n]) <= b[m]
      BY <1>11, <2>1, <2>2 DEF Laid
    <3> QED BY <1>7, <2>1, <2>2, <3>1, <3>2
  <2>3. CASE m = M /\ n = N
    BY <1>2, <1>3, <1>5, <1>7, <2>3
  <2>4. CASE m = M /\ n # N
    <3>1. b[n] + Len(F[n]) <= b[N]
      BY <1>0, <2>1, <2>4 DEF Laid
    <3>2. b[n] \in Nat /\ F[n] \in Seq(Frame)
      BY <2>1 DEF Laid
    <3>3. PICK u \in Nat, v \in Nat : u = b[n] /\ v = Len(F[n])
      BY <3>2
    <3>4. u + v <= B
      BY <1>1, <3>1, <3>3
    <3>5. u + v <= B + k
      BY <1>2, <1>3, <3>4
    <3> QED BY <1>7, <2>1, <2>4, <3>3, <3>5
  <2> QED BY <1>0, <2>2, <2>3, <2>4
<1> QED BY <1>7, <1>9, <1>10, <1>11 DEF Laid


\* The offset in force at the start of a part, before and after the step.
LEMMA StartsKept ==
    ASSUME DataTypes, MoreSent, NEW L, L = Len(datagrams)
    PROVE  \A n \in 1..(L + 1) : Start(n)' = Start(n)
<1>1. L \in Nat /\ DOMAIN datagrams = 1..L
  BY DEF DataTypes
<1> SUFFICES ASSUME NEW n \in 1..(L + 1) PROVE Start(n)' = Start(n)
  OBVIOUS
<1>2. PICK ns : ns = SentBefore(n)
  OBVIOUS
<1>3. ns \in Seq(DOMAIN datagrams)
  <2>1. n - 1 \in Nat /\ n - 1 <= L
    BY <1>1
  <2>2. ns = [i \in 1..(n - 1) |-> i]
    BY <1>2 DEF SentBefore
  <2>3. PICK h : h = n - 1
    OBVIOUS
  <2>4. ns \in [1..h -> 1..L]
    BY <1>1, <2>1, <2>2, <2>3
  <2>5. h \in Nat
    BY <2>1, <2>3
  <2>6. PICK S : S = 1..L
    OBVIOUS
  <2>7. ns \in [1..h -> S]
    BY <2>4, <2>6
  <2>8. ns \in Seq(S)
    BY ONLY <2>5, <2>7
  <2> QED BY <1>1, <2>6, <2>8
<1>4. KnownBy(ns)' = KnownBy(ns)
  BY <1>3, KnownBySame
<1>5. Start(n) = KnownBy(ns)
  BY <1>2 DEF Start
<1>6. Start(n)' = KnownBy(ns)'
  BY <1>2 DEF Start, SentBefore
<1> QED BY <1>4, <1>5, <1>6

\* The part after the m-th datagram starts with what that one leaves in force.
LEMMA StartAfter ==
    DataTypes => \A m, n : m \in DOMAIN datagrams /\ n = m + 1 =>
                    Start(n) = After(datagrams[m].frames, Start(m))
<1> SUFFICES ASSUME DataTypes, NEW m, NEW n, m \in DOMAIN datagrams, n = m + 1
             PROVE  Start(n) = After(datagrams[m].frames, Start(m))
  OBVIOUS
<1>1. PICK L \in Nat : L = Len(datagrams) /\ DOMAIN datagrams = 1..L
  BY DEF DataTypes
<1>2. PICK ns, ms, h : ns = SentBefore(m) /\ ms = SentBefore(n) /\ h = m - 1
  OBVIOUS
<1>3. m \in 1..L /\ h \in Nat /\ m = h + 1 /\ h <= L /\ n - 1 = m
  BY <1>1, <1>2
<1>4. ns = [i \in 1..h |-> i] /\ ms = [i \in 1..m |-> i]
  BY <1>2, <1>3 DEF SentBefore
<1>5. ns \in Seq(DOMAIN datagrams)
  <2>1. PICK S : S = 1..L
    OBVIOUS
  <2>2. ns \in [1..h -> S]
    BY <1>1, <1>3, <1>4, <2>1
  <2>3. ns \in Seq(S)
    BY ONLY <1>3, <2>2
  <2> QED BY <1>1, <2>1, <2>3
<1>6. ms = Append(ns, m)
  <2>1. Len(ns) = h
    BY <1>3, <1>4
  <2> QED BY <1>3, <1>4, <2>1
<1>7. KnownBy(Append(ns, m)) = After(datagrams[m].frames, KnownBy(ns))
  BY <1>5, KnownByMore
<1> QED BY <1>2, <1>6, <1>7 DEF Start


LEMMA DataSent == DataInv /\ SendDatagram => DataInv'
<1> SUFFICES ASSUME DataInv, SendDatagram PROVE DataInv'
  OBVIOUS
<1>0. DataTypes /\ OnePlace /\ InParts /\ Written
  BY DEF DataInv
<1>1. PICK k \in 1..DatagramFrames :
        /\ k <= Len(toSend.frames)
        /\ LET d == [no |-> Len(datagrams) + 1, frames |-> SubSeq(toSend.frames, 1, k)] IN
             /\ wire' = Append(wire, d)
             /\ datagrams' = Append(datagrams, d)
        /\ toSend' = [toSend EXCEPT !.frames = SubSeq(@, k + 1, Len(@))]
  BY DEF SendDatagram
<1>2. PICK L, fr, ts, ds, w : L = Len(datagrams) /\ fr = toSend.frames /\ ts = toSend.times
                              /\ ds = datagrams /\ w = wire
  OBVIOUS
<1>3. PICK l, x, y, d : l = Len(fr) /\ x = SubSeq(fr, 1, k) /\ y = SubSeq(fr, k + 1, l)
                        /\ d = [no |-> L + 1, frames |-> x]
  OBVIOUS
<1>4. /\ ds \in Seq(Datagram) /\ L \in Nat /\ L = Len(ds) /\ DOMAIN ds = 1..L
      /\ fr \in Seq(Frame) /\ l \in Nat /\ w \in Seq(Datagram)
  BY <1>0, <1>2, <1>3 DEF DataTypes
<1>5. k \in Nat /\ 1 <= k /\ k <= l
  BY <1>1, <1>2, <1>3, ReadoutAssumption DEF ReadoutAssumption
<1>6. x \in Seq(Frame) /\ Len(x) = k /\ y \in Seq(Frame)
  BY <1>3, <1>4, <1>5
<1>7. d \in Datagram /\ d.no = L + 1 /\ d.frames = x
  BY <1>3, <1>4, <1>6 DEF Datagram
<1>8. PICK es, v : es = Append(ds, d) /\ v = Append(w, d)
  OBVIOUS
<1>9. /\ es \in Seq(Datagram) /\ Len(es) = L + 1 /\ DOMAIN es = 1..(L + 1)
      /\ es[L + 1] = d /\ \A n \in 1..L : es[n] = ds[n]
      /\ v \in Seq(Datagram)
  BY <1>2, <1>4, <1>7, <1>8, Appended
<1>10. /\ datagrams' = es /\ wire' = v
       /\ toSend'.frames = y /\ toSend'.times = ts /\ toSend' \in [frames : Seq(Frame), times : Seq(0..AcqTime)]
  <2>1. datagrams' = es /\ wire' = v
    BY <1>1, <1>2, <1>3, <1>8
  <2>2. toSend \in [frames : Seq(Frame), times : Seq(0..AcqTime)]
    BY <1>0 DEF DataTypes
  <2>3. toSend' = [toSend EXCEPT !.frames = y]
    BY <1>1, <1>2, <1>3
  <2> QED BY <1>2, <1>6, <2>1, <2>2, <2>3
<1>11. UNCHANGED <<socket, parser, output, received>>
  BY DEF SendDatagram
<1>12. MoreSent
  BY <1>2, <1>4, <1>9, <1>10 DEF MoreSent
<1>13. DataTypes'
  <2>1. received' \in Seq(DOMAIN datagrams')
    <3>1. received \in Seq(1..L)
      BY <1>0, <1>2, <1>4 DEF DataTypes
    <3>2. PICK S, T : S = 1..L /\ T = 1..(L + 1)
      OBVIOUS
    <3>3. S \subseteq T /\ received \in Seq(S)
      BY <1>4, <3>1, <3>2
    <3>4. received \in Seq(T)
      BY ONLY <3>3
    <3> QED BY <1>9, <1>10, <1>11, <3>2, <3>4
  <2>2. \A n \in DOMAIN datagrams' : datagrams'[n].no = n
    <3>1. \A n \in 1..L : ds[n].no = n
      BY <1>0, <1>2, <1>4 DEF DataTypes
    <3>2. \A n \in 1..(L + 1) : n \in 1..L \/ n = L + 1
      BY <1>4
    <3> QED BY <1>7, <1>9, <1>10, <3>1, <3>2
  <2> QED BY <1>0, <1>9, <1>10, <1>11, <2>1, <2>2 DEF DataTypes
<1>14. OnePlace'
  <2>1. PICK s, r : s = socket /\ r = received
    OBVIOUS
  <2>2. Places(w, s, r, ds) /\ s \in Seq(Datagram) /\ r \in Seq(DOMAIN ds)
    BY <1>0, <1>2, <2>1 DEF OnePlace, DataTypes
  <2>3. Places(v, s, r, es)
    BY <1>4, <1>7, <1>8, <2>2, PlacesSent
  <2> QED BY <1>10, <1>11, <2>1, <2>3 DEF OnePlace
<1>15. Written'
  BY <1>0, <1>11, <1>12, WrittenKept
<1>16. InParts'
  <2>1. PICK fs, b : Acquisition(fs, ts) /\ Cut(fs, b)
    BY <1>0, <1>2 DEF InParts
  <2>2. PICK N, M : N = L + 1 /\ M = N + 1
    OBVIOUS
  <2>3. /\ N \in Nat \ {0} /\ M \in Nat /\ M = L + 2 /\ N \in 1..N /\ M \in 1..M
        /\ \A n \in 1..N : n \in 1..M /\ (n \in 1..L \/ n = N)
        /\ \A n \in 1..M : n \in 1..N \/ n = M
        /\ \A n \in 1..L : n \in 1..N /\ n # N
        /\ N \notin 1..L /\ M \notin 1..N
    BY <1>4, <2>2
  <2>4. Parts = 1..N /\ Parts' = 1..M
    BY <1>2, <1>9, <1>10, <2>2 DEF Parts
  <2>5. PICK F : F = [n \in 1..N |-> FramesOf(n)]
    OBVIOUS
  <2>6. PICK G : G = [n \in 1..M |-> FramesOf(n)']
    OBVIOUS
  <2>7. /\ \A n \in 1..L : FramesOf(n) = ds[n].frames /\ FramesOf(n)' = ds[n].frames
        /\ FramesOf(N) = fr /\ FramesOf(N)' = x /\ FramesOf(M)' = y
    <3>1. \A n \in 1..L : FramesOf(n) = ds[n].frames
      BY <1>2, <1>4 DEF FramesOf
    <3>2. FramesOf(N) = fr
      BY <1>2, <1>4, <2>2, <2>3 DEF FramesOf
    <3>3. \A n \in 1..L : FramesOf(n)' = ds[n].frames
      BY <1>9, <1>10, <2>2, <2>3 DEF FramesOf
    <3>4. FramesOf(N)' = x
      BY <1>7, <1>9, <1>10, <2>2, <2>3 DEF FramesOf
    <3>5. FramesOf(M)' = y
      BY <1>9, <1>10, <2>2, <2>3 DEF FramesOf
    <3> QED BY <3>1, <3>2, <3>3, <3>4, <3>5
  <2>8. \A n \in 1..L : ds[n].frames \in Seq(Frame)
    <3>1. \A n \in 1..L : ds[n] \in Datagram
      BY <1>4
    <3> QED BY <3>1 DEF Datagram
  <2>9. F \in [1..N -> Seq(Frame)] /\ F[N] = fr /\ G \in [1..M -> Seq(Frame)]
        /\ \A n \in 1..L : F[n] = G[n]
    <3>1. \A n \in 1..N : F[n] \in Seq(Frame) /\ F[n] = FramesOf(n)
      BY <1>4, <2>3, <2>5, <2>7, <2>8
    <3>2. \A n \in 1..M : G[n] \in Seq(Frame) /\ G[n] = FramesOf(n)'
      BY <1>6, <2>3, <2>6, <2>7, <2>8
    <3> QED BY <2>3, <2>5, <2>6, <2>7, <3>1, <3>2
  <2>10. Laid(fs, b, F, N)
    <3>1. \A n \in 1..N : F[n] = FramesOf(n)
      BY <2>5
    <3> QED BY <2>1, <2>4, <2>9, <3>1 DEF Cut, Laid
  <2>11. PICK c : c = [n \in 1..M |-> IF n = M THEN b[N] + k ELSE b[n]]
    OBVIOUS
  <2>12. b \in [1..N -> Nat]
    BY <2>10 DEF Laid
  <2>13. /\ c \in [1..M -> Nat] /\ c[M] = b[N] + k
         /\ \A n \in 1..N : c[n] = b[n]
    BY <1>5, <2>3, <2>11, <2>12
  <2>14. Splits(G, c, F, b, N, k)
    <3>1. G[N] = x /\ G[M] = y
      BY <2>3, <2>6, <2>7
    <3>2. k \in 0..Len(F[N])
      BY <1>3, <1>4, <1>5, <2>9
    <3>3. \A n \in 1..N : c[n] = b[n] /\ (n # N => G[n] = F[n])
      BY <2>3, <2>9, <2>13
    <3> QED BY <1>3, <2>2, <2>3, <2>9, <2>13, <3>1, <3>2, <3>3 DEF Splits
  <2>15. Laid(fs, c, G, M)
    BY <2>2, <2>10, <2>14, LaidFurther
  <2>16. \A n \in 1..N : Start(n)' = InForce(fs, c[n], 0)
    <3>1. \A n \in 1..N : Start(n)' = Start(n)
      BY <1>0, <1>2, <1>12, <2>2, StartsKept
    <3>2. \A n \in 1..N : Start(n) = InForce(fs, b[n], 0)
      BY <2>1, <2>4 DEF Cut
    <3> QED BY <2>13, <3>1, <3>2
  <2>17. Start(M)' = InForce(fs, c[M], 0)
    <3>1. (\A m, n : m \in DOMAIN datagrams /\ n = m + 1 =>
              Start(n) = After(datagrams[m].frames, Start(m)))'
      BY <1>13, StartAfter, PTL
    <3>2. Start(M)' = After(datagrams[N].frames, Start(N))'
      <4>0. DOMAIN datagrams' = 1..N
        BY ONLY <1>9, <1>10, <2>2
      <4>1. N \in DOMAIN datagrams' /\ M = N + 1
        BY ONLY <2>2, <2>3, <4>0
      <4> QED BY ONLY <3>1, <4>1
    <3>3. Start(N)' = Start(N)
      BY <1>0, <1>2, <1>12, <2>2, <2>3, StartsKept
    <3>4. PICK o : o = Start(N)
      OBVIOUS
    <3>5. Start(M)' = After(x, o)
      <4>1. datagrams'[N].frames = x
        BY <1>7, <1>9, <1>10, <2>2
      <4>2. Start(N)' = o
        BY <3>3, <3>4
      <4> QED BY ONLY <3>2, <4>1, <4>2 DEF After
    <3>6. PICK B, z : B = b[N] /\ z = 0
      OBVIOUS
    <3>7. o = InForce(fs, B, z)
      BY <2>1, <2>3, <2>4, <3>4, <3>6 DEF Cut
    <3>8. PartOf(x, fs, B, k)
      <4>1. B \in Nat
        BY <2>3, <2>12, <3>6
      <4>2. \A j \in 1..l : fs[B + j] = fr[j]
        <5>1. N \in 1..N /\ F[N] = fr
          BY <2>3, <2>9
        <5>2. \A j \in DOMAIN F[N] : fs[b[N] + j] = F[N][j]
          BY ONLY <2>10, <5>1 DEF Laid
        <5>3. DOMAIN fr = 1..l
          BY ONLY <1>3, <1>4
        <5> QED BY ONLY <3>6, <5>1, <5>2, <5>3
      <4>3. \A j \in 1..k : j \in 1..l /\ x[j] = fr[j]
        BY <1>3, <1>4, <1>5
      <4> QED BY <1>5, <4>1, <4>2, <4>3 DEF PartOf
    <3>9. \A j \in 0..k : InForce(fs, B + j, z) = InForce(x, j, InForce(fs, B, z))
      BY <3>8, InForceShifted
    <3>10. InForce(fs, B + k, z) = InForce(x, k, o)
      BY <1>5, <3>7, <3>9
    <3> QED BY <1>6, <2>13, <3>5, <3>6, <3>10 DEF After
  <2>18. Cut(fs, c)'
    <3>1. \A n \in 1..M : G[n] = FramesOf(n)'
      BY <2>6
    <3>2. \A n \in 1..M : Start(n)' = InForce(fs, c[n], 0)
      BY <2>3, <2>16, <2>17
    <3> QED BY <2>4, <2>15, <3>1, <3>2 DEF Cut, Laid
  <2> QED BY <1>10, <2>1, <2>18 DEF InParts
<1> QED BY <1>13, <1>14, <1>15, <1>16 DEF DataInv


-----------------------------------------------------------------------------
(* A datagram is read: its hits are written.                               *)

Joins(t, a, b, n, m, S) ==
    a \in Seq(S) /\ b \in Seq(S) /\ t = a \o b /\ n = Len(a) /\ m = Len(b)

LEMMA Joined ==
    ASSUME NEW t, NEW a, NEW b, NEW n, NEW m, NEW S, Joins(t, a, b, n, m, S)
    PROVE  /\ n \in Nat /\ m \in Nat /\ t \in Seq(S)
           /\ DOMAIN a = 1..n /\ DOMAIN b = 1..m
           /\ \A j \in 1..n : j \in DOMAIN t /\ t[j] = a[j]
           /\ \A j \in 1..m : n + j \in DOMAIN t /\ t[n + j] = b[j]
           /\ \A q \in DOMAIN t : q \in 1..n \/ \E j \in 1..m : q = n + j
<1>0. a \in Seq(S) /\ b \in Seq(S) /\ t = a \o b /\ n = Len(a) /\ m = Len(b)
  BY DEF Joins
<1>1. n \in Nat /\ m \in Nat /\ t \in Seq(S) /\ DOMAIN a = 1..n /\ DOMAIN b = 1..m
  BY <1>0
<1>2. DOMAIN t = 1..(n + m)
  BY <1>0, <1>1
<1>3. \A j \in 1..n : j \in DOMAIN t /\ t[j] = a[j]
  BY <1>0, <1>1, <1>2
<1>4. \A j \in 1..m : n + j \in DOMAIN t /\ t[n + j] = b[j]
  BY <1>0, <1>1, <1>2
<1>5. ASSUME NEW q \in DOMAIN t PROVE q \in 1..n \/ \E j \in 1..m : q = n + j
  <2>1. q \in 1..(n + m)
    BY <1>2
  <2>2. q \in 1..n \/ q - n \in 1..m
    BY <1>1, <2>1
  <2>3. q = n + (q - n)
    BY <1>1, <2>1
  <2> QED BY <2>2, <2>3
<1> QED BY <1>1, <1>3, <1>4, <1>5


LEMMA DataRead == DataInv /\ ReceiveDatagram => DataInv'
<1> SUFFICES ASSUME DataInv, ReceiveDatagram PROVE DataInv'
  OBVIOUS
<1>0. DataTypes /\ OnePlace /\ InParts /\ Written
  BY DEF DataInv
<1>1. PICK w, s, r, ds, out : w = wire /\ s = socket /\ r = received /\ ds = datagrams
                              /\ out = output
  OBVIOUS
<1>2. /\ w \in Seq(Datagram) /\ s \in Seq(Datagram) /\ s # <<>> /\ ds \in Seq(Datagram)
      /\ r \in Seq(DOMAIN ds) /\ Places(w, s, r, ds) /\ out \in Seq(HitTime)
  BY <1>0, <1>1 DEF DataTypes, OnePlace, ReceiveDatagram
<1>3. PICK m, fs : m = s[1].no /\ fs = s[1].frames
  OBVIOUS
<1>4. s[1] \in Datagram /\ 1 \in DOMAIN s /\ Head(s) = s[1]
  BY <1>2
<1>5. m \in DOMAIN ds /\ fs = ds[m].frames /\ fs \in Seq(Frame) /\ m \in Nat
  BY <1>2, <1>3, <1>4 DEF Places, AsSent, Datagram
<1>6. m \notin Range(r)
  BY <1>2, <1>3, <1>4 DEF Places, Numbers
<1>7. PICK st, hs : st = ParseFrames(parser, fs) /\ hs = st.hits
  OBVIOUS
<1>8. PICK u, v, n, t : u = Append(r, m) /\ v = out \o hs /\ n = Len(r) /\ t = Tail(s)
  OBVIOUS
<1>9. /\ parser' = [offset |-> st.offset, total |-> st.total]
      /\ output' = v /\ socket' = t /\ received' = u
      /\ UNCHANGED <<toSend, wire, datagrams>>
  BY <1>1, <1>3, <1>4, <1>7, <1>8 DEF ReceiveDatagram, ParseDatagram
<1>10. /\ n \in Nat /\ u \in Seq(DOMAIN ds) /\ Len(u) = n + 1
       /\ DOMAIN r = 1..n /\ DOMAIN u = 1..(n + 1)
       /\ u[n + 1] = m /\ \A p \in 1..n : u[p] = r[p]
  BY <1>2, <1>5, <1>8, Appended
\* What the invariant says of the datagrams' hits.
<1>11. /\ \A n1, n2, j, k, i \in Nat : HitAt(n1, j, i) /\ HitAt(n2, k, i) => n1 = n2 /\ j = k
       /\ \A j, i : HitAt(m, j, i) <=> j \in DOMAIN fs /\ fs[j].type = "hit" /\ fs[j].id = i
       /\ \A p \in DOMAIN r : r[p] \in Nat
  <2>1. \A n1, n2, j, k, i \in Nat : HitAt(n1, j, i) /\ HitAt(n2, k, i) => n1 = n2 /\ j = k
    BY <1>0, FramesHold
  <2>2. \A j, i : HitAt(m, j, i) <=> j \in DOMAIN fs /\ fs[j].type = "hit" /\ fs[j].id = i
    BY <1>1, <1>5 DEF HitAt
  <2>3. \A p \in DOMAIN r : r[p] \in Nat
    BY <1>2
  <2> QED BY <2>1, <2>2, <2>3
<1>12. PICK l : l = Len(fs) /\ l \in Nat /\ DOMAIN fs = 1..l
  BY <1>5
<1>13. \A j \in 1..l : fs[j].id \in Nat /\ j \in Nat /\ fs[j].value \in Nat
  <2>1. \A j \in 1..l : fs[j] \in Frame
    BY <1>5, <1>12
  <2> QED BY <1>12, <2>1 DEF Frame
<1>14. HitsOnce(fs)
  <2>1. ASSUME NEW j \in DOMAIN fs, NEW k \in DOMAIN fs,
               fs[j].type = "hit", fs[k].type = "hit", fs[j].id = fs[k].id
        PROVE  j = k
    <3>1. PICK i : i = fs[j].id
      OBVIOUS
    <3>2. HitAt(m, j, i) /\ HitAt(m, k, i)
      BY <1>11, <2>1, <3>1
    <3>3. j \in Nat /\ k \in Nat /\ i \in Nat
      BY <1>12, <1>13, <3>1
    <3> QED BY <1>5, <1>11, <3>2, <3>3
  <2> QED BY <2>1 DEF HitsOnce
<1>15. PICK o, tot : o = parser.offset /\ tot = parser.total /\ o \in Nat /\ tot \in Nat
  BY <1>0 DEF DataTypes
<1>16. Parses(fs, o, tot, l, st) /\ TimesOnce(hs)
  BY <1>5, <1>7, <1>12, <1>14, <1>15, FramesParsed
<1>17. /\ hs \in Seq(HitTime) /\ st.offset \in Nat /\ st.total \in Nat
       /\ st.offset = InForce(fs, l, o)
       /\ st.total = tot \/ \E j \in 1..l : fs[j].type = "finished" /\ st.total = fs[j].value
       /\ \A q \in DOMAIN hs : \E j \in 1..l :
            /\ fs[j].type = "hit"
            /\ hs[q].id = fs[j].id
            /\ hs[q].toa = TimeOf(fs[j].value, InForce(fs, j, o))
       /\ \A j \in 1..l : fs[j].type = "hit" => \E q \in DOMAIN hs : hs[q].id = fs[j].id
  BY <1>7, <1>16 DEF Parses, ParserState
<1>18. PICK a, c : a = Len(out) /\ c = Len(hs)
  OBVIOUS
<1>19. /\ a \in Nat /\ c \in Nat /\ v \in Seq(HitTime)
       /\ DOMAIN out = 1..a /\ DOMAIN hs = 1..c
       /\ \A j \in 1..a : j \in DOMAIN v /\ v[j] = out[j]
       /\ \A j \in 1..c : a + j \in DOMAIN v /\ v[a + j] = hs[j]
       /\ \A q \in DOMAIN v : q \in 1..a \/ \E j \in 1..c : q = a + j
  <2>1. Joins(v, out, hs, a, c, HitTime)
    BY <1>2, <1>8, <1>17, <1>18 DEF Joins
  <2> QED BY ONLY <2>1, Joined
<1>20. DataTypes'
  <2>1. t \in Seq(Datagram)
    BY <1>2, <1>8
  <2> QED BY <1>0, <1>1, <1>9, <1>10, <1>17, <1>19, <2>1 DEF DataTypes
<1>21. OnePlace'
  <2>1. Places(w, t, u, ds)
    <3>1. s[1].no \in DOMAIN ds
      BY <1>3, <1>5
    <3> QED BY <1>2, <1>3, <1>8, <3>1, PlacesRead
  <2> QED BY <1>1, <1>9, <2>1 DEF OnePlace
<1>22. InParts'
  BY <1>0, <1>9, PartsKept
\* The parser's offsets.
<1>23. \A p \in 0..n : Heard(p)' = Heard(p)
  <2> SUFFICES ASSUME NEW p \in 0..n PROVE Heard(p)' = Heard(p)
    OBVIOUS
  <2>1. PICK ns : ns = SubSeq(r, 1, p)
    OBVIOUS
  <2>2. ns \in Seq(DOMAIN datagrams)
    BY <1>1, <1>2, <1>8, <2>1
  <2>3. MoreSent
    BY <1>9 DEF MoreSent
  <2>4. KnownBy(ns)' = KnownBy(ns)
    BY <1>0, <2>2, <2>3, KnownBySame
  <2>5. ns = SubSeq(u, 1, p)
    BY <1>2, <1>5, <1>8, <2>1
  <2>6. Heard(p) = KnownBy(ns)
    BY <1>1, <2>1 DEF Heard
  <2>7. Heard(p)' = KnownBy(ns)'
    BY <1>9, <2>5 DEF Heard
  <2> QED BY <2>4, <2>6, <2>7
<1>24. o = Heard(n)
  BY <1>0, <1>1, <1>8, <1>15 DEF Written
<1>25. st.offset = Heard(Len(received))'
  <2>1. u \in Seq(DOMAIN datagrams) /\ r \in Seq(DOMAIN datagrams) /\ m \in DOMAIN datagrams
    BY <1>1, <1>2, <1>5, <1>10
  <2>2. KnownBy(u)' = KnownBy(u)
    <3>1. MoreSent
      BY <1>9 DEF MoreSent
    <3> QED BY <1>0, <2>1, <3>1, KnownBySame
  <2>3. KnownBy(u) = After(datagrams[m].frames, KnownBy(r))
    BY <1>0, <1>8, <2>1, KnownByMore
  <2>4. SubSeq(r, 1, n) = r /\ SubSeq(u, 1, n + 1) = u
    BY <1>2, <1>8, <1>10
  <2>5. KnownBy(r) = o
    BY <1>1, <1>24, <2>4 DEF Heard
  <2>6. KnownBy(u) = st.offset
    BY <1>1, <1>5, <1>12, <1>17, <2>3, <2>5 DEF After
  <2>7. Heard(Len(received))' = KnownBy(u)'
    BY <1>9, <1>10, <2>4 DEF Heard
  <2> QED BY <2>2, <2>6, <2>7
<1>26. /\ \A x, j, i : HitAt(x, j, i)' <=> HitAt(x, j, i)
       /\ \A x, j, i : TimeAt(x, j, i)' = TimeAt(x, j, i)
       /\ \A x, j, i : EndAt(x, j, i)' <=> EndAt(x, j, i)
  BY <1>9 DEF HitAt, TimeAt, EndAt
<1>27. /\ \A p \in 1..n : p \in 1..(n + 1) /\ p - 1 \in 0..n
       /\ \A p \in 1..(n + 1) : p \in 1..n \/ p = n + 1
       /\ n + 1 \in 1..(n + 1) /\ n \in 0..n /\ (n + 1) - 1 = n
  BY <1>10
<1>28. \A q \in DOMAIN out : \E p \in 1..n, j \in Nat :
         HitAt(r[p], j, out[q].id) /\ out[q].toa = TimeAt(r[p], j, Heard(p - 1))
  BY <1>0, <1>1, <1>10 DEF Written
<1>29. \A q \in DOMAIN hs : \E j \in Nat :
         HitAt(m, j, hs[q].id) /\ hs[q].toa = TimeAt(m, j, o)
  <2> SUFFICES ASSUME NEW q \in DOMAIN hs
               PROVE  \E j \in Nat : HitAt(m, j, hs[q].id) /\ hs[q].toa = TimeAt(m, j, o)
    OBVIOUS
  <2>1. PICK j \in 1..l : /\ fs[j].type = "hit"
                          /\ hs[q].id = fs[j].id
                          /\ hs[q].toa = TimeOf(fs[j].value, InForce(fs, j, o))
    BY <1>17
  <2>2. HitAt(m, j, hs[q].id)
    BY <1>11, <1>12, <2>1
  <2>3. hs[q].toa = TimeAt(m, j, o)
    BY <1>1, <1>5, <2>1 DEF TimeAt
  <2> QED BY <1>13, <2>2, <2>3
\* Each conjunct of Written.
<1>30. ASSUME NEW q \in DOMAIN v
       PROVE  \E p \in 1..(n + 1), j \in Nat :
                 HitAt(u[p], j, v[q].id)' /\ v[q].toa = TimeAt(u[p], j, Heard(p - 1))'
  <2>1. CASE q \in 1..a
    <3>1. PICK p \in 1..n, j \in Nat :
             HitAt(r[p], j, out[q].id) /\ out[q].toa = TimeAt(r[p], j, Heard(p - 1))
      BY <1>19, <1>28, <2>1
    <3>2. PICK x, i, h : x = r[p] /\ i = out[q].id /\ h = Heard(p - 1)
      OBVIOUS
    <3>3. x = u[p] /\ v[q] = out[q] /\ i = v[q].id
      BY <1>10, <1>19, <2>1, <3>1, <3>2
    <3>4. HitAt(x, j, i)' /\ TimeAt(x, j, h)' = TimeAt(x, j, h)
      BY <1>26, <3>1, <3>2
    <3>5. Heard(p - 1)' = h
      BY <1>23, <1>27, <3>1, <3>2
    <3>6. HitAt(u[p], j, v[q].id)'
      BY <3>3, <3>4
    <3>7. v[q].toa = TimeAt(u[p], j, Heard(p - 1))'
      BY <3>1, <3>2, <3>3, <3>4, <3>5
    <3> QED BY <1>27, <3>1, <3>6, <3>7
  <2>2. CASE \E k \in 1..c : q = a + k
    <3>1. PICK k \in 1..c : q = a + k
      BY <2>2
    <3>2. PICK j \in Nat : HitAt(m, j, hs[k].id) /\ hs[k].toa = TimeAt(m, j, o)
      BY <1>19, <1>29, <3>1
    <3>3. PICK p, i : p = n + 1 /\ i = hs[k].id
      OBVIOUS
    <3>4. m = u[p] /\ v[q] = hs[k] /\ i = v[q].id /\ p \in 1..(n + 1) /\ p - 1 = n
      BY <1>10, <1>19, <1>27, <3>1, <3>3
    <3>5. HitAt(m, j, i)' /\ TimeAt(m, j, o)' = TimeAt(m, j, o)
      BY <1>26, <3>2, <3>3
    <3>6. Heard(p - 1)' = o
      BY <1>23, <1>24, <1>27, <3>4
    <3>7. HitAt(u[p], j, v[q].id)'
      BY <3>4, <3>5
    <3>8. v[q].toa = TimeAt(u[p], j, Heard(p - 1))'
      BY <3>2, <3>4, <3>5, <3>6
    <3> QED BY <3>4, <3>7, <3>8
  <2> QED BY <1>19, <2>1, <2>2
<1>31. ASSUME NEW p \in 1..(n + 1), NEW j \in Nat, NEW i \in Nat, HitAt(u[p], j, i)'
       PROVE  \E q \in DOMAIN v : v[q].id = i
  <2>1. PICK x : x = u[p]
    OBVIOUS
  <2>2. HitAt(x, j, i)
    BY <1>26, <1>31, <2>1
  <2>3. CASE p \in 1..n
    <3>1. HitAt(r[p], j, i) /\ p \in DOMAIN received
      BY <1>1, <1>10, <2>1, <2>2, <2>3
    <3>2. PICK q \in DOMAIN out : out[q].id = i
      BY <1>0, <1>1, <3>1 DEF Written
    <3> QED BY <1>19, <3>2
  <2>4. CASE p = n + 1
    <3>1. HitAt(m, j, i)
      BY <1>10, <2>1, <2>2, <2>4
    <3>2. j \in 1..l /\ fs[j].type = "hit" /\ fs[j].id = i
      BY <1>11, <1>12, <3>1
    <3>3. PICK q \in DOMAIN hs : hs[q].id = i
      BY <1>17, <3>2
    <3> QED BY <1>19, <3>3
  <2> QED BY <1>27, <2>3, <2>4
<1>32. TimesOnce(v)
  <2>1. ASSUME NEW q \in 1..a, NEW k \in 1..c PROVE out[q].id # hs[k].id
    <3> SUFFICES ASSUME out[q].id = hs[k].id PROVE FALSE
      OBVIOUS
    <3>1. PICK p \in 1..n, j \in Nat : HitAt(r[p], j, out[q].id)
      BY <1>19, <1>28
    <3>2. PICK h \in Nat : HitAt(m, h, hs[k].id)
      BY <1>19, <1>29
    <3>3. PICK i : i = hs[k].id /\ i \in Nat
      <4>1. hs[k] \in HitTime
        BY <1>17, <1>19
      <4> QED BY <4>1 DEF HitTime
    <3>4. r[p] \in Nat /\ r[p] \in Range(r)
      BY <1>10, <1>11 DEF Range
    <3>5. r[p] = m
      BY <1>5, <1>11, <3>1, <3>2, <3>3, <3>4
    <3> QED BY <1>6, <3>4, <3>5
  <2>2. \A q, p \in 1..a : out[q].id = out[p].id => q = p
    BY <1>0, <1>1, <1>19 DEF Written, TimesOnce
  <2>3. \A q, p \in 1..c : hs[q].id = hs[p].id => q = p
    BY <1>16, <1>19 DEF TimesOnce
  <2>4. ASSUME NEW q \in DOMAIN v, NEW p \in DOMAIN v, v[q].id = v[p].id PROVE q = p
    <3>1. CASE q \in 1..a /\ p \in 1..a
      <4>1. v[q] = out[q] /\ v[p] = out[p]
        BY <1>19, <3>1
      <4> QED BY <2>2, <2>4, <3>1, <4>1
    <3>2. CASE q \in 1..a /\ \E k \in 1..c : p = a + k
      <4>1. PICK k \in 1..c : p = a + k
        BY <3>2
      <4>2. v[q] = out[q] /\ v[p] = hs[k]
        BY <1>19, <3>2, <4>1
      <4> QED BY <2>1, <2>4, <3>2, <4>1, <4>2
    <3>3. CASE p \in 1..a /\ \E k \in 1..c : q = a + k
      <4>1. PICK k \in 1..c : q = a + k
        BY <3>3
      <4>2. v[p] = out[p] /\ v[q] = hs[k]
        BY <1>19, <3>3, <4>1
      <4> QED BY <2>1, <2>4, <3>3, <4>1, <4>2
    <3>4. CASE (\E k \in 1..c : q = a + k) /\ \E k \in 1..c : p = a + k
      <4>1. PICK k \in 1..c : q = a + k
        BY <3>4
      <4>2. PICK h \in 1..c : p = a + h
        BY <3>4
      <4>3. v[q] = hs[k] /\ v[p] = hs[h]
        BY <1>19, <4>1, <4>2
      <4> QED BY <2>3, <2>4, <4>1, <4>2, <4>3
    <3> QED BY <1>19, <3>1, <3>2, <3>3, <3>4
  <2> QED BY <2>4 DEF TimesOnce
<1>33. parser.total' = 0 \/ \E x, j \in Nat : EndAt(x, j, parser.total)'
  <2>1. PICK z : z = st.total
    OBVIOUS
  <2>2. parser'.total = z
    BY <1>9, <2>1
  <2>3. z = 0 \/ \E x, j \in Nat : EndAt(x, j, z)
    <3>1. CASE z = tot
      BY <1>0, <1>15, <3>1 DEF Written
    <3>2. CASE \E j \in 1..l : fs[j].type = "finished" /\ z = fs[j].value
      <4>1. PICK j \in 1..l : fs[j].type = "finished" /\ z = fs[j].value
        BY <3>2
      <4>2. EndAt(m, j, z)
        BY <1>1, <1>5, <1>12, <4>1 DEF EndAt
      <4> QED BY <1>5, <1>13, <4>2
    <3> QED BY <1>17, <2>1, <3>1, <3>2
  <2>4. z = 0 \/ \E x, j \in Nat : EndAt(x, j, z)'
    BY <1>26, <2>3
  <2> QED BY <2>2, <2>4
<1>34. Written'
  <2>1. parser'.offset = Heard(Len(received))'
    BY <1>9, <1>25
  <2>2. output' = v /\ received' = u /\ DOMAIN u = 1..(n + 1)
    BY <1>9, <1>10
  <2> QED BY <1>30, <1>31, <1>32, <1>33, <2>1, <2>2 DEF Written
<1> QED BY <1>20, <1>21, <1>22, <1>34 DEF DataInv


-----------------------------------------------------------------------------
(* The invariant holds.                                                    *)

LEMMA DataStep == DataInv /\ [Next]_vars => DataInv'
<1> SUFFICES ASSUME DataInv, [Next]_vars PROVE DataInv'
  OBVIOUS
<1>1. CASE SendCommand
  BY <1>1, DataKept DEF SendCommand
<1>2. CASE GetReply
  BY <1>2, DataKept DEF GetReply
<1>3. CASE SendAllCommands
  BY <1>3, DataKept DEF SendAllCommands
<1>4. CASE ReceiveDatagram
  BY <1>4, DataRead
<1>5. CASE CloseWriter
  BY <1>5, DataKept DEF CloseWriter
<1>6. CASE ExecuteCommand
  BY <1>6, DataKept DEF ExecuteCommand
<1>7. CASE SendDatagram
  BY <1>7, DataSent
<1>8. CASE ArriveInOrder
  <2>1. \E i : Arrive(i)
    BY <1>8 DEF ArriveInOrder
  <2>2. PICK i : Arrive(i)
    BY <2>1
  <2> QED BY <2>2, DataArrives
<1>9. CASE Overtake
  <2>1. \E i : Arrive(i)
    BY <1>9 DEF Overtake
  <2>2. PICK i : Arrive(i)
    BY <2>1
  <2> QED BY <2>2, DataArrives
<1>10. CASE LoseDatagram
  BY <1>10, DataLost
<1>11. CASE LoseControl
  BY <1>11, DataKept DEF LoseControl
<1>12. CASE UNCHANGED vars
  BY <1>12, DataKept DEF vars
<1> QED BY <1>1, <1>2, <1>3, <1>4, <1>5, <1>6, <1>7, <1>8, <1>9, <1>10, <1>11, <1>12
        DEF Next, Reader, Katherine, Network

LEMMA TimeRead ==
    ASSUME NEW t \in Nat, t <= AcqTime
    PROVE  TimeOf(t % OffsetUnit, t \div OffsetUnit) = t
<1>1. PICK U, T : U = OffsetUnit /\ T = TimeRange
  OBVIOUS
<1>2. U \in Nat \ {0} /\ T \in Nat \ {0} /\ t < T
  BY <1>1, ReadoutAssumption DEF ReadoutAssumption
<1>3. PICK r, d : r = t % U /\ d = t \div U
  OBVIOUS
<1>4. r \in Nat /\ d \in Nat
  BY ONLY <1>2, <1>3, t \in Nat
<1>5. t = r + U * d
  BY ONLY <1>2, <1>3, t \in Nat
<1>6. PICK x : x = U * d
  OBVIOUS
<1>7. x \in Nat
  BY ONLY <1>2, <1>4, <1>6
<1>8. t = r + x
  BY <1>5, <1>6
<1>9. x < T
  BY ONLY <1>2, <1>4, <1>7, <1>8, t \in Nat
<1>10. x % T = x
  BY ONLY <1>2, <1>7, <1>9
<1> QED BY <1>1, <1>3, <1>6, <1>8, <1>10 DEF TimeOf


-----------------------------------------------------------------------------
(* The properties.                                                         *)

\* The hits of a datagram, by the places of their frames.
LEMMA HitsOfDatagram ==
    ASSUME DataTypes
    PROVE  \A n \in DOMAIN datagrams : \A i : i \in HitsIn(n) <=> \E j \in Nat : HitAt(n, j, i)
<1> SUFFICES ASSUME NEW n \in DOMAIN datagrams, NEW i
             PROVE  i \in HitsIn(n) <=> \E j \in Nat : HitAt(n, j, i)
  OBVIOUS
<1>1. PICK fs : fs = datagrams[n].frames /\ fs \in Seq(Frame)
  <2>1. datagrams[n] \in Datagram
    BY DEF DataTypes
  <2> QED BY <2>1 DEF Datagram
<1>2. \A j \in DOMAIN fs : j \in Nat
  BY <1>1
<1>3. \A j : HitAt(n, j, i) <=> j \in DOMAIN fs /\ fs[j].type = "hit" /\ fs[j].id = i
  BY <1>1 DEF HitAt
<1>4. i \in HitsIn(n) <=> \E j \in DOMAIN fs : fs[j].type = "hit" /\ fs[j].id = i
  BY <1>1 DEF HitsIn, Range
<1> QED BY <1>2, <1>3, <1>4

LEMMA HitsTimed == DataInv => TimesFollowOffsets
<1> SUFFICES ASSUME DataInv PROVE TimesFollowOffsets
  OBVIOUS
<1>1. DataTypes /\ OnePlace /\ InParts /\ Written
  BY DEF DataInv
<1> SUFFICES ASSUME NEW p \in DOMAIN received,
                    LastOffset(SubSeq(received, 1, p - 1)) = LastOffset(SentBefore(received[p])),
                    NEW h \in Range(output), h.id \in HitsIn(received[p])
             PROVE  h.toa = toSend.times[h.id]
  BY DEF TimesFollowOffsets
<1>2. PICK m, i, ts : m = received[p] /\ i = h.id /\ ts = toSend.times
  OBVIOUS
<1>3. /\ m \in DOMAIN datagrams /\ \A x \in DOMAIN received : received[x] \in DOMAIN datagrams
      /\ \A x \in DOMAIN datagrams : x \in Nat
  BY <1>1, <1>2 DEF DataTypes
<1>4. PICK q \in DOMAIN output : h = output[q]
  BY DEF Range
<1>5. i \in Nat /\ output[q].id = i
  <2>1. output[q] \in HitTime
    BY <1>1 DEF DataTypes
  <2> QED BY <1>2, <1>4, <2>1 DEF HitTime
<1>6. PICK x \in DOMAIN received, k \in Nat :
         HitAt(received[x], k, output[q].id) /\ output[q].toa = TimeAt(received[x], k, Heard(x - 1))
  BY <1>1 DEF Written
<1>7. PICK j \in Nat : HitAt(m, j, i)
  BY <1>1, <1>2, <1>3, HitsOfDatagram
<1>8. received[x] = m
  <2>1. received[x] \in Nat /\ m \in Nat
    BY <1>3
  <2>2. HitAt(received[x], k, i)
    BY <1>5, <1>6
  <2> QED BY <1>1, <1>5, <1>7, <2>1, <2>2, FramesHold
<1>9. x = p
  BY <1>1, <1>2, <1>8 DEF OnePlace, Places
<1>10. HitAt(m, k, i) /\ h.toa = TimeAt(m, k, Heard(p - 1))
  BY <1>4, <1>5, <1>6, <1>8, <1>9
<1>11. Heard(p - 1) = Start(m)
  BY <1>2 DEF Heard, Start, KnownBy
<1>12. /\ i \in 1..Len(ts)
       /\ datagrams[m].frames[k].value = ts[i] % OffsetUnit
       /\ InForce(datagrams[m].frames, k, Start(m)) = ts[i] \div OffsetUnit
  <2>1. m \in Nat
    BY <1>3
  <2> QED BY <1>1, <1>2, <1>5, <1>10, <2>1, FramesHold
<1>13. h.toa = TimeOf(ts[i] % OffsetUnit, ts[i] \div OffsetUnit)
  BY <1>10, <1>11, <1>12 DEF TimeAt
<1>14. PICK t : t = ts[i]
  OBVIOUS
<1>15. t \in Nat /\ t <= AcqTime
  <2>1. ts \in Seq(0..AcqTime)
    BY <1>1, <1>2 DEF DataTypes
  <2>2. t \in 0..AcqTime
    <3>1. PICK S : S = 0..AcqTime
      OBVIOUS
    <3>2. ts \in Seq(S) /\ i \in 1..Len(ts)
      BY <1>12, <2>1, <3>1
    <3>3. ts[i] \in S
      BY ONLY <3>2
    <3> QED BY <1>14, <3>1, <3>3
  <2>3. AcqTime \in Nat
    BY ReadoutAssumption DEF ReadoutAssumption
  <2> QED BY <2>2, <2>3
<1>16. TimeOf(t % OffsetUnit, t \div OffsetUnit) = t
  BY <1>15, TimeRead
<1> QED BY <1>2, <1>13, <1>14, <1>16

LEMMA OutputSize ==
    ASSUME NEW S, NEW s \in Seq(S), TimesOnce(s), NEW T, T = {h.id : h \in Range(s)}
    PROVE  IsFiniteSet(T) /\ Cardinality(T) = Len(s)
<1>1. PICK n \in Nat : n = Len(s) /\ DOMAIN s = 1..n
  OBVIOUS
<1>2. PICK f : f = [q \in 1..n |-> s[q].id]
  OBVIOUS
<1>3. \A q \in 1..n : f[q] = s[q].id /\ s[q].id \in T
  BY <1>1, <1>2 DEF Range
<1>4. f \in [1..n -> T]
  BY <1>2, <1>3
<1>5. \A q, p \in 1..n : f[q] = f[p] => q = p
  BY <1>1, <1>3 DEF TimesOnce
<1>6. \A i \in T : \E q \in 1..n : f[q] = i
  BY <1>1, <1>3 DEF Range
<1>7. f \in Bijection(1..n, T)
  <2>1. IsInjective(f)
    BY <1>4, <1>5 DEF IsInjective
  <2> QED BY <1>4, <1>6, <2>1 DEF Bijection, Injection, Surjection
<1>8. IsFiniteSet(1..n) /\ Cardinality(1..n) = n
  BY FS_Interval
<1>9. ExistsBijection(1..n, T)
  BY <1>7 DEF ExistsBijection
<1> QED BY <1>1, <1>8, <1>9, FS_Bijection


LEMMA RateHolds == DataInv => RateIsTrue
<1> SUFFICES ASSUME DataInv PROVE RateIsTrue
  OBVIOUS
<1>1. DataTypes /\ OnePlace /\ InParts /\ Written
  BY DEF DataInv
<1>2. PICK ids, missing, l : /\ ids = {h.id : h \in Range(output)}
                           /\ missing = UNION {HitsIn(n) : n \in Unread}
                           /\ l = Len(output)
  OBVIOUS
<1>3. IsFiniteSet(ids) /\ Cardinality(ids) = l
  <2>1. output \in Seq(HitTime) /\ TimesOnce(output)
    BY <1>1 DEF DataTypes, Written
  <2> QED BY <1>2, <2>1, OutputSize
<1>4. l \in Nat
  BY <1>1, <1>2 DEF DataTypes
<1>5. ASSUME parser.total > 0
      PROVE  parser.total - l = Cardinality(missing)
  <2>1. PICK t : t = parser.total
    OBVIOUS
  <2>2. t \in Nat /\ t # 0
    BY <1>1, <1>5, <2>1 DEF DataTypes
  <2>3. PICK m \in Nat, k \in Nat : EndAt(m, k, t)
    BY <1>1, <2>1, <2>2 DEF Written
  <2>4. t = Len(toSend.times) /\ \A i \in 1..t : \E n, j \in Nat : HitAt(n, j, i)
    BY <1>1, <2>2, <2>3, FramesHold
  <2>5. /\ \A n1, n2, j1, j2, i \in Nat : HitAt(n1, j1, i) /\ HitAt(n2, j2, i) => n1 = n2 /\ j1 = j2
        /\ \A n, j, i \in Nat : HitAt(n, j, i) => i \in 1..t
    BY <1>1, <2>4, FramesHold
  <2>6. \A n \in DOMAIN datagrams : n \in Nat
    BY <1>1 DEF DataTypes
  <2>7. \A p \in DOMAIN received : received[p] \in DOMAIN datagrams
    BY <1>1 DEF DataTypes
  \* Those written are in a datagram that was received, the others in one that was not.
  <2>8. \A i \in ids : i \in Nat /\ \E p \in DOMAIN received : \E j \in Nat : HitAt(received[p], j, i)
    <3> SUFFICES ASSUME NEW i \in ids
                 PROVE  i \in Nat /\ \E p \in DOMAIN received : \E j \in Nat : HitAt(received[p], j, i)
      OBVIOUS
    <3>1. PICK q \in DOMAIN output : i = output[q].id
      BY <1>2 DEF Range
    <3>2. output[q] \in HitTime
      BY <1>1 DEF DataTypes
    <3> QED BY <1>1, <3>1, <3>2 DEF HitTime, Written
  <2>9. \A i \in missing : \E n \in DOMAIN datagrams : n \notin Range(received) /\ \E j \in Nat : HitAt(n, j, i)
    BY <1>1, <1>2, HitsOfDatagram DEF Unread
  <2>10. \A i : \A n \in DOMAIN datagrams : \A j : HitAt(n, j, i) => i \in Nat
    <3> SUFFICES ASSUME NEW i, NEW n \in DOMAIN datagrams, NEW j, HitAt(n, j, i) PROVE i \in Nat
      OBVIOUS
    <3>1. PICK fs : fs = datagrams[n].frames /\ fs \in Seq(Frame)
      <4>1. datagrams[n] \in Datagram
        BY <1>1 DEF DataTypes
      <4> QED BY <4>1 DEF Datagram
    <3>2. j \in DOMAIN fs /\ fs[j].id = i
      BY <3>1 DEF HitAt
    <3>3. fs[j] \in Frame
      BY <3>1, <3>2
    <3> QED BY <3>2, <3>3 DEF Frame
  <2>11. ids \cap missing = {}
    <3> SUFFICES ASSUME NEW i, i \in ids, i \in missing PROVE FALSE
      OBVIOUS
    <3>1. PICK p \in DOMAIN received : \E j \in Nat : HitAt(received[p], j, i)
      BY <2>8
    <3>2. PICK n \in DOMAIN datagrams : n \notin Range(received) /\ \E j \in Nat : HitAt(n, j, i)
      BY <2>9
    <3>3. i \in Nat /\ n \in Nat /\ received[p] \in Nat
      BY <2>6, <2>7, <2>8
    <3>4. received[p] = n
      BY <2>5, <3>1, <3>2, <3>3
    <3> QED BY <3>2, <3>4 DEF Range
  <2>12. ids \cup missing = 1..t
    <3>1. ASSUME NEW i \in ids PROVE i \in 1..t
      BY <2>5, <2>6, <2>7, <2>8
    <3>2. ASSUME NEW i \in missing PROVE i \in 1..t
      BY <2>5, <2>6, <2>9, <2>10
    <3>3. ASSUME NEW i \in 1..t PROVE i \in ids \/ i \in missing
      <4>1. PICK n \in Nat, j \in Nat : HitAt(n, j, i)
        BY <2>4
      <4>2. n \in DOMAIN datagrams
        BY <4>1 DEF HitAt
      <4>3. i \in Nat
        BY <2>10, <4>1, <4>2
      <4>4. CASE n \in Range(received)
        <5>1. PICK p \in DOMAIN received : n = received[p]
          BY <4>4 DEF Range
        <5>2. \E q \in DOMAIN output : output[q].id = i
          BY <1>1, <4>1, <4>3, <5>1 DEF Written
        <5> QED BY <1>2, <5>2 DEF Range
      <4>5. CASE n \notin Range(received)
        <5>1. n \in Unread
          BY <4>2, <4>5 DEF Unread
        <5>2. i \in HitsIn(n)
          BY <1>1, <4>1, <4>2, HitsOfDatagram
        <5> QED BY <1>2, <5>1, <5>2
      <4> QED BY <4>4, <4>5
    <3> QED BY <3>1, <3>2, <3>3
  <2>13. IsFiniteSet(1..t) /\ Cardinality(1..t) = t
    BY <2>2, FS_Interval
  <2>14. IsFiniteSet(missing)
    <3>1. missing \in SUBSET (1..t)
      BY <2>12
    <3> QED BY <2>13, <3>1, FS_Subset
  <2>15. Cardinality(ids \cup missing) = Cardinality(ids) + Cardinality(missing) - Cardinality(ids \cap missing)
    BY <1>3, <2>14, FS_Union
  <2>16. PICK c : c = Cardinality(missing)
    OBVIOUS
  <2>17. c \in Nat
    BY <2>14, <2>16, FS_CardinalityType
  <2>18. t = l + c - 0
    BY <1>3, <2>11, <2>12, <2>13, <2>15, <2>16, FS_EmptySet
  <2> QED BY <1>4, <2>1, <2>2, <2>16, <2>17, <2>18
<1> QED BY <1>2, <1>3, <1>5 DEF RateIsTrue

\* Datagrams are an acquisition cut into parts, each is in one place, and what is
\* written are the hits of those received, timed by the offsets received before.
THEOREM ReadoutData == Spec => []DataInv
<1> QED BY DataInit, DataStep, PTL DEF Spec

\* The hits of a datagram have their times if the offset the parser had is the
\* one that was in force when it was sent, whatever is lost or overtaken.
THEOREM ReadoutTimesFollowOffsets == Spec => []TimesFollowOffsets
<1> QED BY ReadoutData, HitsTimed, PTL

\* No hit is written twice, and those missing from the total of the end are those
\* in the datagrams that were not read.
THEOREM ReadoutRateIsTrue == Spec => []RateIsTrue
<1> QED BY ReadoutData, RateHolds, PTL
=============================================================================
