-------------------------- MODULE LogStreamProofs --------------------------
(***************************************************************************)
(* The safety of the log stream, for any number of writers, records and    *)
(* connections and any size of the ring and of the queue.  The inductive   *)
(* invariant IInv at the end adds to the types where the handler is        *)
(* (PlaceInv), what the client has seen (SeenInv), that what is larger     *)
(* comes later (OrderInv) and what comes later is behind (BehindInv), that *)
(* no record falls out of the way (CoverInv) and that a gap frame is not   *)
(* contradicted (ToldInv); each is preserved by a lemma of its own.        *)
(***************************************************************************)
EXTENDS LogStream, SequenceTheorems, WellFoundedInduction, TLAPS

----------------------------------------------------------------------------
(* Lines.                                                                  *)

\* Records have a first one.
LEMMA FirstRecord ==
    ASSUME NEW S \in SUBSET Record, S # {}
    PROVE  \E r \in S : \A o \in S : r <= o
  <1>1. S \subseteq Nat
    BY SizesAssumption DEF Record
  <1>2. PICK r \in S : \A o \in S : ~ (<<o, r>> \in OpToRel(<, Nat))
    BY <1>1, NatLessThanWellFounded, WFMin
  <1>3. ASSUME NEW o \in S PROVE r <= o
    <2>1. <<o, r>> \in Nat \X Nat /\ <<o, r>>[1] = o /\ <<o, r>>[2] = r
      BY <1>1
    <2>2. ~ (o < r)
      BY <1>2, <2>1 DEF OpToRel
    <2> QED
      BY <1>1, <2>2
  <1> QED
    BY <1>3

\* A record joins a line, and the first one leaves it.
LEMMA Ends ==
    ASSUME NEW line \in Seq(Record)
    PROVE  /\ ToSet(line) \subseteq Record /\ ToSet(<<>>) = {} /\ <<>> \in Seq(Record)
           /\ \A e \in Record : /\ Append(line, e) \in Seq(Record)
                                /\ Len(Append(line, e)) = Len(line) + 1
                                /\ ToSet(Append(line, e)) = ToSet(line) \cup {e}
           /\ line # <<>> => /\ Head(line) \in Record /\ Tail(line) \in Seq(Record)
                             /\ Len(Tail(line)) = Len(line) - 1 /\ Len(line) > 0
                             /\ ToSet(line) = {Head(line)} \cup ToSet(Tail(line))
           /\ Len(line) \in Nat
  <1>1. DOMAIN line = 1..Len(line) /\ Len(line) \in Nat /\ \A i \in DOMAIN line : line[i] \in Record
    OBVIOUS
  <1>2. ASSUME NEW e \in Record
        PROVE  /\ Append(line, e) \in Seq(Record) /\ Len(Append(line, e)) = Len(line) + 1
               /\ ToSet(Append(line, e)) = ToSet(line) \cup {e}
    <2>1. /\ Append(line, e) \in Seq(Record) /\ DOMAIN Append(line, e) = 1..(Len(line) + 1)
          /\ Len(Append(line, e)) = Len(line) + 1 /\ Append(line, e)[Len(line) + 1] = e
          /\ \A i \in DOMAIN line : Append(line, e)[i] = line[i]
      OBVIOUS
    <2>2. \A i : i \in 1..(Len(line) + 1) <=> i \in DOMAIN line \/ i = Len(line) + 1
      BY <1>1
    <2>3. ASSUME NEW x \in ToSet(Append(line, e)) PROVE x \in ToSet(line) \cup {e}
      BY <2>1, <2>2 DEF ToSet
    <2>4. ASSUME NEW x \in ToSet(line) PROVE x \in ToSet(Append(line, e))
      BY <2>1, <2>2 DEF ToSet
    <2>5. e \in ToSet(Append(line, e))
      BY <1>1, <2>1 DEF ToSet
    <2> QED
      BY <2>1, <2>3, <2>4, <2>5
  <1>3. ASSUME line # <<>>
        PROVE  /\ Head(line) \in Record /\ Tail(line) \in Seq(Record)
               /\ Len(Tail(line)) = Len(line) - 1 /\ Len(line) > 0
               /\ ToSet(line) = {Head(line)} \cup ToSet(Tail(line))
    <2>1. /\ Head(line) \in Record /\ Head(line) = line[1] /\ Tail(line) \in Seq(Record)
          /\ Len(Tail(line)) = Len(line) - 1 /\ Len(line) > 0
          /\ DOMAIN Tail(line) = 1..(Len(line) - 1)
          /\ \A i \in DOMAIN Tail(line) : Tail(line)[i] = line[i + 1]
      BY <1>3
    <2>2. \A i \in DOMAIN line : i = 1 \/ (i - 1 \in DOMAIN Tail(line) /\ line[i] = Tail(line)[i - 1])
      BY <1>1, <2>1
    <2>3. \A i \in DOMAIN Tail(line) : i + 1 \in DOMAIN line
      BY <1>1, <2>1
    <2>4. 1 \in DOMAIN line
      BY <1>1, <2>1
    <2>5. ASSUME NEW x \in ToSet(line) PROVE x \in {Head(line)} \cup ToSet(Tail(line))
      <3>1. PICK i \in DOMAIN line : x = line[i]
        BY DEF ToSet
      <3>2. CASE i = 1
        BY <2>1, <3>1, <3>2
      <3>3. CASE i # 1
        BY <2>2, <3>1, <3>3 DEF ToSet
      <3> QED
        BY <3>2, <3>3
    <2>6. ASSUME NEW x \in ToSet(Tail(line)) PROVE x \in ToSet(line)
      BY <2>1, <2>3 DEF ToSet
    <2>7. Head(line) \in ToSet(line)
      BY <2>1, <2>4 DEF ToSet
    <2> QED
      BY <2>1, <2>5, <2>6, <2>7
  <1>4. ToSet(line) \subseteq Record
    BY <1>1 DEF ToSet
  <1>5. ToSet(<<>>) = {} /\ <<>> \in Seq(Record)
    BY EmptySeq DEF ToSet
  <1> QED
    BY <1>1, <1>2, <1>3, <1>4, <1>5

\* A line that ascends, but for what was swapped, goes on to.
LEMMA AscendsEnds ==
    ASSUME NEW line \in Seq(Record), NEW swaps, Ascends(line, swaps)
    PROVE  /\ \A e \in Record : AllAhead(ToSet(line), {e} \ swaps) => Ascends(Append(line, e), swaps)
           /\ line # <<>> => /\ Ascends(Tail(line), swaps)
                             /\ AllAhead({Head(line)}, ToSet(Tail(line)) \ swaps)
           /\ \A more : swaps \subseteq more => Ascends(line, more)
  <1>1. DOMAIN line = 1..Len(line) /\ Len(line) \in Nat
    OBVIOUS
  <1>2. ASSUME NEW e \in Record, AllAhead(ToSet(line), {e} \ swaps)
        PROVE  Ascends(Append(line, e), swaps)
    <2>1. /\ DOMAIN Append(line, e) = 1..(Len(line) + 1) /\ Append(line, e)[Len(line) + 1] = e
          /\ \A i \in DOMAIN line : Append(line, e)[i] = line[i]
      OBVIOUS
    <2>2. \A i \in DOMAIN line : line[i] < e \/ e \in swaps
      BY <1>2 DEF AllAhead, ToSet
    <2>3. \A i \in 1..(Len(line) + 1) : i \in DOMAIN line \/ i = Len(line) + 1
      BY <1>1
    <2>4. SUFFICES ASSUME NEW i \in DOMAIN Append(line, e), NEW j \in DOMAIN Append(line, e), i < j
                   PROVE  Append(line, e)[i] < Append(line, e)[j] \/ Append(line, e)[j] \in swaps
      BY DEF Ascends
    <2>5. i \in DOMAIN line
      BY <1>1, <2>1, <2>4
    <2> QED
      BY <2>1, <2>2, <2>3, <2>4, <2>5 DEF Ascends
  <1>3. ASSUME line # <<>>
        PROVE  Ascends(Tail(line), swaps) /\ AllAhead({Head(line)}, ToSet(Tail(line)) \ swaps)
    <2>1. /\ Head(line) = line[1] /\ 1 \in DOMAIN line
          /\ \A i \in DOMAIN Tail(line) : /\ i \in Nat /\ i >= 1 /\ i + 1 \in DOMAIN line
                                          /\ Tail(line)[i] = line[i + 1]
      BY <1>3
    <2>2. Ascends(Tail(line), swaps)
      BY <2>1 DEF Ascends
    <2>3. AllAhead({Head(line)}, ToSet(Tail(line)) \ swaps)
      BY <2>1 DEF Ascends, AllAhead, ToSet
    <2> QED
      BY <2>2, <2>3
  <1>4. \A more : swaps \subseteq more => Ascends(line, more)
    BY DEF Ascends
  <1> QED
    BY <1>2, <1>3, <1>4

\* Behind a record of a line are all the larger ones: of those that come, as the line moves.
LEMMA TrailsEnds ==
    ASSUME NEW line \in Seq(Record), NEW behind, NEW coming, Trails(line, behind, coming)
    PROVE  /\ \A b, c : c \subseteq coming /\ (behind \cap c) \subseteq b => Trails(line, b, c)
           /\ line # <<>> => /\ Trails(Tail(line), behind, coming)
                             /\ \A s \in coming : Head(line) < s => s \in behind \cup ToSet(Tail(line))
           /\ \A e \in Record : \A b :
                 behind \subseteq b \cup {e} /\ (\A s \in coming : e < s => s \in b)
                     => Trails(Append(line, e), b, coming)
  <1>1. DOMAIN line = 1..Len(line) /\ Len(line) \in Nat
    OBVIOUS
  <1>2. ASSUME line # <<>>
        PROVE  /\ Trails(Tail(line), behind, coming)
               /\ \A s \in coming : Head(line) < s => s \in behind \cup ToSet(Tail(line))
    <2>1. /\ Head(line) = line[1] /\ 1 \in DOMAIN line
          /\ \A i \in DOMAIN Tail(line) : /\ i \in Nat /\ i >= 1 /\ i + 1 \in DOMAIN line
                                          /\ Tail(line)[i] = line[i + 1]
          /\ \A j \in DOMAIN line : /\ j \in Nat
                                    /\ j > 1 => /\ j - 1 \in DOMAIN Tail(line)
                                                /\ line[j] = Tail(line)[j - 1]
      BY <1>1, <1>2
    <2>2. ASSUME NEW i \in DOMAIN Tail(line), NEW s \in coming, Tail(line)[i] < s, s \notin behind
          PROVE  \E j \in DOMAIN Tail(line) : i < j /\ Tail(line)[j] = s
      <3>1. PICK k \in DOMAIN line : i + 1 < k /\ line[k] = s
        BY <2>1, <2>2 DEF Trails
      <3>2. k - 1 \in DOMAIN Tail(line) /\ Tail(line)[k - 1] = s /\ i < k - 1
        BY <2>1, <3>1
      <3> QED
        BY <3>2
    <2>3. ASSUME NEW s \in coming, Head(line) < s, s \notin behind PROVE s \in ToSet(Tail(line))
      <3>1. PICK k \in DOMAIN line : 1 < k /\ line[k] = s
        BY <2>1, <2>3 DEF Trails
      <3> QED
        BY <2>1, <3>1 DEF ToSet
    <2> QED
      BY <2>2, <2>3 DEF Trails
  <1>3. ASSUME NEW e \in Record, NEW b,
               behind \subseteq b \cup {e}, \A s \in coming : e < s => s \in b
        PROVE  Trails(Append(line, e), b, coming)
    <2>1. /\ DOMAIN Append(line, e) = 1..(Len(line) + 1) /\ Append(line, e)[Len(line) + 1] = e
          /\ \A i \in DOMAIN line : Append(line, e)[i] = line[i]
      OBVIOUS
    <2>2. \A i \in DOMAIN Append(line, e) : i \in DOMAIN line \/ i = Len(line) + 1
      BY <1>1, <2>1
    <2>3. \A i \in DOMAIN line : i \in DOMAIN Append(line, e) /\ i < Len(line) + 1
      BY <1>1, <2>1
    <2>4. Len(line) + 1 \in DOMAIN Append(line, e)
      BY <1>1, <2>1
    <2> SUFFICES ASSUME NEW i \in DOMAIN Append(line, e), NEW s \in coming,
                        Append(line, e)[i] < s, s \notin b
                 PROVE  \E j \in DOMAIN Append(line, e) : i < j /\ Append(line, e)[j] = s
      BY DEF Trails
    <2>5. i \in DOMAIN line
      BY <1>3, <2>1, <2>2
    <2>6. CASE s = e
      BY <2>1, <2>3, <2>4, <2>5, <2>6
    <2>7. CASE s # e
      <3>1. PICK j \in DOMAIN line : i < j /\ line[j] = s
        BY <1>3, <2>1, <2>5, <2>7 DEF Trails
      <3> QED
        BY <2>1, <2>3, <3>1
    <2> QED
      BY <2>6, <2>7
  <1>4. \A b, c : c \subseteq coming /\ (behind \cap c) \subseteq b => Trails(line, b, c)
    BY DEF Trails
  <1> QED
    BY <1>2, <1>3, <1>4

----------------------------------------------------------------------------
(* Types and places.                                                       *)

\* A client that comes back asks for what follows the last record it saw.
LEMMA Resumes ==
    ASSUME TypeOK, SeenInv, Connect
    PROVE  since' \in Cursor /\ \A o \in seen : o < since'
  <1>1. since' = IF seen = {} THEN since ELSE (CHOOSE r \in seen : \A o \in seen : o <= r) + 1
    BY DEF Connect
  <1>2. CASE seen = {}
    BY <1>1, <1>2 DEF TypeOK
  <1>3. CASE seen # {}
    <2> DEFINE m == CHOOSE r \in seen : \A o \in seen : o <= r
    <2>1. m \in seen /\ \A o \in seen : o <= m
      BY <1>3 DEF SeenInv
    <2>2. since' = m + 1
      BY <1>1, <1>3
    <2> HIDE DEF m
    <2>3. m \in Record /\ seen \subseteq Record
      BY <2>1 DEF TypeOK
    <2> QED
      BY <2>1, <2>2, <2>3, SizesAssumption DEF Record, Cursor
  <1> QED
    BY <1>2, <1>3

\* The next frame of a replay is the first record that is left of it.
LEMMA FirstOfBacklog ==
    ASSUME TypeOK, backlog # {}
    PROVE  LET r == CHOOSE r \in backlog : \A o \in backlog : r <= o
           IN  r \in backlog /\ r \in Record /\ \A o \in backlog : r <= o
  <1>1. \E r \in backlog : \A o \in backlog : r <= o
    BY FirstRecord DEF TypeOK
  <1> QED
    BY <1>1 DEF TypeOK

\* What Replay writes, with its record named.
LEMMA Replays ==
    ASSUME TypeOK, Replay
    PROVE  \E r \in Record :
              /\ pc = "replay" /\ r \in backlog /\ \A o \in backlog : r <= o
              /\ told' = Announced(r) /\ seen' = seen \cup {r} /\ backlog' = backlog \ {r}
  <1> DEFINE r == CHOOSE r \in backlog : \A o \in backlog : r <= o
  <1>1. r \in backlog /\ r \in Record /\ \A o \in backlog : r <= o
    BY FirstOfBacklog DEF Replay
  <1>2. pc = "replay" /\ told' = Announced(r) /\ seen' = seen \cup {r} /\ backlog' = backlog \ {r}
    BY DEF Replay
  <1> QED
    BY <1>1, <1>2

\* The three things that can become of the record at the head of the loop's callbacks.
LEMMA Puts ==
    ASSUME TypeOK, Put
    PROVE  LET r == Head(ready)
           IN  /\ ready # <<>> /\ ready' = Tail(ready) /\ r \in Record
               /\ \/ r < boundary /\ UNCHANGED <<q, drop>>
                  \/ ~(r < boundary) /\ Len(q) < QueueMax /\ q' = Append(q, r) /\ drop' = drop
                  \/ /\ ~(r < boundary) /\ q # <<>> /\ q' = Append(Tail(q), r)
                     /\ drop' = Dropped(Head(q)) /\ Len(q) = QueueMax
  <1>1. ready # <<>> /\ ready' = Tail(ready) /\ Head(ready) \in Record
    BY Ends DEF Put, TypeOK
  <1>2. Len(q) \in Nat /\ QueueMax \in Nat /\ QueueMax > 0 /\ Len(q) <= QueueMax
    BY SizesAssumption, Ends DEF TypeOK
  <1>3. Len(q) = QueueMax => q # <<>>
    BY <1>2
  <1> QED
    BY <1>1, <1>2, <1>3 DEF Put

\* The first state: nobody connected, nothing written.
LEMMA InitType == Init => TypeOK /\ PlaceInv /\ SeenInv
  <1> SUFFICES ASSUME Init PROVE TypeOK /\ PlaceInv /\ SeenInv
    OBVIOUS
  <1> USE SizesAssumption
  <1>1. EmptyHand \in [some : BOOLEAN, seq : Record, to : 0..MaxConnects]
    BY DEF EmptyHand, Record
  <1>2. NoDrop \in [n : Nat, from : Record, to : Record]
    BY DEF NoDrop, Record
  <1>3. ready \in Seq(Record) /\ q \in Seq(Record) /\ Len(q) = 0
    BY EmptySeq DEF Init
  <1>4. hand \in [Writer -> [some : BOOLEAN, seq : Record, to : 0..MaxConnects]]
    BY <1>1 DEF Init
  <1>5. TypeOK
    <2>1. 0 \in Cursor /\ 0 \in 0..MaxConnects /\ 0 <= QueueMax
      BY DEF Cursor
    <2>2. drop \in [n : Nat, from : Record, to : Record]
      BY <1>2 DEF Init
    <2> QED
      BY <1>3, <1>4, <2>1, <2>2 DEF Init, TypeOK
  <1>6. PlaceInv
    <2>1. ToSet(q) = {} /\ ToSet(ready) = {}
      BY DEF Init, ToSet
    <2> QED
      BY <2>1 DEF Init, PlaceInv, EmptyHand, NoDrop
  <1>7. SeenInv
    BY DEF Init, SeenInv
  <1> QED
    BY <1>5, <1>6, <1>7

\* Every step keeps the types.
LEMMA TypeStep == TypeOK /\ SeenInv /\ [Next]_vars => TypeOK'
  <1> SUFFICES ASSUME TypeOK, SeenInv, [Next]_vars PROVE TypeOK'
    OBVIOUS
  <1> USE SizesAssumption
  <1>1. ASSUME NEW w \in Writer, AppendRecord(w) PROVE TypeOK'
    <2>1. next \in Record /\ next + 1 \in Cursor
      BY <1>1 DEF AppendRecord, TypeOK, Record, Cursor
    <2>2. [some |-> TRUE, seq |-> next, to |-> IF subscribed THEN connects ELSE 0]
            \in [some : BOOLEAN, seq : Record, to : 0..MaxConnects]
      BY <2>1 DEF TypeOK
    <2>3. hand' \in [Writer -> [some : BOOLEAN, seq : Record, to : 0..MaxConnects]]
      BY <1>1, <2>2 DEF AppendRecord, TypeOK
    <2> QED
      BY <1>1, <2>1, <2>3 DEF AppendRecord, TypeOK, stream, queues, history
  <1>2. ASSUME NEW w \in Writer, Push(w) PROVE TypeOK'
    <2>1. EmptyHand \in [some : BOOLEAN, seq : Record, to : 0..MaxConnects]
      BY DEF EmptyHand, Record
    <2>2. hand' \in [Writer -> [some : BOOLEAN, seq : Record, to : 0..MaxConnects]]
      BY <1>2, <2>1 DEF Push, TypeOK
    <2>3. \A v \in Writer : hand[v].seq \in Record
      BY DEF TypeOK
    <2>4. ready' \in Seq(Record)
      BY <1>2, <2>3, Ends DEF Push, TypeOK
    <2>5. swapped' \subseteq Record
      BY <1>2, <2>3 DEF Push, TypeOK, Overtaken
    <2> QED
      BY <1>2, <2>2, <2>4, <2>5 DEF Push, TypeOK, stream
  <1>3. CASE Connect
    BY <1>3, Resumes DEF Connect, TypeOK, queues
  <1>4. CASE Snapshot
    BY <1>4 DEF Snapshot, TypeOK, Held, queues, history
  <1>5. CASE Replay
    <2>1. told' \subseteq Record /\ seen' \subseteq Record /\ backlog' \subseteq Record
      BY <1>5, Replays DEF TypeOK, Announced
    <2> QED
      BY <1>5, <2>1 DEF Replay, TypeOK, queues
  <1>6. CASE GoesLive
    BY <1>6 DEF GoesLive, TypeOK, Announced, queues
  <1>7. CASE Put
    <2>1. /\ Head(ready) \in Record /\ ready' \in Seq(Record)
      BY <1>7, Puts, Ends DEF TypeOK
    <2>2. q' \in Seq(Record) /\ Len(q') <= QueueMax /\ drop' \in [n : Nat, from : Record, to : Record]
      <3>1. CASE UNCHANGED <<q, drop>>
        BY <3>1 DEF TypeOK
      <3>2. CASE Len(q) < QueueMax /\ q' = Append(q, Head(ready)) /\ drop' = drop
        BY <2>1, <3>2, Ends DEF TypeOK
      <3>3. CASE q # <<>> /\ q' = Append(Tail(q), Head(ready)) /\ drop' = Dropped(Head(q))
                 /\ Len(q) = QueueMax
        <4>1. Head(q) \in Record /\ Tail(q) \in Seq(Record) /\ Len(Tail(q)) = Len(q) - 1
          BY <3>3, Ends DEF TypeOK
        <4>2. q' \in Seq(Record) /\ Len(q') = Len(q) - 1 + 1 /\ Len(q) \in Nat
          BY <2>1, <3>3, <4>1, Ends DEF TypeOK
        <4>3. Dropped(Head(q)) \in [n : Nat, from : Record, to : Record]
          BY <4>1 DEF Dropped, TypeOK
        <4> QED
          BY <3>3, <4>2, <4>3
      <3> QED
        BY <1>7, <3>1, <3>2, <3>3, Puts
    <2> QED
      BY <1>7, <2>1, <2>2 DEF Put, TypeOK, stream, history
  <1>8. CASE Deliver
    <2>1. Head(q) \in Record /\ q' \in Seq(Record) /\ Len(q') <= QueueMax
      BY <1>8, Ends DEF Deliver, TypeOK
    <2>2. NoDrop \in [n : Nat, from : Record, to : Record]
      BY DEF NoDrop, Record
    <2>3. drop.from..drop.to \subseteq Record
      BY DEF TypeOK, Record
    <2>4. Head(q) + 1 \in Cursor
      BY <2>1 DEF Record, Cursor
    <2>5. told' \subseteq Record /\ seen' \subseteq Record
      BY <1>8, <2>1, <2>3 DEF Deliver, TypeOK
    <2>6. /\ drop' \in [n : Nat, from : Record, to : Record]
          /\ {since', boundary', after'} \subseteq Cursor
      BY <1>8, <2>2, <2>4 DEF Deliver, TypeOK
    <2>7. UNCHANGED <<next, subscribed, hand, pc, since, boundary, backlog, ready, connects, swapped>>
      BY <1>8 DEF Deliver
    <2> QED
      BY <2>1, <2>2, <2>5, <2>6, <2>7 DEF TypeOK
  <1>9. CASE Skip
    <2>1. q' \in Seq(Record) /\ Len(q') <= QueueMax
      BY <1>9, Ends DEF Skip, TypeOK
    <2> QED
      BY <1>9, <2>1 DEF Skip, TypeOK, stream, history
  <1>10. CASE Disconnect
    <2>1. NoDrop \in [n : Nat, from : Record, to : Record]
      BY DEF NoDrop, Record
    <2>2. q' \in Seq(Record) /\ ready' \in Seq(Record) /\ Len(q') = 0
      BY <1>10, EmptySeq DEF Disconnect
    <2>3. /\ drop' \in [n : Nat, from : Record, to : Record]
          /\ {since', boundary', after'} \subseteq Cursor
      BY <1>10, <2>1 DEF Disconnect, TypeOK, Cursor
    <2>4. /\ pc' = "off" /\ subscribed' = FALSE /\ backlog' = {}
          /\ UNCHANGED <<next, hand, connects, history>>
      BY <1>10 DEF Disconnect
    <2>5. Len(q') <= QueueMax
      BY <2>2
    <2> QED
      BY <2>2, <2>3, <2>4, <2>5 DEF TypeOK, history
  <1>11. CASE UNCHANGED vars
    BY <1>11 DEF vars, TypeOK, stream, queues, history
  <1> QED
    BY <1>1, <1>2, <1>3, <1>4, <1>5, <1>6, <1>7, <1>8, <1>9, <1>10, <1>11 DEF Next, Handler

\* The numbers a step finds are numbers.
LEMMA Numbers ==
    ASSUME TypeOK
    PROVE  /\ Record \subseteq Nat /\ Cursor \subseteq Nat
           /\ {next, since, boundary, after} \subseteq Nat
           /\ seen \cup told \cup backlog \cup swapped \subseteq Nat
           /\ ToSet(q) \cup ToSet(ready) \subseteq Record
           /\ drop.from \in Nat /\ drop.to \in Nat /\ drop.n \in Nat
           /\ \A w \in Writer : hand[w].seq \in Record /\ hand[w].to \in Nat
  <1>1. Record \subseteq Nat /\ Cursor \subseteq Nat
    BY SizesAssumption DEF Record, Cursor
  <1>2. /\ next \in Nat /\ {since, boundary, after} \subseteq Nat
        /\ seen \cup told \cup backlog \cup swapped \subseteq Nat
    BY <1>1 DEF TypeOK
  <1>3. ToSet(q) \cup ToSet(ready) \subseteq Record
    BY Ends DEF TypeOK
  <1>4. drop.from \in Nat /\ drop.to \in Nat /\ drop.n \in Nat
    BY <1>1 DEF TypeOK
  <1>5. \A w \in Writer : hand[w].seq \in Record /\ hand[w].to \in Nat
    BY DEF TypeOK
  <1> QED
    BY <1>1, <1>2, <1>3, <1>4, <1>5

\* Numbers are handed out in order, and the handler's fields go with its place.
LEMMA PlaceStep == TypeOK /\ PlaceInv /\ SeenInv /\ [Next]_vars => PlaceInv'
  <1> SUFFICES ASSUME TypeOK, PlaceInv, SeenInv, [Next]_vars PROVE PlaceInv'
    OBVIOUS
  <1> USE Numbers
  <1>1. ASSUME NEW w \in Writer, AppendRecord(w) PROVE PlaceInv'
    <2>1. /\ next' = next + 1 /\ UNCHANGED <<subscribed, stream, queues, connects, history>>
          /\ hand' = [hand EXCEPT ![w] = [some |-> TRUE, seq |-> next,
                                          to |-> IF subscribed THEN connects ELSE 0]]
      BY <1>1 DEF AppendRecord
    <2>2. connects \in Nat
      BY DEF TypeOK
    <2>3. ASSUME NEW v \in Writer
          PROVE  hand'[v].to <= connects /\ (hand'[v].some => hand'[v].seq < next + 1)
      <3>1. hand'[v] = IF v = w THEN [some |-> TRUE, seq |-> next,
                                      to |-> IF subscribed THEN connects ELSE 0]
                       ELSE hand[v]
        BY <2>1 DEF TypeOK
      <3>2. CASE v = w
        BY <2>2, <3>1, <3>2
      <3>3. CASE v # w
        BY <2>2, <3>1, <3>3 DEF PlaceInv
      <3> QED
        BY <3>2, <3>3
    <2>4. \A u, v \in Writer : hand'[u].some /\ hand'[v].some /\ hand'[u].seq = hand'[v].seq => u = v
      <3>1. /\ hand'[w].seq = next
            /\ \A v \in Writer \ {w} : hand'[v] = hand[v] /\ (hand[v].some => hand[v].seq < next)
        BY <2>1 DEF PlaceInv, TypeOK
      <3>2. \A v \in Writer \ {w} : hand'[v].some => hand'[v].seq # next
        BY <3>1
      <3> QED
        BY <3>1, <3>2 DEF PlaceInv
    <2> QED
      BY <2>1, <2>3, <2>4 DEF PlaceInv, stream, queues, history
  <1>2. ASSUME NEW w \in Writer, Push(w) PROVE PlaceInv'
    <2>1. /\ UNCHANGED <<next, subscribed, stream, q, drop, connects, seen, told>>
          /\ hand' = [hand EXCEPT ![w] = EmptyHand] /\ hand[w].some /\ hand[w].seq < next
          /\ ready' = ready \/ (subscribed /\ ready' = Append(ready, hand[w].seq))
      BY <1>2 DEF Push, PlaceInv
    <2>2. ToSet(ready') \subseteq ToSet(ready) \cup {hand[w].seq}
      <3>1. ready \in Seq(Record) /\ hand[w].seq \in Record
        BY DEF TypeOK
      <3> QED
        BY <2>1, <3>1, Ends
    <2>3. \A v \in Writer : hand'[v].to <= connects /\ (hand'[v].some => hand'[v].seq < next)
      BY <2>1 DEF PlaceInv, TypeOK, EmptyHand
    <2>4. \A u, v \in Writer : hand'[u].some /\ hand'[v].some /\ hand'[u].seq = hand'[v].seq => u = v
      BY <2>1 DEF PlaceInv, TypeOK, EmptyHand
    <2> QED
      BY <2>1, <2>2, <2>3, <2>4 DEF PlaceInv, stream
  <1>3. CASE Connect
    <2>1. connects' = connects + 1 /\ connects \in Nat
      BY <1>3 DEF Connect, TypeOK
    <2> QED
      BY <1>3, <2>1 DEF Connect, PlaceInv, queues
  <1>4. CASE Snapshot
    BY <1>4 DEF Snapshot, PlaceInv, queues, history
  <1>5. CASE Replay
    <2>1. PICK r \in Record :
              /\ pc = "replay" /\ r \in backlog /\ \A o \in backlog : r <= o
              /\ told' = Announced(r) /\ seen' = seen \cup {r} /\ backlog' = backlog \ {r}
      BY <1>5, Replays
    <2>2. r < boundary /\ boundary <= next
      BY <2>1 DEF SeenInv, PlaceInv
    <2>3. \A o \in seen' \cup told' : o < next
      BY <2>1, <2>2 DEF Announced, PlaceInv
    <2> QED
      BY <1>5, <2>1, <2>3 DEF Replay, PlaceInv, queues
  <1>6. CASE GoesLive
    <2>1. \A o \in told' : o < next
      BY <1>6 DEF GoesLive, Announced, PlaceInv
    <2> QED
      BY <1>6, <2>1 DEF GoesLive, PlaceInv, queues
  <1>7. CASE Put
    <2>1. /\ ToSet(ready') \cup ToSet(q') \subseteq ToSet(ready) \cup ToSet(q)
          /\ drop'.n > 0 => drop'.from < next /\ drop'.to < next
      <3>1. /\ Head(ready) \in Record /\ ready # <<>> /\ ready' = Tail(ready)
            /\ ToSet(ready) = {Head(ready)} \cup ToSet(ready')
        BY <1>7, Puts, Ends DEF TypeOK
      <3>2. CASE UNCHANGED <<q, drop>>
        BY <3>1, <3>2 DEF PlaceInv
      <3>3. CASE q' = Append(q, Head(ready)) /\ drop' = drop
        BY <3>1, <3>3, Ends DEF PlaceInv, TypeOK
      <3>4. CASE q # <<>> /\ q' = Append(Tail(q), Head(ready)) /\ drop' = Dropped(Head(q))
        <4>1. Tail(q) \in Seq(Record) /\ ToSet(q) = {Head(q)} \cup ToSet(Tail(q))
          BY <3>4, Ends DEF TypeOK
        <4>2. ToSet(q') = ToSet(Tail(q)) \cup {Head(ready)}
          BY <3>1, <3>4, <4>1, Ends
        <4>3. Head(q) < next
          BY <4>1 DEF PlaceInv
        <4> QED
          BY <3>1, <3>4, <4>1, <4>2, <4>3 DEF Dropped, PlaceInv
      <3> QED
        BY <1>7, <3>2, <3>3, <3>4, Puts
    <2>2. pc \in {"replay", "follow"} /\ UNCHANGED <<next, subscribed, hand, stream, connects, history>>
      BY <1>7 DEF Put
    <2> QED
      BY <2>1, <2>2 DEF PlaceInv, stream, history
  <1>8. CASE Deliver
    <2>1. ToSet(q) = {Head(q)} \cup ToSet(q') /\ Head(q) < next /\ Head(q) \in Record
      BY <1>8, Ends DEF Deliver, TypeOK, PlaceInv
    <2>2. /\ pc = "follow" /\ drop' = NoDrop /\ after' = Head(q) + 1 /\ seen' = seen \cup {Head(q)}
          /\ told' = IF drop.n = 0 THEN told ELSE told \cup drop.from..drop.to
          /\ UNCHANGED <<next, subscribed, hand, pc, since, boundary, backlog, ready, connects,
                         swapped>>
      BY <1>8 DEF Deliver
    <2>3. \A r \in told' : r < next
      BY <2>2 DEF PlaceInv
    <2> QED
      BY <2>1, <2>2, <2>3 DEF PlaceInv, NoDrop
  <1>9. CASE Skip
    <2>1. ToSet(q') \subseteq ToSet(q) /\ pc = "follow"
      BY <1>9, Ends DEF Skip, TypeOK
    <2> QED
      BY <1>9, <2>1 DEF Skip, PlaceInv, stream, history
  <1>10. CASE Disconnect
    <2>1. ToSet(q') = {} /\ ToSet(ready') = {}
      BY <1>10, Ends DEF Disconnect, TypeOK
    <2> QED
      BY <1>10, <2>1 DEF Disconnect, PlaceInv, NoDrop, history
  <1>11. CASE UNCHANGED vars
    BY <1>11 DEF vars, PlaceInv, stream, queues, history
  <1> QED
    BY <1>1, <1>2, <1>3, <1>4, <1>5, <1>6, <1>7, <1>8, <1>9, <1>10, <1>11 DEF Next, Handler

\* The client's view moves upward.
LEMMA SeenStep == TypeOK /\ PlaceInv /\ SeenInv /\ [Next]_vars => SeenInv'
  <1> SUFFICES ASSUME TypeOK, PlaceInv, SeenInv, [Next]_vars PROVE SeenInv'
    OBVIOUS
  <1> USE Numbers
  <1>1. CASE UNCHANGED <<seen, told, backlog, pc, since, boundary, after>>
    BY <1>1 DEF SeenInv
  <1>2. CASE Connect
    <2>1. pc' = "subscribed" /\ seen' = seen
      BY <1>2 DEF Connect
    <2>2. \A o \in seen : o < since'
      BY <1>2, Resumes
    <2> QED
      BY <2>1, <2>2 DEF SeenInv
  <1>3. CASE Snapshot
    <2>1. \A o \in Held(since) : since <= o /\ o < next
      BY DEF Held
    <2>2. pc = "subscribed" /\ pc' = "replay" /\ boundary' = next /\ backlog' = Held(since)
          /\ seen' = seen /\ told' = told
      BY <1>3 DEF Snapshot, history
    <2>3. told = {} /\ \A o \in seen : o < next /\ o < since
      BY <2>2 DEF PlaceInv, SeenInv
    <2>4. \A o \in seen, r \in Held(since) : o < r
      BY <2>1, <2>3 DEF Held
    <2>5. \A o \in seen' \cup told' \cup backlog' : o < boundary'
      BY <2>1, <2>2, <2>3
    <2> QED
      BY <2>2, <2>4, <2>5 DEF SeenInv
  <1>4. CASE Replay
    <2>1. PICK r \in Record :
              /\ pc = "replay" /\ r \in backlog /\ \A o \in backlog : r <= o
              /\ told' = Announced(r) /\ seen' = seen \cup {r} /\ backlog' = backlog \ {r}
      BY <1>4, Replays
    <2>2. pc' = pc /\ boundary' = boundary
      BY <1>4 DEF Replay
    <2>3. r < boundary /\ \A o \in seen : o < r
      BY <2>1 DEF SeenInv
    <2>4. \A o \in seen' : o <= r
      BY <2>1, <2>3
    <2>5. \A o \in seen' \cup told' \cup backlog' : o < boundary
      BY <2>1, <2>3 DEF SeenInv, Announced
    <2>6. \A o \in seen', s \in backlog' : o < s
      BY <2>1, <2>3 DEF SeenInv
    <2> QED
      BY <2>1, <2>2, <2>4, <2>5, <2>6 DEF SeenInv
  <1>5. CASE GoesLive
    BY <1>5 DEF GoesLive, SeenInv
  <1>6. CASE Deliver
    <2>1. Head(q) \in Record /\ Head(q) >= after /\ pc = "follow"
      BY <1>6, Ends DEF Deliver, TypeOK
    <2>2. \A o \in seen : o < Head(q)
      BY <2>1 DEF SeenInv
    <2>3. seen' = seen \cup {Head(q)} /\ after' = Head(q) + 1 /\ pc' = pc /\ boundary' = boundary
      BY <1>6 DEF Deliver
    <2>4. (\A o \in seen' : o <= Head(q) /\ o < Head(q) + 1) /\ Head(q) \in seen'
      BY <2>1, <2>2, <2>3
    <2>5. boundary <= Head(q) + 1
      BY <2>1 DEF SeenInv
    <2> QED
      BY <2>1, <2>3, <2>4, <2>5 DEF SeenInv
  <1>7. CASE Disconnect
    BY <1>7 DEF Disconnect, SeenInv, history
  <1>8. CASE Skip \/ Put \/ UNCHANGED vars
    BY <1>1, <1>8 DEF Skip, Put, vars, stream, history
  <1>9. ASSUME NEW w \in Writer, AppendRecord(w) \/ Push(w) PROVE SeenInv'
    BY <1>1, <1>9 DEF AppendRecord, Push, stream, history
  <1> QED
    BY <1>2, <1>3, <1>4, <1>5, <1>6, <1>7, <1>8, <1>9 DEF Next, Handler

----------------------------------------------------------------------------
(* The records with the writers.                                           *)

\* A record that is numbered is on its way to the connection there is.
LEMMA HandsAppend ==
    ASSUME TypeOK, NEW w \in Writer, AppendRecord(w)
    PROVE  /\ subscribed => Hands' = Hands \cup {next}
           /\ ~subscribed => Hands = {} /\ Hands' = {}
  <1>1. /\ UNCHANGED <<subscribed, connects>> /\ ~hand[w].some
        /\ hand' = [hand EXCEPT ![w] = [some |-> TRUE, seq |-> next,
                                        to |-> IF subscribed THEN connects ELSE 0]]
    BY DEF AppendRecord
  <1>2. /\ hand'[w] = [some |-> TRUE, seq |-> next, to |-> IF subscribed THEN connects ELSE 0]
        /\ \A v \in Writer \ {w} : hand'[v] = hand[v]
    BY <1>1 DEF TypeOK
  <1>3. ~subscribed => Hands = {} /\ Hands' = {}
    BY <1>1 DEF Hands
  <1>4. ASSUME subscribed PROVE Hands' = Hands \cup {next}
    <2>1. ASSUME NEW x \in Hands' PROVE x \in Hands \cup {next}
      BY <1>1, <1>2, <2>1 DEF Hands
    <2>2. ASSUME NEW x \in Hands PROVE x \in Hands'
      BY <1>1, <1>2, <2>2 DEF Hands
    <2>3. next \in Hands'
      BY <1>1, <1>2, <1>4 DEF Hands
    <2> QED
      BY <2>1, <2>2, <2>3
  <1> QED
    BY <1>3, <1>4

\* A record that is pushed to the connection has left the writers.
LEMMA HandsPush ==
    ASSUME TypeOK, PlaceInv, NEW w \in Writer, Push(w)
    PROVE  LET r == hand[w].seq
           IN  \/ /\ r \in Hands /\ Hands' = Hands \ {r} /\ ready' = Append(ready, r)
               \/ /\ Hands' = Hands /\ ready' = ready
  <1>1. /\ UNCHANGED <<subscribed, connects>> /\ hand[w].some
        /\ hand' = [hand EXCEPT ![w] = EmptyHand]
        /\ ready' = IF subscribed /\ hand[w].to = connects THEN Append(ready, hand[w].seq) ELSE ready
    BY DEF Push
  <1>2. /\ ~hand'[w].some /\ \A v \in Writer \ {w} : hand'[v] = hand[v]
    BY <1>1 DEF TypeOK, EmptyHand
  <1>3. CASE subscribed /\ hand[w].to = connects
    <2>1. hand[w].seq \in Hands
      BY <1>1, <1>3 DEF Hands
    <2>2. ASSUME NEW x \in Hands' PROVE x \in Hands /\ x # hand[w].seq
      <3>1. PICK v \in Writer :
               hand'[v].some /\ subscribed /\ hand'[v].to = connects /\ x = hand'[v].seq
        BY <1>1, <2>2 DEF Hands
      <3>2. v # w /\ hand'[v] = hand[v]
        BY <1>2, <3>1
      <3> QED
        BY <1>1, <3>1, <3>2 DEF PlaceInv, Hands
    <2>3. ASSUME NEW x \in Hands, x # hand[w].seq PROVE x \in Hands'
      BY <1>1, <1>2, <2>3 DEF Hands
    <2> QED
      BY <1>1, <1>3, <2>1, <2>2, <2>3
  <1>4. CASE ~(subscribed /\ hand[w].to = connects)
    <2>1. ASSUME NEW x \in Hands' PROVE x \in Hands
      BY <1>1, <1>2, <2>1 DEF Hands
    <2>2. ASSUME NEW x \in Hands PROVE x \in Hands'
      BY <1>1, <1>2, <1>4, <2>2 DEF Hands
    <2> QED
      BY <1>1, <1>4, <2>1, <2>2
  <1> QED
    BY <1>3, <1>4

\* No writer has a record for a connection that starts or that has ended.
LEMMA HandsOff == TypeOK /\ PlaceInv /\ (Connect \/ Disconnect) => Hands' = {}
  <1> SUFFICES ASSUME TypeOK, PlaceInv, Connect \/ Disconnect PROVE Hands' = {}
    OBVIOUS
  <1>1. CASE Connect
    <2>1. connects' = connects + 1 /\ hand' = hand /\ connects \in Nat
      BY <1>1 DEF Connect, TypeOK
    <2>2. \A v \in Writer : hand[v].to # connects + 1
      BY <2>1, Numbers DEF PlaceInv
    <2> QED
      BY <2>1, <2>2 DEF Hands
  <1>2. CASE Disconnect
    BY <1>2 DEF Disconnect, Hands
  <1> QED
    BY <1>1, <1>2

\* A writer pushes past those that hold an earlier record: then they are all "swapped".
LEMMA PushSwaps ==
    ASSUME TypeOK, PlaceInv, NEW w \in Writer, Push(w)
    PROVE  LET r == hand[w].seq
           IN  /\ swapped \subseteq swapped' /\ r \in Record
               /\ \A y \in Hands : y < r => {r, y} \subseteq swapped'
               /\ \A y \in Hands \ {r} : r < y \/ y \in swapped'
  <1> DEFINE r == hand[w].seq
  <1>1. swapped' = IF Overtaken(r) = {} THEN swapped ELSE swapped \cup {r} \cup Overtaken(r)
    BY DEF Push
  <1>2. Hands \subseteq Record /\ r \in Record /\ Record \subseteq Nat
    BY Numbers DEF Hands
  <1>3. \A y \in Hands : y < r => y \in Overtaken(r)
    BY DEF Hands, Overtaken
  <1> HIDE DEF r
  <1>4. swapped \subseteq swapped' /\ \A y \in Overtaken(r) : {r, y} \subseteq swapped'
    BY <1>1
  <1>5. \A y \in Hands : y < r => {r, y} \subseteq swapped'
    BY <1>3, <1>4
  <1>6. \A y \in Hands \ {r} : r < y \/ y < r
    BY <1>2
  <1> QED
    BY <1>2, <1>4, <1>5, <1>6 DEF r

----------------------------------------------------------------------------
(* The order of the lines.                                                 *)

\* What is larger comes later in every line, as records move along.
LEMMA OrderStep == TypeOK /\ PlaceInv /\ SeenInv /\ OrderInv /\ [Next]_vars => OrderInv'
  <1> SUFFICES ASSUME TypeOK, PlaceInv, SeenInv, OrderInv, [Next]_vars PROVE OrderInv'
    OBVIOUS
  <1> USE Numbers
  <1>t. q \in Seq(Record) /\ ready \in Seq(Record)
    BY DEF TypeOK
  <1>o. /\ Ascends(q, swapped) /\ Ascends(ready, swapped)
        /\ AllAhead(ToSet(q), ToSet(ready) \ swapped)
        /\ AllAhead(ToSet(q) \cup ToSet(ready), Hands \ swapped)
        /\ drop.n > 0 => AllAhead({drop.from, drop.to}, Flight \ swapped)
    BY DEF OrderInv
  <1>0. CASE UNCHANGED <<q, ready, drop, hand, subscribed, connects, swapped>>
    <2>1. Hands' = Hands /\ Flight' = Flight
      BY <1>0 DEF Hands, Flight
    <2> QED
      BY <1>0, <2>1 DEF OrderInv
  <1>1. ASSUME NEW w \in Writer, AppendRecord(w) PROVE OrderInv'
    <2>1. UNCHANGED <<q, ready, drop, swapped>>
      BY <1>1 DEF AppendRecord, queues, history
    <2>2. Hands' \subseteq Hands \cup {next} /\ Flight' \subseteq Flight \cup {next}
      BY <1>1, <2>1, HandsAppend DEF Flight
    <2>3. AllAhead(ToSet(q) \cup ToSet(ready), {next})
      BY DEF AllAhead, PlaceInv
    <2>4. drop.n > 0 => AllAhead({drop.from, drop.to}, {next})
      BY DEF AllAhead, PlaceInv
    <2>5. AllAhead(ToSet(q) \cup ToSet(ready), Hands' \ swapped)
      BY <1>o, <2>2, <2>3 DEF AllAhead
    <2>6. drop.n > 0 => AllAhead({drop.from, drop.to}, Flight' \ swapped)
      BY <1>o, <2>2, <2>4 DEF AllAhead
    <2> QED
      BY <1>o, <2>1, <2>5, <2>6 DEF OrderInv
  <1>2. ASSUME NEW w \in Writer, Push(w) PROVE OrderInv'
    <2> DEFINE r == hand[w].seq
    <2>1. UNCHANGED <<q, drop>>
      BY <1>2 DEF Push
    <2>2. /\ swapped \subseteq swapped' /\ r \in Record
          /\ \A y \in Hands \ {r} : r < y \/ y \in swapped'
      BY <1>2, PushSwaps
    <2> HIDE DEF r
    <2>3. Ascends(q, swapped') /\ Ascends(ready, swapped')
      BY <1>o, <1>t, <2>2, AscendsEnds
    <2>4. CASE r \in Hands /\ Hands' = Hands \ {r} /\ ready' = Append(ready, r)
      <3>1. ToSet(ready') = ToSet(ready) \cup {r}
        BY <1>t, <2>2, <2>4, Ends
      <3>2. Flight' = Flight
        BY <2>1, <2>4, <3>1 DEF Flight
      <3>3. AllAhead(ToSet(ready), {r} \ swapped')
        BY <1>o, <2>2, <2>4 DEF AllAhead
      <3>4. Ascends(ready', swapped')
        BY <1>t, <2>2, <2>3, <2>4, <3>3, AscendsEnds
      <3>5. AllAhead(ToSet(q), ToSet(ready') \ swapped')
        BY <1>o, <2>2, <2>4, <3>1 DEF AllAhead
      <3>6. AllAhead(ToSet(q) \cup ToSet(ready'), Hands' \ swapped')
        BY <1>o, <2>2, <2>4, <3>1 DEF AllAhead
      <3>7. drop.n > 0 => AllAhead({drop.from, drop.to}, Flight' \ swapped')
        BY <1>o, <2>2, <3>2 DEF AllAhead
      <3> QED
        BY <2>1, <2>3, <3>4, <3>5, <3>6, <3>7 DEF OrderInv
    <2>5. CASE Hands' = Hands /\ ready' = ready
      <3>1. Flight' = Flight
        BY <2>1, <2>5 DEF Flight
      <3>2. /\ AllAhead(ToSet(q), ToSet(ready) \ swapped')
            /\ AllAhead(ToSet(q) \cup ToSet(ready), Hands \ swapped')
            /\ drop.n > 0 => AllAhead({drop.from, drop.to}, Flight \ swapped')
        BY <1>o, <2>2 DEF AllAhead
      <3> QED
        BY <2>1, <2>3, <2>5, <3>1, <3>2 DEF OrderInv
    <2> QED
      BY <1>2, <2>4, <2>5, HandsPush DEF r
  <1>3. CASE Connect \/ Disconnect
    <2>1. q' = <<>> /\ ready' = <<>> /\ drop'.n = 0
      BY <1>3 DEF Connect, Disconnect, PlaceInv, queues, NoDrop
    <2>2. ToSet(q') = {} /\ ToSet(ready') = {} /\ Ascends(q', swapped') /\ Ascends(ready', swapped')
      BY <2>1 DEF ToSet, Ascends
    <2>3. Hands' = {}
      BY <1>3, HandsOff
    <2> QED
      BY <2>1, <2>2, <2>3 DEF OrderInv, AllAhead
  <1>4. CASE Put
    <2> DEFINE r == Head(ready)
    <2>1. /\ ready # <<>> /\ ready' = Tail(ready) /\ r \in Record
          /\ UNCHANGED <<swapped, hand, subscribed, connects>>
      BY <1>4, Puts DEF Put, history
    <2>2. /\ ToSet(ready) = {r} \cup ToSet(ready') /\ Ascends(ready', swapped)
          /\ AllAhead({r}, ToSet(ready') \ swapped)
      BY <1>t, <1>o, <2>1, Ends, AscendsEnds
    <2>3. Hands' = Hands
      BY <2>1 DEF Hands
    <2> HIDE DEF r
    <2>4. CASE UNCHANGED <<q, drop>>
      <3>1. Flight' \subseteq Flight
        BY <2>2, <2>3, <2>4 DEF Flight
      <3> QED
        BY <1>o, <2>1, <2>2, <2>3, <2>4, <3>1 DEF OrderInv, AllAhead
    <2>5. ASSUME NEW line \in Seq(Record), Ascends(line, swapped), ToSet(line) \subseteq ToSet(q),
                 q' = Append(line, r)
          PROVE  /\ ToSet(q') = ToSet(line) \cup {r} /\ Ascends(q', swapped)
                 /\ AllAhead(ToSet(q'), ToSet(ready') \ swapped)
                 /\ AllAhead(ToSet(q') \cup ToSet(ready'), Hands' \ swapped)
      <3>1. ToSet(q') = ToSet(line) \cup {r}
        BY <2>1, <2>5, Ends
      <3>2. AllAhead(ToSet(line), {r} \ swapped)
        BY <1>o, <2>2, <2>5 DEF AllAhead
      <3>3. Ascends(q', swapped)
        BY <2>1, <2>5, <3>2, AscendsEnds
      <3> QED
        BY <1>o, <2>2, <2>3, <2>5, <3>1, <3>3 DEF AllAhead
    <2>6. CASE q' = Append(q, r) /\ drop' = drop
      <3>1. Flight' = Flight
        BY <1>t, <1>o, <2>2, <2>3, <2>5, <2>6 DEF Flight
      <3> QED
        BY <1>t, <1>o, <2>1, <2>2, <2>5, <2>6, <3>1 DEF OrderInv
    <2>7. CASE q # <<>> /\ q' = Append(Tail(q), r) /\ drop' = Dropped(Head(q))
      <3>1. /\ Tail(q) \in Seq(Record) /\ Ascends(Tail(q), swapped)
            /\ ToSet(q) = {Head(q)} \cup ToSet(Tail(q))
            /\ AllAhead({Head(q)}, ToSet(Tail(q)) \ swapped)
        BY <1>t, <1>o, <2>7, Ends, AscendsEnds
      <3>2. ToSet(q') = ToSet(Tail(q)) \cup {r}
        BY <2>5, <2>7, <3>1
      <3>3. Flight' = ToSet(Tail(q)) \cup ToSet(ready) \cup Hands
        BY <2>2, <2>3, <3>2 DEF Flight
      <3>4. AllAhead({Head(q)}, Flight' \ swapped)
        BY <1>o, <3>1, <3>3 DEF AllAhead
      <3>5. drop.n > 0 => AllAhead({drop.from}, Flight' \ swapped)
        BY <1>o, <3>1, <3>3 DEF AllAhead, Flight
      <3>6. AllAhead({drop'.from, drop'.to}, Flight' \ swapped)
        BY <2>7, <3>4, <3>5 DEF Dropped, AllAhead
      <3> QED
        BY <2>1, <2>2, <2>5, <2>7, <3>1, <3>6 DEF OrderInv
    <2> QED
      BY <1>4, <2>4, <2>6, <2>7, Puts DEF r
  <1>5. CASE Deliver \/ Skip
    <2>1. /\ q # <<>> /\ q' = Tail(q) /\ (drop' = drop \/ drop'.n = 0)
          /\ UNCHANGED <<ready, swapped, hand, subscribed, connects>>
      BY <1>5 DEF Deliver, Skip, NoDrop, history
    <2>2. ToSet(q') \subseteq ToSet(q) /\ Ascends(q', swapped)
      <3>1. ToSet(q) = {Head(q)} \cup ToSet(Tail(q))
        BY <1>t, <2>1, Ends
      <3>2. Ascends(Tail(q), swapped)
        BY <1>t, <1>o, <2>1, AscendsEnds
      <3> QED
        BY <2>1, <3>1, <3>2
    <2>3. Hands' = Hands
      BY <2>1 DEF Hands
    <2>4. Flight' \subseteq Flight
      BY <2>1, <2>2, <2>3 DEF Flight
    <2> QED
      BY <1>o, <2>1, <2>2, <2>3, <2>4 DEF OrderInv, AllAhead
  <1>6. CASE Snapshot \/ Replay \/ GoesLive \/ UNCHANGED vars
    BY <1>0, <1>6 DEF Snapshot, Replay, GoesLive, vars, queues, history
  <1> QED
    BY <1>1, <1>2, <1>3, <1>4, <1>5, <1>6 DEF Next, Handler

\* A record that is larger than one of a line and still to come is behind it.
LEMMA BehindStep == TypeOK /\ PlaceInv /\ BehindInv /\ [Next]_vars => BehindInv'
  <1> SUFFICES ASSUME TypeOK, PlaceInv, BehindInv, [Next]_vars PROVE BehindInv'
    OBVIOUS
  <1> USE Numbers
  <1>t. q \in Seq(Record) /\ ready \in Seq(Record) /\ ToSet(q) \cup ToSet(ready) \subseteq Record
    BY DEF TypeOK
  <1>o. /\ \A h \in Hands, s \in Coming : h < s => s \in Hands
        /\ Trails(ready, Hands, Coming)
        /\ Trails(q, ToSet(ready) \cup Hands, Coming)
    BY DEF BehindInv
  <1>0. CASE Coming' \subseteq Coming /\ UNCHANGED <<q, ready, hand, subscribed, connects>>
    <2>1. Hands' = Hands
      BY <1>0 DEF Hands
    <2>2. Trails(ready, Hands, Coming') /\ Trails(q, ToSet(ready) \cup Hands, Coming')
      BY <1>0, <1>o, <1>t, TrailsEnds
    <2> QED
      BY <1>0, <1>o, <2>1, <2>2 DEF BehindInv
  <1>1. ASSUME NEW w \in Writer, AppendRecord(w) PROVE BehindInv'
    <2>1. UNCHANGED <<q, ready, boundary, swapped, subscribed>> /\ next' = next + 1
      BY <1>1 DEF AppendRecord, stream, queues, history
    <2>2. Coming' \subseteq Coming \cup {next}
      BY <2>1 DEF Coming
    <2>3. CASE subscribed
      <3>1. Hands' = Hands \cup {next}
        BY <1>1, <2>3, HandsAppend
      <3>2. \A h \in Hands', s \in Coming' : h < s => s \in Hands'
        BY <1>o, <2>1, <2>2, <3>1 DEF Coming
      <3>3. Trails(ready, Hands', Coming')
        BY <1>o, <2>2, <3>1 DEF Trails
      <3>4. Trails(q, ToSet(ready) \cup Hands', Coming')
        BY <1>o, <2>2, <3>1 DEF Trails
      <3> QED
        BY <2>1, <3>2, <3>3, <3>4 DEF BehindInv
    <2>4. CASE ~subscribed
      <3>1. Hands' = {} /\ q = <<>> /\ ready = <<>>
        BY <1>1, <2>4, HandsAppend DEF PlaceInv
      <3> QED
        BY <2>1, <3>1 DEF BehindInv, Trails
    <2> QED
      BY <2>3, <2>4
  <1>2. ASSUME NEW w \in Writer, Push(w) PROVE BehindInv'
    <2> DEFINE r == hand[w].seq
    <2>1. UNCHANGED <<q, boundary, next>>
      BY <1>2 DEF Push, stream
    <2>2. /\ swapped \subseteq swapped' /\ r \in Record
          /\ \A y \in Hands : y < r => {r, y} \subseteq swapped'
      BY <1>2, PushSwaps
    <2> HIDE DEF r
    <2>3. Coming' \subseteq Coming /\ \A s \in Coming' : s \notin swapped'
      BY <2>1, <2>2 DEF Coming
    <2>4. CASE r \in Hands /\ Hands' = Hands \ {r} /\ ready' = Append(ready, r)
      <3>1. ToSet(ready') = ToSet(ready) \cup {r}
        BY <1>t, <2>2, <2>4, Ends
      <3>2. \A h \in Hands', s \in Coming' : h < s => s \in Hands'
        BY <1>o, <2>2, <2>3, <2>4
      <3>3. \A s \in Coming' : r < s => s \in Hands'
        <4>1. ASSUME NEW s \in Coming', r < s PROVE s \in Hands /\ s # r
          BY <1>o, <2>2, <2>3, <2>4, <4>1
        <4> QED
          BY <2>4, <4>1
      <3>4. Trails(ready, Hands, Coming')
        BY <1>o, <1>t, <2>3, TrailsEnds
      <3>5. Hands \subseteq Hands' \cup {r}
        BY <2>4
      <3>6. Trails(ready', Hands', Coming')
        BY <1>t, <2>2, <2>4, <3>3, <3>4, <3>5, TrailsEnds
      <3>7. Trails(q, ToSet(ready') \cup Hands', Coming')
        BY <1>o, <1>t, <2>3, <2>4, <3>1 DEF Trails
      <3> QED
        BY <2>1, <3>2, <3>6, <3>7 DEF BehindInv
    <2>5. CASE Hands' = Hands /\ ready' = ready
      <3>1. Trails(ready, Hands, Coming') /\ Trails(q, ToSet(ready) \cup Hands, Coming')
        BY <1>o, <1>t, <2>3, TrailsEnds
      <3> QED
        BY <1>o, <2>1, <2>3, <2>5, <3>1 DEF BehindInv
    <2> QED
      BY <1>2, <2>4, <2>5, HandsPush DEF r
  <1>3. CASE Connect \/ Disconnect
    <2>1. q' = <<>> /\ ready' = <<>>
      BY <1>3 DEF Connect, Disconnect, PlaceInv, queues
    <2>2. Hands' = {}
      BY <1>3, HandsOff
    <2> QED
      BY <2>1, <2>2 DEF BehindInv, Trails
  <1>4. CASE Put
    <2> DEFINE r == Head(ready)
    <2>1. /\ ready # <<>> /\ ready' = Tail(ready) /\ r \in Record
          /\ UNCHANGED <<swapped, hand, subscribed, connects, next, boundary>>
      BY <1>4, Puts DEF Put, history, stream
    <2>2. /\ Tail(ready) \in Seq(Record) /\ ToSet(ready) = {r} \cup ToSet(ready')
          /\ Trails(ready', Hands, Coming)
          /\ \A s \in Coming : r < s => s \in ToSet(ready') \cup Hands
      BY <1>t, <1>o, <2>1, Ends, TrailsEnds
    <2>3. Hands' = Hands /\ Coming' = Coming
      BY <2>1 DEF Hands, Coming
    <2> HIDE DEF r
    <2>4. CASE r < boundary /\ UNCHANGED q
      <3>1. (ToSet(ready) \cup Hands) \cap Coming \subseteq ToSet(ready') \cup Hands
        BY <2>2, <2>4 DEF Coming
      <3>2. Trails(q, ToSet(ready') \cup Hands, Coming)
        BY <1>o, <1>t, <3>1, TrailsEnds
      <3> QED
        BY <1>o, <2>2, <2>3, <2>4, <3>2 DEF BehindInv
    <2>5. ASSUME NEW line \in Seq(Record), Trails(line, ToSet(ready) \cup Hands, Coming),
                 q' = Append(line, r)
          PROVE  BehindInv'
      <3> DEFINE behind == ToSet(ready') \cup Hands
      <3>1. ToSet(ready) \cup Hands \subseteq behind \cup {r} /\ \A s \in Coming : r < s => s \in behind
        BY <2>2
      <3> HIDE DEF behind
      <3>2. Trails(Append(line, r), behind, Coming)
        BY <2>1, <2>5, <3>1, TrailsEnds
      <3> QED
        BY <1>o, <2>2, <2>3, <2>5, <3>2 DEF BehindInv, behind
    <2>6. q # <<>> => Tail(q) \in Seq(Record) /\ Trails(Tail(q), ToSet(ready) \cup Hands, Coming)
      BY <1>t, <1>o, Ends, TrailsEnds
    <2> QED
      BY <1>4, <1>t, <1>o, <2>4, <2>5, <2>6, Puts DEF r
  <1>5. CASE Deliver \/ Skip
    <2>1. /\ q # <<>> /\ q' = Tail(q)
          /\ UNCHANGED <<ready, swapped, hand, subscribed, connects, next, boundary>>
      BY <1>5 DEF Deliver, Skip, stream, history
    <2>2. Trails(q', ToSet(ready) \cup Hands, Coming)
      BY <1>t, <1>o, <2>1, TrailsEnds
    <2>3. Hands' = Hands /\ Coming' = Coming
      BY <2>1 DEF Hands, Coming
    <2> QED
      BY <1>o, <2>1, <2>2, <2>3 DEF BehindInv
  <1>6. CASE Snapshot
    <2>1. UNCHANGED <<q, ready, hand, subscribed, connects, next, swapped>> /\ boundary' = next
      BY <1>6 DEF Snapshot, queues, history
    <2>2. Coming' \subseteq Coming
      BY <2>1 DEF Coming
    <2> QED
      BY <1>0, <2>1, <2>2
  <1>7. CASE Replay \/ GoesLive \/ UNCHANGED vars
    <2>1. UNCHANGED <<q, ready, hand, subscribed, connects, next, swapped, boundary>>
      BY <1>7 DEF Replay, GoesLive, vars, stream, queues, history
    <2> QED
      BY <1>0, <2>1 DEF Coming
  <1> QED
    BY <1>1, <1>2, <1>3, <1>4, <1>5, <1>6, <1>7 DEF Next, Handler

----------------------------------------------------------------------------
(* What becomes of a record.                                               *)

\* A record that comes never falls out between the queue, the next gap and the client.
LEMMA CoverStep ==
    TypeOK /\ PlaceInv /\ SeenInv /\ OrderInv /\ BehindInv /\ CoverInv /\ [Next]_vars => CoverInv'
  <1> SUFFICES ASSUME TypeOK, PlaceInv, SeenInv, OrderInv, BehindInv, CoverInv, [Next]_vars
               PROVE  CoverInv'
    OBVIOUS
  <1> USE Numbers
  <1>t. /\ q \in Seq(Record) /\ ready \in Seq(Record) /\ ToSet(q) \cup ToSet(ready) \subseteq Record
        /\ Coming \subseteq Record
    BY DEF TypeOK, Coming
  <1>o. /\ pc \in {"replay", "follow"} =>
               \A s \in Coming : since <= s => s \in seen \cup told \cup Flight \cup Gap
        /\ pc = "follow" =>
               \A s \in Record : since <= s /\ s < after => s \in seen \cup told \cup swapped
    BY DEF CoverInv
  <1>1. ASSUME NEW w \in Writer, AppendRecord(w) PROVE CoverInv'
    <2>1. UNCHANGED <<q, ready, drop, boundary, pc, since, after, seen, told, swapped, subscribed>>
          /\ next' = next + 1
      BY <1>1 DEF AppendRecord, stream, queues, history
    <2>2. Coming' \subseteq Coming \cup {next} /\ Gap' = Gap
      BY <2>1 DEF Coming, Gap
    <2>3. pc # "off" => Flight' = Flight \cup {next}
      BY <1>1, <2>1, HandsAppend DEF PlaceInv, Flight
    <2> QED
      BY <1>o, <2>1, <2>2, <2>3 DEF CoverInv
  <1>2. ASSUME NEW w \in Writer, Push(w) PROVE CoverInv'
    <2> DEFINE r == hand[w].seq
    <2>1. UNCHANGED <<q, drop, boundary, next, pc, since, after, seen, told>>
      BY <1>2 DEF Push, stream
    <2>2. swapped \subseteq swapped' /\ r \in Record
      BY <1>2, PushSwaps
    <2> HIDE DEF r
    <2>3. Coming' \subseteq Coming /\ Gap' = Gap
      BY <2>1, <2>2 DEF Coming, Gap
    <2>4. Flight' = Flight
      <3>1. CASE r \in Hands /\ Hands' = Hands \ {r} /\ ready' = Append(ready, r)
        <4>1. ToSet(ready') = ToSet(ready) \cup {r}
          BY <1>t, <2>2, <3>1, Ends
        <4> QED
          BY <2>1, <3>1, <4>1 DEF Flight
      <3>2. CASE Hands' = Hands /\ ready' = ready
        BY <2>1, <3>2 DEF Flight
      <3> QED
        BY <1>2, <3>1, <3>2, HandsPush DEF r
    <2> QED
      BY <1>o, <2>1, <2>2, <2>3, <2>4 DEF CoverInv
  <1>3. CASE Connect \/ Disconnect
    BY <1>3 DEF Connect, Disconnect, CoverInv
  <1>4. CASE Snapshot
    <2>1. pc' = "replay" /\ boundary' = next /\ next' = next
      BY <1>4 DEF Snapshot
    <2>2. Coming' = {}
      BY <2>1 DEF Coming
    <2> QED
      BY <2>1, <2>2 DEF CoverInv
  <1>5. CASE Replay
    <2>1. /\ seen \subseteq seen' /\ told \subseteq told' /\ pc = "replay" /\ pc' = "replay"
          /\ UNCHANGED <<next, subscribed, hand, since, boundary, queues, connects, swapped>>
      BY <1>5 DEF Replay, Announced
    <2>2. Flight' = Flight /\ Gap' = Gap /\ Coming' = Coming
      BY <2>1 DEF Flight, Hands, Gap, Coming, queues
    <2> QED
      BY <1>o, <2>1, <2>2 DEF CoverInv
  <1>6. CASE GoesLive
    <2>1. /\ told' = Announced(boundary) /\ pc = "replay" /\ pc' = "follow" /\ after' = boundary
          /\ UNCHANGED <<next, subscribed, hand, since, boundary, queues, connects, seen, swapped>>
      BY <1>6 DEF GoesLive
    <2>2. Flight' = Flight /\ Gap' = Gap /\ Coming' = Coming
      BY <2>1 DEF Flight, Hands, Gap, Coming, queues
    <2>3. told \subseteq told' /\ \A s \in Record : since <= s /\ s < boundary => s \in seen \cup told'
      BY <2>1 DEF Announced
    <2> QED
      BY <1>o, <2>1, <2>2, <2>3 DEF CoverInv
  <1>7. CASE Put
    <2> DEFINE r == Head(ready)
    <2>1. /\ ready # <<>> /\ ready' = Tail(ready) /\ r \in Record /\ pc \in {"replay", "follow"}
          /\ UNCHANGED <<swapped, hand, subscribed, connects, next, boundary, pc, since, after, seen,
                         told>>
      BY <1>7, Puts DEF Put, history, stream
    <2>2. ToSet(ready) = {r} \cup ToSet(ready')
      BY <1>t, <2>1, Ends
    <2>3. Hands' = Hands /\ Coming' = Coming
      BY <2>1 DEF Hands, Coming
    <2> HIDE DEF r
    <2>4. SUFFICES \A s \in Coming : since <= s /\ s \in Flight \cup Gap => s \in Flight' \cup Gap'
      BY <1>o, <2>1, <2>3 DEF CoverInv
    <2>5. CASE r < boundary /\ UNCHANGED <<q, drop>>
      BY <2>2, <2>3, <2>5 DEF Flight, Gap, Coming
    <2>6. CASE q' = Append(q, r) /\ drop' = drop
      <3>1. ToSet(q') = ToSet(q) \cup {r}
        BY <1>t, <2>1, <2>6, Ends
      <3> QED
        BY <2>2, <2>3, <2>6, <3>1 DEF Flight, Gap
    <2>7. CASE q # <<>> /\ q' = Append(Tail(q), r) /\ drop' = Dropped(Head(q))
      <3>1. /\ Tail(q) \in Seq(Record) /\ ToSet(q) = {Head(q)} \cup ToSet(Tail(q)) /\ Head(q) \in Record
            /\ \A s \in Coming : Head(q) < s => s \in (ToSet(ready) \cup Hands) \cup ToSet(Tail(q))
        BY <1>t, <2>7, Ends, TrailsEnds DEF BehindInv
      <3>2. ToSet(q') = ToSet(Tail(q)) \cup {r}
        BY <2>1, <2>7, <3>1, Ends
      <3>3. Flight' = ToSet(Tail(q)) \cup ToSet(ready) \cup Hands
        BY <2>2, <2>3, <3>2 DEF Flight
      <3>4. Gap' = (IF drop.n = 0 THEN Head(q) ELSE drop.from)..Head(q)
        BY <2>7 DEF Gap, Dropped
      <3>5. Head(q) \in Coming => Head(q) \in Gap'
        <4>1. drop.n > 0 /\ Head(q) \in Coming => drop.from < Head(q)
          BY <3>1 DEF OrderInv, AllAhead, Flight, Coming
        <4> QED
          BY <3>1, <3>4, <4>1
      <3>6. \A s \in Coming : s \in Gap /\ s <= Head(q) => s \in Gap'
        <4>1. ASSUME NEW s \in Gap, s \in Coming, s <= Head(q)
              PROVE  drop.n # 0 /\ drop.from <= s /\ s \in Nat
          BY <4>1, <1>t DEF Gap
        <4>2. drop.n # 0 => Gap' = drop.from..Head(q)
          BY <3>4
        <4> QED
          BY <3>1, <4>1, <4>2
      <3>7. \A s \in Coming : Head(q) < s => s \in Flight'
        BY <3>1, <3>3
      <3>8. \A s \in Coming : s <= Head(q) \/ Head(q) < s
        BY <1>t, <3>1
      <3> QED
        BY <3>1, <3>3, <3>5, <3>6, <3>7, <3>8 DEF Flight
    <2> QED
      BY <1>7, <2>5, <2>6, <2>7, Puts DEF r
  <1>8. CASE Deliver
    <2>1. /\ q # <<>> /\ q' = Tail(q) /\ pc = "follow" /\ Head(q) >= after
          /\ told' = (IF drop.n = 0 THEN told ELSE told \cup drop.from..drop.to)
          /\ drop' = NoDrop /\ seen' = seen \cup {Head(q)} /\ after' = Head(q) + 1
          /\ UNCHANGED <<next, subscribed, hand, pc, since, boundary, ready, connects, swapped>>
      BY <1>8 DEF Deliver
    <2>2. /\ ToSet(q) = {Head(q)} \cup ToSet(q') /\ Head(q) \in Record /\ Head(q) < next
          /\ AllAhead({Head(q)}, ToSet(q') \ swapped)
      <3>1. ToSet(q) = {Head(q)} \cup ToSet(q') /\ Head(q) \in Record
        BY <1>t, <2>1, Ends
      <3>2. Head(q) < next
        BY <3>1 DEF PlaceInv
      <3>3. Ascends(q, swapped)
        BY DEF OrderInv
      <3>4. AllAhead({Head(q)}, ToSet(Tail(q)) \ swapped)
        BY <1>t, <2>1, <3>3, AscendsEnds
      <3> QED
        BY <2>1, <3>1, <3>2, <3>4
    <2>3. Hands' = Hands /\ Coming' = Coming /\ told' = told \cup Gap
      BY <2>1 DEF Hands, Coming, Gap
    <2>4. Flight = Flight' \cup {Head(q)}
      BY <2>1, <2>2, <2>3 DEF Flight
    <2>5. AllAhead({Head(q)}, Flight' \ swapped)
      BY <2>1, <2>2, <2>3 DEF OrderInv, AllAhead, Flight
    <2>6. ASSUME NEW s \in Record, since <= s, s < Head(q) + 1
          PROVE  s \in seen' \cup told' \cup swapped
      <3>1. CASE s < after
        BY <1>o, <2>1, <2>3, <2>6, <3>1
      <3>2. CASE s >= after /\ s # Head(q) /\ s \notin swapped
        <4>1. boundary <= s /\ s < Head(q) /\ s < next
          BY <2>1, <2>2, <2>6, <3>2 DEF SeenInv
        <4>2. s \in Coming
          BY <3>2, <4>1 DEF Coming
        <4>3. s \in seen \cup told \cup Flight \cup Gap
          BY <1>o, <2>1, <2>6, <4>2
        <4>4. s \notin Flight'
          BY <2>2, <2>5, <3>2, <4>1 DEF AllAhead
        <4> QED
          BY <2>1, <2>3, <2>4, <4>3, <4>4
      <3> QED
        BY <2>1, <2>2, <3>1, <3>2
    <2> QED
      BY <1>o, <2>1, <2>3, <2>4, <2>6 DEF CoverInv
  <1>9. CASE Skip
    <2>1. /\ q # <<>> /\ q' = Tail(q) /\ pc = "follow" /\ Head(q) < after
          /\ UNCHANGED <<next, subscribed, hand, stream, ready, drop, connects, history>>
      BY <1>9 DEF Skip
    <2>2. ToSet(q) = {Head(q)} \cup ToSet(q') /\ Head(q) \in Record
      BY <1>t, <2>1, Ends
    <2>3. Hands' = Hands /\ Coming' = Coming /\ Gap' = Gap
      BY <2>1 DEF Hands, Coming, Gap, stream, history
    <2>4. Flight \subseteq Flight' \cup {Head(q)}
      BY <2>1, <2>2, <2>3 DEF Flight
    <2>5. since <= Head(q) => Head(q) \in seen \cup told \cup swapped
      BY <1>o, <2>1, <2>2
    <2> QED
      BY <1>o, <2>1, <2>3, <2>4, <2>5 DEF CoverInv, Coming, stream, history
  <1>10. CASE UNCHANGED vars
    <2>1. Flight' = Flight /\ Coming' = Coming /\ Gap' = Gap
      BY <1>10 DEF vars, Flight, Hands, Coming, Gap, stream, queues, history
    <2> QED
      BY <1>10, <1>o, <2>1 DEF CoverInv, vars, stream, queues, history
  <1> QED
    BY <1>1, <1>2, <1>3, <1>4, <1>5, <1>6, <1>7, <1>8, <1>9, <1>10 DEF Next, Handler

\* What a gap frame covers is past the line, but for what was swapped.
LEMMA ToldStep ==
    TypeOK /\ PlaceInv /\ SeenInv /\ OrderInv /\ ToldInv /\ [Next]_vars => ToldInv'
  <1> SUFFICES ASSUME TypeOK, PlaceInv, SeenInv, OrderInv, ToldInv, [Next]_vars, pc' = "follow"
               PROVE  \A s \in told' \cap Flight' : s < after' \/ s \in swapped'
    BY DEF ToldInv
  <1> USE Numbers
  <1>t. q \in Seq(Record) /\ ready \in Seq(Record) /\ ToSet(q) \cup ToSet(ready) \subseteq Record
    BY DEF TypeOK
  <1>1. ASSUME NEW w \in Writer, AppendRecord(w)
        PROVE  \A s \in told' \cap Flight' : s < after' \/ s \in swapped'
    <2>1. UNCHANGED <<q, ready, pc, after, told, swapped>>
      BY <1>1 DEF AppendRecord, stream, queues, history
    <2>2. Flight' \subseteq Flight \cup {next}
      BY <1>1, <2>1, HandsAppend DEF Flight
    <2>3. next \notin told
      BY DEF PlaceInv
    <2> QED
      BY <2>1, <2>2, <2>3 DEF ToldInv
  <1>2. ASSUME NEW w \in Writer, Push(w)
        PROVE  \A s \in told' \cap Flight' : s < after' \/ s \in swapped'
    <2> DEFINE r == hand[w].seq
    <2>1. UNCHANGED <<q, pc, after, told>>
      BY <1>2 DEF Push, stream
    <2>2. swapped \subseteq swapped' /\ r \in Record
      BY <1>2, PushSwaps
    <2> HIDE DEF r
    <2>3. Flight' \subseteq Flight
      <3>1. CASE r \in Hands /\ Hands' = Hands \ {r} /\ ready' = Append(ready, r)
        <4>1. ToSet(ready') = ToSet(ready) \cup {r}
          BY <1>t, <2>2, <3>1, Ends
        <4> QED
          BY <2>1, <3>1, <4>1 DEF Flight
      <3>2. CASE Hands' = Hands /\ ready' = ready
        BY <2>1, <3>2 DEF Flight
      <3> QED
        BY <1>2, <3>1, <3>2, HandsPush DEF r
    <2> QED
      BY <2>1, <2>2, <2>3 DEF ToldInv
  <1>3. ASSUME Connect \/ Disconnect \/ Snapshot \/ Replay PROVE FALSE
    BY <1>3 DEF Connect, Disconnect, Snapshot, Replay
  <1>4. CASE GoesLive
    <2>1. \A s \in told' : s < boundary
      BY <1>4 DEF GoesLive, Announced, SeenInv
    <2> QED
      BY <1>4, <2>1 DEF GoesLive
  <1>5. CASE Put
    <2>1. /\ ready' = Tail(ready) /\ ready # <<>>
          /\ UNCHANGED <<hand, subscribed, connects, pc, after, told, swapped>>
      BY <1>5 DEF Put, stream, history
    <2>2. ToSet(ready') \cup ToSet(q') \subseteq ToSet(ready) \cup ToSet(q)
      <3>1. ToSet(ready) = {Head(ready)} \cup ToSet(ready') /\ Head(ready) \in Record
        BY <1>t, <2>1, Ends
      <3>2. CASE q' = Append(q, Head(ready))
        BY <1>t, <3>1, <3>2, Ends
      <3>3. CASE q # <<>> /\ q' = Append(Tail(q), Head(ready))
        <4>1. Tail(q) \in Seq(Record) /\ ToSet(Tail(q)) \subseteq ToSet(q)
          BY <1>t, <3>3, Ends
        <4>2. ToSet(q') = ToSet(Tail(q)) \cup {Head(ready)}
          BY <3>1, <3>3, <4>1, Ends
        <4> QED
          BY <3>1, <4>1, <4>2
      <3> QED
        BY <1>5, <3>1, <3>2, <3>3, Puts
    <2>3. Flight' \subseteq Flight
      BY <2>1, <2>2 DEF Flight, Hands
    <2> QED
      BY <2>1, <2>3 DEF ToldInv
  <1>6. CASE Deliver
    <2>1. /\ q # <<>> /\ q' = Tail(q) /\ pc = "follow" /\ Head(q) >= after /\ after' = Head(q) + 1
          /\ told' = (IF drop.n = 0 THEN told ELSE told \cup drop.from..drop.to)
          /\ UNCHANGED <<hand, subscribed, connects, ready, swapped>>
      BY <1>6 DEF Deliver
    <2>2. ToSet(q') \subseteq ToSet(q) /\ Head(q) \in Record
      BY <1>t, <2>1, Ends
    <2>3. Flight' \subseteq Flight /\ Flight \subseteq Nat
      BY <2>1, <2>2 DEF Flight, Hands
    <2>4. \A s \in told \cap Flight' : s < after' \/ s \in swapped'
      BY <2>1, <2>2, <2>3 DEF ToldInv
    <2>5. drop.n > 0 => \A s \in (drop.from..drop.to) \cap Flight' : s \in swapped
      BY <2>3 DEF OrderInv, AllAhead
    <2> QED
      BY <2>1, <2>4, <2>5
  <1>7. CASE Skip
    <2>1. /\ q # <<>> /\ q' = Tail(q)
          /\ UNCHANGED <<hand, subscribed, connects, ready, swapped, pc, after, told>>
      BY <1>7 DEF Skip, stream, history
    <2>2. ToSet(q') \subseteq ToSet(q)
      BY <1>t, <2>1, Ends
    <2>3. Flight' \subseteq Flight
      BY <2>1, <2>2 DEF Flight, Hands
    <2> QED
      BY <2>1, <2>3 DEF ToldInv
  <1>8. CASE UNCHANGED vars
    BY <1>8 DEF vars, ToldInv, Flight, Hands, stream, queues, history
  <1> QED
    BY <1>1, <1>2, <1>3, <1>4, <1>5, <1>6, <1>7, <1>8 DEF Next, Handler

\* No silent loss.
LEMMA LossStep ==
    TypeOK /\ PlaceInv /\ SeenInv /\ CoverInv /\ LossAnnounced /\ [Next]_vars
      /\ CoverInv' /\ SeenInv' /\ TypeOK'
        => LossAnnounced'
  <1> SUFFICES ASSUME TypeOK, PlaceInv, SeenInv, CoverInv, LossAnnounced, [Next]_vars,
                      CoverInv', SeenInv', TypeOK'
               PROVE  LossAnnounced'
    OBVIOUS
  <1> USE Numbers
  <1>1. CASE Deliver
    <2>1. pc' = "follow"
      BY <1>1 DEF Deliver
    <2>2. \A r \in seen' : r < after'
      BY <2>1 DEF SeenInv
    <2>3. \A s \in Record : since' <= s /\ s < after' => s \in seen' \cup told' \cup swapped'
      BY <2>1 DEF CoverInv
    <2>4. seen' \subseteq Record /\ after' \in Nat /\ Record \subseteq Nat /\ Cursor \subseteq Nat
      BY SizesAssumption DEF TypeOK, Cursor, Record
    <2> QED
      BY <2>2, <2>3, <2>4 DEF LossAnnounced
  <1>2. CASE Replay
    <2>1. PICK r \in Record :
              /\ pc = "replay" /\ r \in backlog /\ \A o \in backlog : r <= o
              /\ told' = Announced(r) /\ seen' = seen \cup {r} /\ backlog' = backlog \ {r}
      BY <1>2, Replays
    <2>2. UNCHANGED <<since, swapped>>
      BY <1>2 DEF Replay
    <2> QED
      BY <2>1, <2>2 DEF LossAnnounced, Announced
  <1>3. CASE GoesLive
    BY <1>3 DEF GoesLive, LossAnnounced, Announced
  <1>4. CASE Connect
    <2>1. seen' = seen /\ \A r \in seen : r < since'
      BY <1>4, Resumes DEF Connect
    <2>2. since' \in Nat
      BY <1>4, Resumes
    <2> QED
      BY <2>1, <2>2 DEF LossAnnounced
  <1>5. ASSUME NEW w \in Writer, Push(w) PROVE LossAnnounced'
    <2>1. UNCHANGED <<since, seen, told>> /\ swapped \subseteq swapped'
      BY <1>5, PushSwaps DEF Push, stream
    <2> QED
      BY <2>1 DEF LossAnnounced
  <1>6. CASE UNCHANGED <<since, history>>
    BY <1>6 DEF LossAnnounced, history
  <1>7. CASE Snapshot \/ Put \/ Skip \/ Disconnect \/ UNCHANGED vars
    BY <1>6, <1>7 DEF Snapshot, Put, Skip, Disconnect, vars, stream
  <1>8. ASSUME NEW w \in Writer, AppendRecord(w) PROVE LossAnnounced'
    BY <1>6, <1>8 DEF AppendRecord, stream
  <1> QED
    BY <1>1, <1>2, <1>3, <1>4, <1>5, <1>7, <1>8 DEF Next, Handler

----------------------------------------------------------------------------
(* The inductive invariant and the theorems.                               *)

IInv ==
    /\ TypeOK /\ PlaceInv /\ SeenInv /\ OrderInv /\ BehindInv
    /\ CoverInv /\ ToldInv /\ LossAnnounced

\* It holds before anybody has connected.
LEMMA InitInv == Init => IInv
  <1> SUFFICES ASSUME Init PROVE IInv
    OBVIOUS
  <1>1. TypeOK /\ PlaceInv /\ SeenInv
    BY InitType
  <1>2. q = <<>> /\ ready = <<>> /\ DOMAIN q = {} /\ DOMAIN ready = {}
    BY EmptySeq DEF Init
  <1>3. Hands = {}
    BY DEF Init, Hands, EmptyHand
  <1>4. Flight = {}
    BY <1>2, <1>3 DEF Flight, ToSet
  <1>5. OrderInv
    BY <1>2, <1>3, <1>4 DEF Init, NoDrop, OrderInv, Ascends, AllAhead, ToSet
  <1>6. BehindInv
    BY <1>2, <1>3 DEF BehindInv, Trails
  <1>7. CoverInv /\ ToldInv /\ LossAnnounced
    BY DEF Init, CoverInv, ToldInv, LossAnnounced
  <1> QED
    BY <1>1, <1>5, <1>6, <1>7 DEF IInv

\* Every step keeps it.
LEMMA Invariant == Spec => []IInv
  <1>1. IInv /\ [Next]_vars => IInv'
    <2> SUFFICES ASSUME IInv, [Next]_vars PROVE IInv'
      OBVIOUS
    <2>1. /\ TypeOK /\ PlaceInv /\ SeenInv /\ OrderInv /\ BehindInv
          /\ CoverInv /\ ToldInv /\ LossAnnounced
      BY DEF IInv
    <2>2. TypeOK' /\ PlaceInv' /\ SeenInv' /\ OrderInv' /\ BehindInv' /\ CoverInv' /\ ToldInv'
      BY <2>1, TypeStep, PlaceStep, SeenStep, OrderStep, BehindStep, CoverStep, ToldStep
    <2>3. LossAnnounced'
      BY <2>1, <2>2, LossStep
    <2> QED
      BY <2>2, <2>3 DEF IInv
  <1> QED
    BY InitInv, <1>1, PTL DEF Spec

\* The stream's state has the types it is declared with, and its queue never outgrows QueueMax.
THEOREM TypeCorrect == Spec => []TypeOK
  <1>1. IInv => TypeOK
    BY DEF IInv
  <1> QED
    BY Invariant, <1>1, PTL

\* Below a record the client got, it got every record from its cursor on, or a gap frame that
\* covers it, unless two writers pushed it in the wrong order.
THEOREM NothingLostSilently == Spec => []LossAnnounced
  <1>1. IInv => LossAnnounced
    BY DEF IInv
  <1> QED
    BY Invariant, <1>1, PTL

\* A frame says something new: no record comes twice or after a later one, on one connection or
\* across several, and none comes that a gap frame has written off.
THEOREM FramesAreNew == Spec => OnceInOrder
  <1>1. IInv /\ [Next]_vars =>
            [/\ \A r \in seen' \ seen, o \in seen : o < r
             /\ Replay => backlog \cap seen = {}
             /\ Deliver => Head(q) \notin seen \cup (told \ swapped)]_vars
    <2> SUFFICES ASSUME IInv, Next
                 PROVE  /\ \A r \in seen' \ seen, o \in seen : o < r
                        /\ Replay => backlog \cap seen = {}
                        /\ Deliver => Head(q) \notin seen \cup (told \ swapped)
      OBVIOUS
    <2>t. TypeOK /\ SeenInv /\ ToldInv
      BY DEF IInv
    <2> USE Numbers
    <2>1. ASSUME Replay
          PROVE  backlog \cap seen = {} /\ \A r \in seen' \ seen, o \in seen : o < r
      <3>1. pc = "replay" /\ backlog \subseteq Record
        BY <2>t, <2>1 DEF Replay, TypeOK
      <3>2. \A o \in seen, r \in backlog : o < r
        BY <2>t, <3>1 DEF SeenInv
      <3>3. PICK r \in backlog : seen' = seen \cup {r}
        BY <2>t, <2>1, Replays
      <3>4. backlog \cap seen = {}
        BY <2>t, <3>1, <3>2
      <3> QED
        BY <3>2, <3>3, <3>4
    <2>2. ASSUME Deliver
          PROVE  /\ Head(q) \notin seen \cup (told \ swapped)
                 /\ \A r \in seen' \ seen, o \in seen : o < r
      <3>1. pc = "follow" /\ Head(q) >= after /\ seen' = seen \cup {Head(q)} /\ q # <<>>
        BY <2>2 DEF Deliver
      <3>2. Head(q) \in Record /\ Head(q) \in ToSet(q)
        BY <2>t, <3>1, Ends DEF TypeOK
      <3>3. \A o \in seen : o < Head(q)
        BY <2>t, <3>1, <3>2 DEF SeenInv
      <3>4. Head(q) \in told => Head(q) \in swapped
        BY <2>t, <3>1, <3>2 DEF ToldInv, Flight
      <3> QED
        BY <2>t, <3>1, <3>2, <3>3, <3>4
    <2>3. CASE seen' = seen /\ ~Replay /\ ~Deliver
      BY <2>3
    <2>4. Replay \/ Deliver \/ seen' = seen
      BY DEF Next, Handler, AppendRecord, Push, Connect, Snapshot, GoesLive, Skip, Put, Disconnect,
             history
    <2>5. ~(Replay /\ Deliver)
      BY DEF Replay, Deliver
    <2> QED
      BY <2>1, <2>2, <2>3, <2>4, <2>5
  <1> QED
    BY Invariant, <1>1, PTL DEF Spec, OnceInOrder
=============================================================================
