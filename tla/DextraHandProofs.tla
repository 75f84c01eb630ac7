------------------------- MODULE DextraHandProofs -------------------------
(***************************************************************************)
(* Proofs about DextraHand, for any fingers, clients, bounds of a setpoint  *)
(* and pieces of a message.  That the memory of the board is what the hand  *)
(* does when all is quiet follows from what the hand will do when it has    *)
(* received what is on its way, and from which clients are about to store.  *)
(***************************************************************************)
EXTENDS DextraHand, SequenceTheorems, TLAPS

\* Values. What the calls make of a finger is in the bounds, or nothing is sent.
Setpoints == [Fingers -> -Top..Top]
Parts == [values : Setpoints, number : 1..Pieces]
Moves == [at : {"idle", "send", "store"}, values : Setpoints, only : SUBSET Fingers, sent : Nat, alone : BOOLEAN]

HandTyped ==
  /\ link \in Links /\ setpoints \in Setpoints /\ hand \in Setpoints
  /\ move \in [Movers -> Moves] /\ stream \in Seq(Parts) /\ received \in Seq(Parts)
  /\ Len(stream) <= MaxPieces /\ overlapped \in BOOLEAN /\ told \in BOOLEAN

\* Over a serial port a message follows another, each of them in one piece after another,
\* and what the hand has of one is what is missing on its way.
Follows(p, q) ==
  /\ q.number = (IF p.number = Pieces THEN 1 ELSE p.number + 1)
  /\ p.number # Pieces => q.values = p.values
Successive == \A i \in 1..(Len(stream) - 1) : Follows(stream[i], stream[i + 1])
EndsWhole == stream # <<>> => stream[Len(stream)].number = Pieces
Continues ==
  /\ stream # <<>> => stream[1].number = Len(received) + 1
  /\ stream # <<>> /\ received # <<>> => stream[1].values = received[1].values
  /\ stream = <<>> => received = <<>>
Gapless == Successive /\ EndsWhole /\ Continues

\* A client that is said to be alone is the only one to move, and so is any before an overlap.
Alone == \A c, d \in Movers : Moving(c) /\ Moving(d) /\ c # d => ~move[c].alone /\ overlapped

\* The setpoints the hand will have when it has received what is on its way.
Latest == IF stream = <<>> THEN hand ELSE stream[Len(stream)].values

\* They are those a client alone has just sent; they are also the memory, once all were told
\* at once and nobody interfered, but for a client that is yet to store them. Such a client
\* sends what the memory has of the fingers it does not move.
Told ==
  /\ \A c \in Movers : move[c].sent = 0
  /\ \A c \in Movers : move[c].at = "store" /\ (move[c].alone \/ (~overlapped /\ ~told)) => Latest = move[c].values
  /\ ~overlapped /\ ~told =>
       /\ (\A c \in Movers : move[c].at # "store") => Latest = setpoints
       /\ \A c \in Movers : Moving(c) => \A f \in Fingers \ move[c].only : move[c].values[f] = setpoints[f]

HandInv == HandFits /\ HandTyped /\ Alone /\ (link = "serial" => Gapless /\ Told)

-----------------------------------------------------------------------------
\* The hand and the clients at rest.
LEMMA InitHandInv == ASSUME HandFits PROVE HandInit => HandInv
<1> SUFFICES ASSUME HandInit PROVE HandInv
  OBVIOUS
<1>1. NoMove \in Moves /\ NoMove.at = "idle" /\ NoMove.sent = 0
  BY DEF NoMove, Moves, Setpoints, HandFits
<1>2. /\ link \in Links /\ \A c \in Movers : move[c] = NoMove
      /\ move \in [Movers -> Moves] /\ stream = <<>> /\ received = <<>>
      /\ overlapped = FALSE /\ told = TRUE
  BY <1>1 DEF HandInit
<1>3. HandTyped
  <2>1. setpoints \in Setpoints
    BY DEF HandInit, Setpoints, HandFits
  <2>2. hand \in Setpoints
    BY DEF HandInit, Setpoints, HandFits
  <2>3. Len(stream) <= MaxPieces /\ stream \in Seq(Parts) /\ received \in Seq(Parts)
    BY <1>2 DEF HandFits
  <2> QED BY <1>2, <2>1, <2>2, <2>3 DEF HandTyped
<1>4. Alone
  BY <1>1, <1>2 DEF Alone, Moving
<1>5. Gapless
  BY <1>2 DEF Gapless, Successive, EndsWhole, Continues
<1>6. Told
  BY <1>1, <1>2 DEF Told
<1> QED BY <1>3, <1>4, <1>5, <1>6 DEF HandInv

\* A message in pieces is one of them after another, and ends whole.
LEMMA WholeMessage ==
  ASSUME HandFits, NEW v \in Setpoints
  PROVE  /\ Whole(v) \in Seq(Parts) /\ Len(Whole(v)) = Pieces
         /\ \A i \in 1..Pieces : Whole(v)[i].values = v /\ Whole(v)[i].number = i
<1>1. \A i \in 1..Pieces : Piece(v, i) \in Parts /\ Piece(v, i).values = v /\ Piece(v, i).number = i
  BY DEF Piece, Parts
<1>2. Pieces \in Nat
  BY DEF HandFits
<1> QED BY <1>1, <1>2 DEF Whole

-----------------------------------------------------------------------------
\* A client begins to move: whoever was at it is no longer alone.
LEMMA BeginKeeps ==
  ASSUME HandInv, NEW c \in Movers, NEW values, NEW only \in SUBSET Fingers,
         values = [f \in Fingers |-> values[f]],
         \A f \in Fingers \ only : values[f] = setpoints[f],
         BeginMove(c, values, only)
  PROVE  HandInv'
<1> DEFINE others == \E d \in Movers : Moving(d)
           new == [at |-> "send", values |-> values, only |-> only, sent |-> 0, alone |-> ~others]
<1>1. /\ ~Moving(c) /\ \A f \in Fingers : values[f] \in -Top..Top
      /\ move' = [d \in Movers |-> IF d = c THEN new ELSE [move[d] EXCEPT !.alone = ~Moving(d)]]
      /\ overlapped' = (overlapped \/ others)
      /\ UNCHANGED <<link, setpoints, stream, received, hand, told>>
  BY DEF BeginMove
<1>2. HandFits /\ HandTyped /\ Alone
  BY DEF HandInv
<1>3. values \in Setpoints
  BY <1>1 DEF Setpoints
<1>4. /\ new \in Moves /\ new.at = "send" /\ new.sent = 0 /\ new.only = only /\ new.values = values
      /\ new.alone = ~others
  BY <1>3 DEF Moves
<1> HIDE DEF new
<1>5. move'[c] = new
  BY <1>1
<1>6. ASSUME NEW d \in Movers, d # c
      PROVE  /\ move'[d] \in Moves /\ move'[d].at = move[d].at /\ move'[d].values = move[d].values
             /\ move'[d].only = move[d].only /\ move'[d].sent = move[d].sent
             /\ move'[d].alone = ~Moving(d)
  <2> DEFINE m == move[d]
  <2>1. move'[d] = [m EXCEPT !.alone = ~Moving(d)]
    BY <1>1, <1>6
  <2>2. m \in Moves /\ Moving(d) \in BOOLEAN
    BY <1>2 DEF HandTyped, Moving
  <2> HIDE DEF m
  <2>3. /\ [m EXCEPT !.alone = ~Moving(d)] \in Moves
        /\ [m EXCEPT !.alone = ~Moving(d)].at = m.at /\ [m EXCEPT !.alone = ~Moving(d)].values = m.values
        /\ [m EXCEPT !.alone = ~Moving(d)].only = m.only /\ [m EXCEPT !.alone = ~Moving(d)].sent = m.sent
        /\ [m EXCEPT !.alone = ~Moving(d)].alone = ~Moving(d)
    BY <2>2 DEF Moves
  <2> QED BY <2>1, <2>3 DEF m
<1>7. \A d \in Movers : move'[d] \in Moves
  BY <1>4, <1>5, <1>6
<1>8. HandTyped'
  <2>1. move' \in [Movers -> Moves]
    BY <1>1, <1>7
  <2>2. overlapped' \in BOOLEAN
    BY <1>1, <1>2 DEF HandTyped
  <2> QED BY <1>1, <1>2, <2>1, <2>2 DEF HandTyped
<1>9. Moving(c)' /\ \A d \in Movers \ {c} : Moving(d)' = Moving(d)
  BY <1>4, <1>5, <1>6 DEF Moving
<1>10. Alone'
  <2> SUFFICES ASSUME NEW d \in Movers, NEW e \in Movers, Moving(d)', Moving(e)', d # e
               PROVE  ~move'[d].alone /\ overlapped'
    BY DEF Alone
  <2>1. others
    BY <1>9
  <2> QED BY <1>1, <1>4, <1>5, <1>6, <1>9, <2>1
<1>11. link = "serial" => Gapless' /\ Told'
  <2> SUFFICES ASSUME link = "serial" PROVE Gapless' /\ Told'
    OBVIOUS
  <2>1. Gapless /\ Told
    BY DEF HandInv
  <2>2. Gapless'
    BY <1>1, <2>1 DEF Gapless, Successive, EndsWhole, Continues
  <2>3. Latest' = Latest
    BY <1>1 DEF Latest
  <2>4. \A d \in Movers : move'[d].sent = 0
    BY <1>4, <1>5, <1>6, <2>1 DEF Told
  <2>5. ASSUME NEW d \in Movers, move'[d].at = "store", move'[d].alone \/ (~overlapped' /\ ~told')
        PROVE  Latest' = move'[d].values
    <3>1. d # c
      BY <1>4, <1>5, <2>5
    <3>2. move[d].at = "store" /\ Moving(d)
      BY <1>6, <2>5, <3>1 DEF Moving
    <3>3. overlapped' /\ ~move'[d].alone
      BY <1>1, <1>6, <3>1, <3>2
    <3> QED BY <2>5, <3>3
  <2>6. ASSUME ~overlapped', ~told'
        PROVE  /\ (\A d \in Movers : move'[d].at # "store") => Latest' = setpoints'
               /\ \A d \in Movers : Moving(d)' =>
                    \A f \in Fingers \ move'[d].only : move'[d].values[f] = setpoints'[f]
    <3>1. ~others /\ ~overlapped /\ ~told
      BY <1>1, <2>6
    <3>2. \A d \in Movers : move[d].at # "store"
      BY <3>1 DEF Moving
    <3>3. Latest = setpoints
      BY <2>1, <3>1, <3>2 DEF Told
    <3>4. \A d \in Movers : Moving(d)' => d = c
      BY <1>9, <3>1
    <3>5. \A f \in Fingers \ move'[c].only : move'[c].values[f] = setpoints'[f]
      BY <1>1, <1>4, <1>5
    <3> QED BY <1>1, <2>3, <3>3, <3>4, <3>5
  <2> QED BY <2>2, <2>4, <2>5, <2>6 DEF Told
<1> QED BY <1>1, <1>2, <1>8, <1>10, <1>11 DEF HandInv

-----------------------------------------------------------------------------
\* Only one client takes a step.
LEMMA OneMoves ==
  ASSUME HandInv, NEW c \in Movers, NEW m \in Moves, move' = [move EXCEPT ![c] = m]
  PROVE  /\ move' \in [Movers -> Moves] /\ move'[c] = m
         /\ \A d \in Movers \ {c} : move'[d] = move[d] /\ Moving(d)' = Moving(d)
         /\ Moving(c)' = (m.at # "idle")
<1>1. move \in [Movers -> Moves]
  BY DEF HandInv, HandTyped
<1>2. move'[c] = m /\ \A d \in Movers \ {c} : move'[d] = move[d]
  BY <1>1
<1> QED BY <1>1, <1>2 DEF Moving

\* A client that goes on, or ends, leaves those alone who were.
LEMMA StaysAlone ==
  ASSUME HandInv, NEW c \in Movers, NEW m \in Moves, move' = [move EXCEPT ![c] = m],
         Moving(c), m.alone = move[c].alone \/ m.at = "idle", overlapped' = overlapped
  PROVE  Alone'
<1>1. /\ move'[c] = m
      /\ \A d \in Movers \ {c} : move'[d] = move[d] /\ Moving(d)' = Moving(d)
      /\ Moving(c)' = (m.at # "idle")
  BY OneMoves
<1>2. Alone
  BY DEF HandInv
<1> QED BY <1>1, <1>2 DEF Alone

\* A frame over CAN, of which a client has sent so many.
LEMMA FrameKeeps ==
  ASSUME HandInv, NEW c \in Movers, SendFrame(c)
  PROVE  HandInv'
<1> DEFINE at == IF move[c].sent + 1 = Pieces THEN "store" ELSE "send"
           m == [at |-> at, values |-> move[c].values, only |-> move[c].only, sent |-> move[c].sent + 1,
                 alone |-> move[c].alone]
<1>1. /\ link = "can" /\ move[c].at = "send" /\ Len(stream) < MaxPieces
      /\ stream' = Append(stream, Piece(move[c].values, 1))
      /\ move' = [move EXCEPT ![c].sent = @ + 1, ![c].at = at]
      /\ UNCHANGED <<link, setpoints, received, hand, overlapped, told>>
  BY DEF SendFrame, handGhosts
<1>2. HandFits /\ HandTyped /\ move[c] \in Moves /\ move \in [Movers -> Moves]
  BY DEF HandInv, HandTyped
<1>3. at \in {"send", "store"}
  OBVIOUS
<1> HIDE DEF at
<1>4. /\ m \in Moves /\ m.at = at /\ m.alone = move[c].alone
  BY <1>2, <1>3 DEF Moves
<1>5. move' = [move EXCEPT ![c] = m]
  <2> DEFINE r == move[c]
  <2>1. r = [at |-> r.at, values |-> r.values, only |-> r.only, sent |-> r.sent, alone |-> r.alone]
    BY <1>2 DEF Moves
  <2>2. move' = [move EXCEPT ![c] = [r EXCEPT !.sent = r.sent + 1, !.at = at]]
    BY <1>1
  <2> HIDE DEF r
  <2> DEFINE n == r.sent + 1
             q == [r EXCEPT !.sent = n]
  <2>3. [r EXCEPT !.sent = n, !.at = at] = [q EXCEPT !.at = at]
    BY <2>1
  <2> HIDE DEF n
  <2>4. q = [at |-> r.at, values |-> r.values, only |-> r.only, sent |-> n, alone |-> r.alone]
    BY <2>1
  <2> HIDE DEF q
  <2>5. [q EXCEPT !.at = at] = [at |-> at, values |-> r.values, only |-> r.only, sent |-> n, alone |-> r.alone]
    BY <2>4
  <2> QED BY <2>2, <2>3, <2>5 DEF r, n
<1> HIDE DEF m
<1>6. Piece(move[c].values, 1) \in Parts
  BY <1>2 DEF Moves, Parts, Piece, HandFits
<1>7. stream \in Seq(Parts)
  BY <1>2 DEF HandTyped
<1>8. stream' \in Seq(Parts) /\ Len(stream') = Len(stream) + 1
  BY <1>1, <1>6, <1>7, AppendProperties
<1>9. Len(stream) \in Nat /\ MaxPieces \in Nat
  BY <1>2, <1>7 DEF HandFits
<1>10. HandTyped'
  BY <1>1, <1>2, <1>4, <1>5, <1>8, <1>9, OneMoves DEF HandTyped
<1>11. Alone'
  BY <1>1, <1>4, <1>5, StaysAlone DEF Moving
<1> QED BY <1>1, <1>2, <1>10, <1>11 DEF HandInv

\* A message that follows whole ones is followed whole.
LEMMA MessageFollows ==
  ASSUME HandInv, link = "serial", NEW v \in Setpoints, stream' = stream \o Whole(v), received' = received
  PROVE  /\ Gapless' /\ stream' \in Seq(Parts) /\ Len(stream') = Len(stream) + Pieces
         /\ stream' # <<>> /\ stream'[Len(stream')].values = v
<1>1. /\ stream \in Seq(Parts) /\ Pieces \in Nat \ {0} /\ Len(stream) \in Nat
      /\ Whole(v) \in Seq(Parts) /\ Len(Whole(v)) = Pieces
      /\ \A i \in 1..Pieces : Whole(v)[i].values = v /\ Whole(v)[i].number = i
  BY WholeMessage DEF HandInv, HandTyped, HandFits
<1>2. /\ stream' \in Seq(Parts) /\ Len(stream') = Len(stream) + Pieces
      /\ \A i \in 1..(Len(stream) + Pieces) :
           stream'[i] = IF i <= Len(stream) THEN stream[i] ELSE Whole(v)[i - Len(stream)]
  BY <1>1, ConcatProperties
<1>3. \A i \in 1..Len(stream) : stream'[i] = stream[i]
  BY <1>1, <1>2
<1>4. \A i \in 1..Pieces : stream'[Len(stream) + i].values = v /\ stream'[Len(stream) + i].number = i
  <2> SUFFICES ASSUME NEW i \in 1..Pieces
               PROVE  stream'[Len(stream) + i].values = v /\ stream'[Len(stream) + i].number = i
    OBVIOUS
  <2>1. Len(stream) + i \in 1..(Len(stream) + Pieces) /\ ~(Len(stream) + i <= Len(stream))
          /\ (Len(stream) + i) - Len(stream) = i
    BY <1>1
  <2>2. stream'[Len(stream) + i] = Whole(v)[i]
    BY <1>2, <2>1
  <2> QED BY <1>1, <2>2
<1>5. Gapless
  BY DEF HandInv
<1>6. stream' # <<>>
  BY <1>1, <1>2
<1>7. stream'[Len(stream')].values = v /\ stream'[Len(stream')].number = Pieces
  BY <1>1, <1>2, <1>4
<1>8. Successive'
  <2> SUFFICES ASSUME NEW i \in 1..(Len(stream') - 1) PROVE Follows(stream'[i], stream'[i + 1])
    BY DEF Successive, Follows
  <2>1. CASE i < Len(stream)
    <3>1. i \in 1..(Len(stream) - 1) /\ stream'[i] = stream[i] /\ stream'[i + 1] = stream[i + 1]
      BY <1>1, <1>3, <2>1
    <3> QED BY <1>5, <3>1 DEF Gapless, Successive
  <2>2. CASE i = Len(stream)
    <3>1. stream'[i].number = Pieces
      BY <1>1, <1>3, <1>5, <2>2 DEF Gapless, EndsWhole
    <3>2. stream'[i + 1].number = 1
      BY <1>1, <1>4, <2>2
    <3> QED BY <3>1, <3>2 DEF Follows
  <2>3. CASE i > Len(stream)
    <3> DEFINE k == i - Len(stream)
    <3>1. k \in 1..Pieces /\ k + 1 \in 1..Pieces /\ Len(stream) + k = i /\ Len(stream) + (k + 1) = i + 1
      BY <1>1, <1>2, <2>3
    <3>2. stream'[i].values = v /\ stream'[i].number = k
      BY <1>4, <3>1
    <3>3. stream'[i + 1].values = v /\ stream'[i + 1].number = k + 1
      BY <1>4, <3>1
    <3>4. k # Pieces
      BY <1>1, <3>1
    <3> QED BY <3>2, <3>3, <3>4 DEF Follows
  <2> QED BY <1>1, <1>2, <2>1, <2>2, <2>3
<1>9. Continues'
  <2>1. CASE stream = <<>>
    <3>1. received = <<>> /\ Len(received) = 0
      BY <1>5, <2>1 DEF Gapless, Continues
    <3>2. stream'[1].number = 1
      BY <1>1, <1>4, <2>1
    <3> QED BY <1>6, <3>1, <3>2 DEF Continues
  <2>2. CASE stream # <<>>
    <3>1. stream'[1] = stream[1]
      BY <1>1, <1>3, <2>2
    <3> QED BY <1>5, <1>6, <2>2, <3>1 DEF Gapless, Continues
  <2> QED BY <2>1, <2>2
<1> QED BY <1>2, <1>6, <1>7, <1>8, <1>9 DEF Gapless, EndsWhole

\* A message over a serial port: the hand will do what it says.
LEMMA SerialKeeps ==
  ASSUME HandInv, NEW c \in Movers, SendSerial(c)
  PROVE  HandInv'
<1> DEFINE m == [at |-> "store", values |-> move[c].values, only |-> move[c].only, sent |-> move[c].sent,
                 alone |-> move[c].alone]
           v == move[c].values
<1>1. /\ link = "serial" /\ move[c].at = "send" /\ Len(stream) + Pieces <= MaxPieces
      /\ stream' = stream \o Whole(v)
      /\ move' = [move EXCEPT ![c].at = "store"]
      /\ UNCHANGED <<link, setpoints, received, hand, overlapped, told>>
  BY DEF SendSerial, handGhosts
<1>2. HandFits /\ HandTyped /\ move[c] \in Moves /\ move \in [Movers -> Moves] /\ Alone /\ Told
  BY <1>1 DEF HandInv, HandTyped
<1>3. v \in Setpoints
  BY <1>2 DEF Moves
<1>4. /\ m \in Moves /\ m.at = "store" /\ m.alone = move[c].alone /\ m.values = v /\ m.only = move[c].only
      /\ m.sent = move[c].sent
  BY <1>2 DEF Moves
<1>5. move' = [move EXCEPT ![c] = m]
  <2> DEFINE r == move[c]
  <2>1. r = [at |-> r.at, values |-> r.values, only |-> r.only, sent |-> r.sent, alone |-> r.alone]
    BY <1>2 DEF Moves
  <2>2. move' = [move EXCEPT ![c] = [r EXCEPT !.at = "store"]]
    BY <1>1
  <2> HIDE DEF r
  <2>3. [r EXCEPT !.at = "store"] = [at |-> "store", values |-> r.values, only |-> r.only,
                            sent |-> r.sent, alone |-> r.alone]
    BY <2>1
  <2> QED BY <2>2, <2>3 DEF r
<1> HIDE DEF m, v
<1>6. /\ move' \in [Movers -> Moves] /\ move'[c] = m
      /\ \A d \in Movers \ {c} : move'[d] = move[d] /\ Moving(d)' = Moving(d)
  BY <1>4, <1>5, OneMoves
<1>7. /\ Gapless' /\ stream' \in Seq(Parts) /\ Len(stream') = Len(stream) + Pieces
      /\ stream' # <<>> /\ stream'[Len(stream')].values = v
  BY <1>1, <1>3, MessageFollows
<1>8. HandTyped'
  BY <1>1, <1>2, <1>6, <1>7 DEF HandTyped
<1>9. Alone'
  BY <1>1, <1>4, <1>5, StaysAlone DEF Moving
<1>10. Latest' = v
  BY <1>7 DEF Latest
<1>11. ASSUME NEW d \in Movers, d # c, move'[d].at # "idle"
       PROVE  overlapped /\ ~move[d].alone
  BY <1>1, <1>2, <1>6, <1>11 DEF Alone, Moving
<1>12. Told'
  <2>1. \A d \in Movers : move'[d].sent = 0
    BY <1>2, <1>4, <1>6 DEF Told
  <2>2. \A d \in Movers : move'[d].at = "store" /\ (move'[d].alone \/ (~overlapped' /\ ~told'))
                            => Latest' = move'[d].values
    BY <1>1, <1>4, <1>6, <1>10, <1>11
  <2>3. ~overlapped' /\ ~told' =>
          \A d \in Movers : Moving(d)' =>
            \A f \in Fingers \ move'[d].only : move'[d].values[f] = setpoints'[f]
    <3> SUFFICES ASSUME ~overlapped, ~told, NEW d \in Movers, move'[d].at # "idle",
                        NEW f \in Fingers \ move'[d].only
                 PROVE  move'[d].values[f] = setpoints[f]
      BY <1>1 DEF Moving
    <3>1. d = c
      BY <1>11
    <3>2. move[c].values[f] = setpoints[f]
      BY <1>1, <1>2, <1>4, <1>6, <3>1 DEF Told, Moving
    <3> QED BY <1>4, <1>6, <3>1, <3>2 DEF v
  <2>4. ~(\A d \in Movers : move'[d].at # "store")
    BY <1>4, <1>6
  <2> QED BY <2>1, <2>2, <2>3, <2>4 DEF Told
<1> QED BY <1>1, <1>2, <1>7, <1>8, <1>9, <1>12 DEF HandInv

-----------------------------------------------------------------------------
\* A client that gives up before it sent anything leaves the others what they have.
LEMMA FailKeeps ==
  ASSUME HandInv, NEW c \in Movers, FailMove(c)
  PROVE  HandInv'
<1>1. /\ move[c].at = "send" /\ move' = [move EXCEPT ![c] = NoMove]
      /\ told' = (told \/ move[c].sent > 0)
      /\ UNCHANGED <<link, setpoints, stream, received, hand, overlapped>>
  BY DEF FailMove
<1>2. HandFits /\ HandTyped /\ Alone
  BY DEF HandInv
<1>3. NoMove \in Moves /\ NoMove.at = "idle" /\ NoMove.sent = 0
  BY <1>2 DEF NoMove, Moves, Setpoints, HandFits
<1>4. /\ move' \in [Movers -> Moves] /\ move'[c] = NoMove
      /\ \A d \in Movers \ {c} : move'[d] = move[d] /\ Moving(d)' = Moving(d)
      /\ ~Moving(c)'
  BY <1>1, <1>3, OneMoves
<1>5. told' \in BOOLEAN
  BY <1>1, <1>2 DEF HandTyped
<1>6. HandTyped'
  BY <1>1, <1>2, <1>4, <1>5 DEF HandTyped
<1>7. Alone'
  BY <1>1, <1>3, StaysAlone DEF Moving
<1>8. link = "serial" => Gapless' /\ Told'
  <2> SUFFICES ASSUME link = "serial" PROVE Gapless' /\ Told'
    OBVIOUS
  <2>1. Gapless /\ Told
    BY DEF HandInv
  <2>2. Gapless'
    BY <1>1, <2>1 DEF Gapless, Successive, EndsWhole, Continues
  <2>3. Latest' = Latest
    BY <1>1 DEF Latest
  <2>4. told' = told
    BY <1>1, <1>2, <2>1 DEF Told, HandTyped
  <2>5. \A d \in Movers : move'[d].sent = 0
    BY <1>3, <1>4, <2>1 DEF Told
  <2>6. \A d \in Movers : move'[d].at = "store" /\ (move'[d].alone \/ (~overlapped' /\ ~told'))
                            => Latest' = move'[d].values
    BY <1>1, <1>3, <1>4, <2>1, <2>3, <2>4 DEF Told
  <2>7. ASSUME ~overlapped', ~told'
        PROVE  /\ Latest' = setpoints'
               /\ \A d \in Movers : Moving(d)' =>
                    \A f \in Fingers \ move'[d].only : move'[d].values[f] = setpoints'[f]
    <3>1. \A d \in Movers : Moving(d) => d = c
      BY <1>1, <1>2, <2>7 DEF Alone, Moving
    <3>2. \A d \in Movers : move[d].at # "store"
      BY <1>1, <3>1 DEF Moving
    <3>3. Latest = setpoints
      BY <1>1, <2>1, <2>4, <2>7, <3>2 DEF Told
    <3> QED BY <1>1, <1>4, <2>3, <3>1, <3>3
  <2> QED BY <2>2, <2>5, <2>6, <2>7 DEF Told
<1> QED BY <1>1, <1>2, <1>6, <1>7, <1>8 DEF HandInv

\* What a client stores is what the hand will do, when it is alone or none overlapped; and
\* one that was alone and told all fingers settles what has been before.
LEMMA StoreKeeps ==
  ASSUME HandInv, NEW c \in Movers, StoreMove(c)
  PROVE  HandInv'
<1>1. /\ move[c].at = "store"
      /\ setpoints' = [f \in Fingers |-> IF f \in move[c].only THEN move[c].values[f] ELSE setpoints[f]]
      /\ move' = [move EXCEPT ![c] = NoMove]
      /\ overlapped' = (overlapped /\ ~Settles(c)) /\ told' = (told /\ ~Settles(c))
      /\ UNCHANGED <<link, stream, received, hand>>
  BY DEF StoreMove
<1>2. HandFits /\ HandTyped /\ Alone /\ move[c] \in Moves
  BY DEF HandInv, HandTyped
<1>3. NoMove \in Moves /\ NoMove.at = "idle" /\ NoMove.sent = 0
  BY <1>2 DEF NoMove, Moves, Setpoints, HandFits
<1>4. /\ move' \in [Movers -> Moves] /\ move'[c] = NoMove
      /\ \A d \in Movers \ {c} : move'[d] = move[d] /\ Moving(d)' = Moving(d)
      /\ ~Moving(c)'
  BY <1>1, <1>3, OneMoves
<1>5. setpoints \in Setpoints /\ move[c].values \in Setpoints
  BY <1>2 DEF HandTyped, Moves
<1>6. setpoints' \in Setpoints
  BY <1>1, <1>5 DEF Setpoints
<1>7. overlapped' \in BOOLEAN /\ told' \in BOOLEAN
  BY <1>1, <1>2 DEF HandTyped, Settles
<1>8. HandTyped'
  BY <1>1, <1>2, <1>4, <1>6, <1>7 DEF HandTyped
<1>9. Alone'
  <2> SUFFICES ASSUME NEW d \in Movers, NEW e \in Movers, Moving(d)', Moving(e)', d # e
               PROVE  ~move'[d].alone /\ overlapped'
    BY DEF Alone
  <2>1. d # c /\ e # c /\ Moving(d) /\ Moving(e) /\ move'[d] = move[d]
    BY <1>4
  <2>2. Moving(c)
    BY <1>1 DEF Moving
  <2>3. ~move[d].alone /\ overlapped /\ ~move[c].alone
    BY <1>2, <2>1, <2>2 DEF Alone
  <2> QED BY <1>1, <2>1, <2>3 DEF Settles
<1>10. link = "serial" => Gapless' /\ Told'
  <2> SUFFICES ASSUME link = "serial" PROVE Gapless' /\ Told'
    OBVIOUS
  <2>1. Gapless /\ Told
    BY DEF HandInv
  <2>2. Gapless'
    BY <1>1, <2>1 DEF Gapless, Successive, EndsWhole, Continues
  <2>3. Latest' = Latest
    BY <1>1 DEF Latest
  <2>4. \A d \in Movers : move'[d].sent = 0
    BY <1>3, <1>4, <2>1 DEF Told
  <2>5. ASSUME ~overlapped', ~told'
        PROVE  Latest' = setpoints' /\ \A d \in Movers : ~Moving(d)'
    <3>1. Settles(c) \/ (~overlapped /\ ~told)
      BY <1>1, <2>5
    <3>2. Latest = move[c].values
      BY <1>1, <2>1, <3>1 DEF Told, Settles
    <3>3. \A f \in Fingers \ move[c].only : move[c].values[f] = setpoints[f]
      BY <1>1, <2>1, <3>1 DEF Told, Settles, Moving
    <3>4. setpoints' = move[c].values
      BY <1>1, <1>5, <3>3 DEF Setpoints
    <3>5. \A d \in Movers \ {c} : ~Moving(d)
      BY <1>1, <1>2, <3>1 DEF Alone, Moving, Settles
    <3> QED BY <1>4, <2>3, <3>2, <3>4, <3>5
  <2>6. ASSUME NEW d \in Movers, move'[d].at = "store", move'[d].alone \/ (~overlapped' /\ ~told')
        PROVE  Latest' = move'[d].values
    <3>1. d # c /\ Moving(d)
      BY <1>3, <1>4, <2>6 DEF Moving
    <3>2. ~move[d].alone /\ move'[d] = move[d]
      BY <1>1, <1>2, <1>4, <3>1 DEF Alone, Moving
    <3>3. ~Moving(d)'
      BY <2>5, <2>6, <3>2
    <3> QED BY <2>6, <3>3 DEF Moving
  <2> QED BY <2>2, <2>4, <2>5, <2>6 DEF Told
<1> QED BY <1>1, <1>2, <1>8, <1>9, <1>10 DEF HandInv

\* Encoders are set: the memory is no longer what was told.
LEMMA SetKeeps ==
  ASSUME HandInv, setpoints' \in Setpoints, told' = TRUE,
         UNCHANGED <<link, move, stream, received, hand, overlapped>>
  PROVE  HandInv'
<1>1. HandFits /\ HandTyped /\ Alone
  BY DEF HandInv
<1>2. HandTyped'
  BY <1>1 DEF HandTyped
<1>3. Alone'
  BY <1>1 DEF Alone, Moving
<1>4. link = "serial" => Gapless' /\ Told'
  <2>1. Latest' = Latest
    BY DEF Latest
  <2>2. Gapless => Gapless'
    BY DEF Gapless, Successive, EndsWhole, Continues
  <2>3. Told => Told'
    BY <2>1 DEF Told
  <2> QED BY <2>2, <2>3 DEF HandInv
<1> QED BY <1>1, <1>2, <1>3, <1>4 DEF HandInv

-----------------------------------------------------------------------------
\* The hand takes a piece, and has the setpoints of the message it ends.
LEMMA ReceiveKeeps ==
  ASSUME HandInv, Receive
  PROVE  HandInv'
<1> DEFINE p == Head(stream)
           fits == received # <<>> /\ p = Piece(received[1].values, Len(received) + 1)
           now == IF p.number = 1 THEN <<p>> ELSE IF fits THEN Append(received, p) ELSE <<>>
<1>1. /\ stream # <<>> /\ stream' = Tail(stream)
      /\ IF Len(now) = Pieces THEN hand' = p.values /\ received' = <<>> ELSE received' = now /\ hand' = hand
      /\ UNCHANGED <<link, setpoints, move, overlapped, told>>
  BY DEF Receive, handGhosts
<1>2. HandFits /\ HandTyped /\ Alone
  BY DEF HandInv
<1>3. /\ stream \in Seq(Parts) /\ received \in Seq(Parts) /\ hand \in Setpoints /\ Len(stream) \in Nat
      /\ Len(received) \in Nat /\ Pieces \in Nat \ {0} /\ MaxPieces \in Nat /\ Len(stream) <= MaxPieces
  BY <1>2 DEF HandTyped, HandFits
<1>4. /\ p \in Parts /\ p = stream[1] /\ stream' \in Seq(Parts) /\ Len(stream') = Len(stream) - 1
      /\ \A i \in 1..Len(stream') : stream'[i] = stream[i + 1]
  BY <1>1, <1>3, HeadTailProperties
<1>5. p.values \in Setpoints /\ p.number \in 1..Pieces
  BY <1>4 DEF Parts
<1> HIDE DEF p
<1>6. now \in Seq(Parts)
  <2>1. <<p>> \in Seq(Parts)
    BY <1>4
  <2>2. Append(received, p) \in Seq(Parts)
    BY <1>3, <1>4, AppendProperties
  <2>3. <<>> \in Seq(Parts)
    OBVIOUS
  <2> QED BY <2>1, <2>2, <2>3
<1>7. HandTyped'
  <2> HIDE DEF now
  <2>1. (hand' = p.values /\ received' = <<>>) \/ (hand' = hand /\ received' = now)
    BY <1>1
  <2>2. <<>> \in Seq(Parts)
    OBVIOUS
  <2>3. received' \in Seq(Parts) /\ hand' \in Setpoints
    BY <1>3, <1>5, <1>6, <2>1, <2>2
  <2> QED BY <1>1, <1>2, <1>3, <1>4, <2>3 DEF HandTyped
<1>8. Alone'
  BY <1>1, <1>2 DEF Alone, Moving
<1>9. link = "serial" => Gapless' /\ Told'
  <2> SUFFICES ASSUME link = "serial" PROVE Gapless' /\ Told'
    OBVIOUS
  <2>1. Gapless /\ Told
    BY DEF HandInv
  <2>2. p.number = Len(received) + 1 /\ (received # <<>> => p.values = received[1].values)
    BY <1>1, <1>4, <2>1 DEF Gapless, Continues
  <2>3. p = [values |-> p.values, number |-> p.number]
    BY <1>4 DEF Parts
  <2>4. p.number # 1 => received # <<>>
    BY <1>3, <2>2
  <2>5. received # <<>> => fits
    BY <2>2, <2>3 DEF Piece
  <2>6. /\ now \in Seq(Parts) /\ Len(now) = p.number /\ now # <<>> /\ now[1].values = p.values
    <3>1. CASE received = <<>>
      <4>1. now = <<p>>
        BY <2>4, <3>1
      <4> HIDE DEF now
      <4>2. Len(received) = 0
        BY <3>1
      <4> QED BY <1>6, <2>2, <4>1, <4>2
    <3>2. CASE received # <<>>
      <4>1. Len(received) # 0
        BY <1>3, <3>2
      <4>2. p.number # 1
        BY <1>3, <2>2, <4>1
      <4>3. now = Append(received, p)
        BY <2>5, <3>2, <4>2
      <4> HIDE DEF now
      <4>4. /\ Append(received, p) # <<>> /\ Len(Append(received, p)) = Len(received) + 1
            /\ \A i \in 1..Len(received) : Append(received, p)[i] = received[i]
        BY <1>3, <1>4, AppendProperties
      <4>5. Append(received, p)[1] = received[1]
        BY <1>3, <4>1, <4>4
      <4> QED BY <1>6, <2>2, <3>2, <4>3, <4>4, <4>5
    <3> QED BY <3>1, <3>2
  <2> HIDE DEF now
  <2>7. \/ p.number = Pieces /\ hand' = p.values /\ received' = <<>> /\ Len(received') = 0
        \/ p.number # Pieces /\ hand' = hand /\ received' = now
    BY <1>1, <2>6
  <2>8. stream' # <<>> => Follows(p, stream'[1])
    <3> SUFFICES ASSUME stream' # <<>> PROVE Follows(p, stream'[1])
      OBVIOUS
    <3>1. 1 \in 1..Len(stream') /\ 1 \in 1..(Len(stream) - 1)
      BY <1>3, <1>4
    <3>2. stream'[1] = stream[2] /\ Follows(stream[1], stream[2])
      BY <1>4, <2>1, <3>1 DEF Gapless, Successive
    <3> QED BY <1>4, <3>2
  <2>9. stream' # <<>> => stream'[Len(stream')] = stream[Len(stream)]
    BY <1>3, <1>4
  <2>10. stream' = <<>> => p = stream[Len(stream)] /\ p.number = Pieces
    <3>1. stream' = <<>> => Len(stream) = 1
      BY <1>3, <1>4
    <3> QED BY <1>1, <1>4, <2>1, <3>1 DEF Gapless, EndsWhole
  <2>11. Successive'
    <3> SUFFICES ASSUME NEW i \in 1..(Len(stream') - 1) PROVE Follows(stream'[i], stream'[i + 1])
      BY DEF Successive, Follows
    <3>1. /\ i \in 1..Len(stream') /\ i + 1 \in 1..Len(stream') /\ i + 1 \in 1..(Len(stream) - 1)
      BY <1>3, <1>4
    <3>2. stream'[i] = stream[i + 1] /\ stream'[i + 1] = stream[(i + 1) + 1]
      BY <1>4, <3>1
    <3> QED BY <2>1, <3>1, <3>2 DEF Gapless, Successive
  <2>12. EndsWhole'
    BY <1>1, <2>1, <2>9 DEF Gapless, EndsWhole
  <2>13. Continues'
    <3>1. CASE stream' = <<>>
      BY <2>7, <2>10, <3>1 DEF Continues
    <3>2. CASE stream' # <<>>
      BY <2>6, <2>7, <2>8, <3>2 DEF Continues, Follows
    <3> QED BY <3>1, <3>2
  <2>14. Latest' = Latest
    <3>1. CASE stream' = <<>>
      BY <1>1, <1>3, <2>7, <2>10, <3>1 DEF Latest
    <3>2. CASE stream' # <<>>
      BY <1>1, <2>9, <3>2 DEF Latest
    <3> QED BY <3>1, <3>2
  <2>15. Told'
    BY <1>1, <2>1, <2>14 DEF Told, Moving
  <2> QED BY <2>11, <2>12, <2>13, <2>15 DEF Gapless
<1> QED BY <1>1, <1>2, <1>7, <1>8, <1>9 DEF HandInv

-----------------------------------------------------------------------------
\* What a move of one finger, of a list or of all sends: the others as they are.
LEMMA MovesKeep ==
  ASSUME HandInv, NEW c \in Movers, NEW ref \in Angles,
         \/ positionMoveAll(c, ref) \/ relativeMoveAll(c, ref)
         \/ \E f \in Fingers : positionMove(c, f, ref) \/ relativeMove(c, f, ref)
         \/ \E l \in JointLists : positionMoveList(c, l, ref) \/ relativeMoveList(c, l, ref)
  PROVE  HandInv'
<1>1. ASSUME NEW list, NEW relative \in BOOLEAN, NEW only \in SUBSET Fingers,
             \A f \in Fingers \ only : f \notin Elements(list), BeginMove(c, Moved(list, ref, relative), only)
      PROVE  HandInv'
  <2> DEFINE values == Moved(list, ref, relative)
  <2>1. values = [f \in Fingers |-> values[f]]
    BY DEF Moved
  <2>2. \A f \in Fingers \ only : values[f] = setpoints[f]
    BY <1>1 DEF Moved
  <2>3. BeginMove(c, values, only)
    BY <1>1
  <2> HIDE DEF values
  <2> QED BY <2>1, <2>2, <2>3, BeginKeeps
<1>2. CASE positionMoveAll(c, ref)
  <2> DEFINE values == [f \in Fingers |-> ref]
  <2>1. values = [f \in Fingers |-> values[f]]
    OBVIOUS
  <2>2. BeginMove(c, values, Fingers)
    BY <1>2 DEF positionMoveAll
  <2> HIDE DEF values
  <2> QED BY <2>1, <2>2, BeginKeeps
<1>3. CASE relativeMoveAll(c, ref)
  BY <1>1, <1>3 DEF relativeMoveAll
<1>4. CASE \E f \in Fingers : positionMove(c, f, ref) \/ relativeMove(c, f, ref)
  <2>1. PICK f \in Fingers : positionMove(c, f, ref) \/ relativeMove(c, f, ref)
    BY <1>4
  <2>2. \A g \in Fingers \ {f} : g \notin Elements(<<f>>)
    BY DEF Elements
  <2>3. PICK relative \in BOOLEAN : BeginMove(c, Moved(<<f>>, ref, relative), {f})
    BY <2>1 DEF positionMove, relativeMove
  <2> DEFINE list == <<f>>
             only == {f}
  <2>4. /\ only \in SUBSET Fingers /\ BeginMove(c, Moved(list, ref, relative), only)
        /\ \A g \in Fingers \ only : g \notin Elements(list)
    BY <2>2, <2>3
  <2> HIDE DEF list, only
  <2> QED BY <1>1, <2>4
<1>5. CASE \E l \in JointLists : positionMoveList(c, l, ref) \/ relativeMoveList(c, l, ref)
  BY <1>1, <1>5 DEF positionMoveList, relativeMoveList
<1> QED BY <1>2, <1>3, <1>4, <1>5

\* Every step keeps the invariant.
LEMMA HandKeeps == HandInv /\ [HandNext]_handVars => HandInv'
<1> SUFFICES ASSUME HandInv, [HandNext]_handVars PROVE HandInv'
  OBVIOUS
<1>1. HandFits /\ HandTyped
  BY DEF HandInv
<1>2. CASE UNCHANGED handVars
  <2>1. UNCHANGED <<link, setpoints, move, stream, received, hand, overlapped, told>>
    BY <1>2 DEF handVars, handGhosts
  <2> QED BY <2>1 DEF HandInv, HandTyped, Alone, Gapless, Successive, EndsWhole, Continues, Told, Latest, Moving
<1>3. CASE Receive
  BY <1>3, ReceiveKeeps
<1>4. CASE resetEncoders
  <2>1. setpoints' \in Setpoints
    BY <1>1, <1>4 DEF resetEncoders, Setpoints, HandFits
  <2> QED BY <1>4, <2>1, SetKeeps DEF resetEncoders
<1>5. CASE Unmoved
  BY <1>2, <1>5 DEF Unmoved, checkMotionDone, stop, setRefSpeed, setRefAcceleration, getTargetPosition,
     setControlMode
<1>6. CASE \E f \in Fingers, value \in Angles : setEncoder(f, value)
  <2>1. PICK f \in Fingers, value \in Angles : setEncoder(f, value)
    BY <1>6
  <2>2. setpoints \in Setpoints /\ value \in -Top..Top
    BY <1>1 DEF HandTyped, HandFits
  <2>3. setpoints' \in Setpoints
    BY <2>1, <2>2 DEF setEncoder, Setpoints
  <2> QED BY <2>1, <2>3, SetKeeps DEF setEncoder
<1>7. ASSUME NEW c \in Movers, SendFrame(c) \/ SendSerial(c) \/ FailMove(c) \/ StoreMove(c)
      PROVE  HandInv'
  BY <1>7, FrameKeeps, SerialKeeps, FailKeeps, StoreKeeps
<1>8. ASSUME NEW c \in Movers, NEW ref \in Angles,
             \/ positionMoveAll(c, ref) \/ relativeMoveAll(c, ref)
             \/ \E f \in Fingers : positionMove(c, f, ref) \/ relativeMove(c, f, ref)
             \/ \E l \in JointLists : positionMoveList(c, l, ref) \/ relativeMoveList(c, l, ref)
      PROVE  HandInv'
  BY <1>8, MovesKeep
<1> QED BY <1>2, <1>3, <1>4, <1>5, <1>6, <1>7, <1>8 DEF HandNext

\* ... so it always holds.
LEMMA HandInductive == ASSUME HandFits PROVE HandSpec => []HandInv
  BY InitHandInv, HandKeeps, PTL DEF HandSpec

-----------------------------------------------------------------------------
\* Whatever the calls of however many clients over whichever link, the memory and the hand
\* hold setpoints of every finger within the bounds, and no more pieces are on their way
\* than the link has room for.
THEOREM HandIsTyped == ASSUME HandFits PROVE HandSpec => []HandTypeOK
<1>1. HandInv => HandTypeOK
  <2> SUFFICES ASSUME HandInv PROVE HandTypeOK
    OBVIOUS
  <2>1. \A c \in Movers : move[c].at \in {"idle", "send", "store"}
    BY DEF HandInv, HandTyped, Moves
  <2> QED BY <2>1 DEF HandInv, HandTyped, HandTypeOK, Setpoints
<1> QED BY <1>1, HandInductive, PTL

\* Over a serial port getEncoders tells what the hand does when all is quiet, once a client
\* alone told all fingers at once and as long as moves do not overlap, for any number of
\* fingers, of clients and of pieces a message arrives in, and whatever fails.
THEOREM EncodersAreHand == ASSUME HandFits PROVE HandSpec => []MemoryIsHand
<1>1. HandInv => MemoryIsHand
  <2> SUFFICES ASSUME HandInv, link = "serial", Quiet, ~overlapped, ~told PROVE getEncoders = hand
    BY DEF MemoryIsHand
  <2>1. \A c \in Movers : move[c].at # "store"
    BY DEF Quiet, Moving
  <2>2. Latest = setpoints
    BY <2>1 DEF HandInv, Told
  <2> QED BY <2>2 DEF Quiet, Latest, getEncoders
<1> QED BY <1>1, HandInductive, PTL
=============================================================================
