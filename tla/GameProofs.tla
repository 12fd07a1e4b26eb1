----------------------------- MODULE GameProofs -----------------------------
(***************************************************************************)
(* TLAPS proofs about the rules of the game as the program keeps them, for *)
(* boards of every size and games of every length, in four parts.          *)
(* Positions: what make_move does, unmake_move undoes, and the redundant   *)
(* state stays exact.  Moves: the generators list the lawful moves and the *)
(* checks.  Games: a position set up from a text is exact, every position  *)
(* of a game is sound, and with that what is checked of every position     *)
(* holds.  Texts: what to_sfen writes of it, set_sfen reads back.          *)
(***************************************************************************)
EXTENDS Game, FiniteSetTheorems, TLAPS

-----------------------------------------------------------------------------
(* Part 1.  Positions. *)

-----------------------------------------------------------------------------
(* What each helper does to the fields of a position. *)

Fields == {"board", "hands", "pieces", "own", "occupied", "king", "side", "ply", "key"}
Shape(P) == P = [f \in Fields |-> P[f]]

LEMMA SameShape ==
    ASSUME NEW P, NEW Q, Shape(P), Shape(Q),
           P.board = Q.board, P.hands = Q.hands, P.pieces = Q.pieces, P.own = Q.own,
           P.occupied = Q.occupied, P.king = Q.king, P.side = Q.side, P.ply = Q.ply, P.key = Q.key
    PROVE  P = Q
<1>1. \A f \in Fields : P[f] = Q[f]
  BY DEF Fields
<1> QED BY <1>1 DEF Shape

PieceAdded(P, Q, s, color, type) ==
    /\ Shape(Q)
    /\ Q.board = [P.board EXCEPT ![s] = Piece(color, type)]
    /\ Q.hands = P.hands /\ Q.side = P.side /\ Q.ply = P.ply
    /\ Q.pieces = [P.pieces EXCEPT ![color][type] = @ \cup {s}]
    /\ Q.own = [P.own EXCEPT ![color] = @ \cup {s}]
    /\ Q.occupied = P.occupied \cup {s}
    /\ Q.king = [P.king EXCEPT ![color] = IF type = "King" THEN s ELSE @]
    /\ Q.key = Xor(P.key, OnBoard(color, type, s))

LEMMA AddPieceFields ==
    ASSUME NEW P, Shape(P), NEW s, NEW color, NEW type
    PROVE  PieceAdded(P, AddPiece(P, s, color, type), s, color, type)
<1> DEFINE Q == AddPiece(P, s, color, type)
<1>1. Shape(Q)
  BY DEF AddPiece, Shape, Fields
<1>2. Q.board = [P.board EXCEPT ![s] = Piece(color, type)]
  BY DEF AddPiece, Shape, Fields
<1>3. Q.hands = P.hands /\ Q.side = P.side /\ Q.ply = P.ply
  BY DEF AddPiece, Shape, Fields
<1>4. Q.pieces = [P.pieces EXCEPT ![color][type] = @ \cup {s}]
  BY DEF AddPiece, Shape, Fields
<1>5. Q.own = [P.own EXCEPT ![color] = @ \cup {s}]
  BY DEF AddPiece, Shape, Fields
<1>6. Q.occupied = P.occupied \cup {s}
  BY DEF AddPiece, Shape, Fields
<1>7. Q.king = [P.king EXCEPT ![color] = IF type = "King" THEN s ELSE @]
  BY DEF AddPiece, Shape, Fields
<1>8. Q.key = Xor(P.key, OnBoard(color, type, s))
  BY DEF AddPiece, Shape, Fields
<1> QED BY <1>1, <1>2, <1>3, <1>4, <1>5, <1>6, <1>7, <1>8 DEF PieceAdded

LEMMA Tuples ==
    ASSUME NEW a, NEW b, NEW c, NEW d, NEW e, NEW f
    PROVE  /\ OnBoard(a, b, c) # InHand(d, e, f)
           /\ OnBoard(a, b, c) # WhiteToMove
           /\ InHand(a, b, c) # WhiteToMove
           /\ OnBoard(a, b, c) = OnBoard(d, e, f) => a = d /\ b = e /\ c = f
           /\ InHand(a, b, c) = InHand(d, e, f) => a = d /\ b = e /\ c = f
BY DEF OnBoard, InHand, WhiteToMove

LEMMA Injective == \A a, b \in DOMAIN PromotedForm : PromotedForm[a] = PromotedForm[b] => a = b
BY DEF PromotedForm

PieceRemoved(P, Q, s) ==
    /\ Shape(Q)
    /\ Q.board = [P.board EXCEPT ![s] = NoPiece]
    /\ Q.hands = P.hands /\ Q.side = P.side /\ Q.ply = P.ply
    /\ Q.pieces = [P.pieces EXCEPT ![P.board[s].color][P.board[s].type] = @ \ {s}]
    /\ Q.own = [P.own EXCEPT ![P.board[s].color] = @ \ {s}]
    /\ Q.occupied = P.occupied \ {s}
    /\ Q.king = [P.king EXCEPT ![P.board[s].color] = IF P.board[s].type = "King" THEN NoSquare ELSE @]
    /\ Q.key = Xor(P.key, OnBoard(P.board[s].color, P.board[s].type, s))

LEMMA RemovePieceFields ==
    ASSUME NEW P, Shape(P), NEW s, P.board[s] # NoPiece
    PROVE  PieceRemoved(P, RemovePiece(P, s), s)
<1> DEFINE Q == RemovePiece(P, s)
<1>1. Shape(Q)
  BY ZenonT(60) DEF RemovePiece, Shape, Fields
<1>2. Q.board = [P.board EXCEPT ![s] = NoPiece]
  BY DEF RemovePiece, Shape, Fields
<1>3. Q.hands = P.hands /\ Q.side = P.side /\ Q.ply = P.ply
  BY DEF RemovePiece, Shape, Fields
<1>4. Q.pieces = [P.pieces EXCEPT ![P.board[s].color][P.board[s].type] = @ \ {s}]
  BY DEF RemovePiece, Shape, Fields
<1>5. Q.own = [P.own EXCEPT ![P.board[s].color] = @ \ {s}]
  BY DEF RemovePiece, Shape, Fields
<1>6. Q.occupied = P.occupied \ {s}
  BY DEF RemovePiece, Shape, Fields
<1>7. Q.king = [P.king EXCEPT ![P.board[s].color] = IF P.board[s].type = "King" THEN NoSquare ELSE @]
  BY DEF RemovePiece, Shape, Fields
<1>8. Q.key = Xor(P.key, OnBoard(P.board[s].color, P.board[s].type, s))
  BY DEF RemovePiece, Shape, Fields
<1> QED BY <1>1, <1>2, <1>3, <1>4, <1>5, <1>6, <1>7, <1>8 DEF PieceRemoved

HandAdded(P, Q, color, type) ==
    /\ Shape(Q)
    /\ Q.board = P.board /\ Q.side = P.side /\ Q.ply = P.ply /\ Q.pieces = P.pieces
    /\ Q.own = P.own /\ Q.occupied = P.occupied /\ Q.king = P.king
    /\ Q.hands = [P.hands EXCEPT ![color][type] = @ + 1]
    /\ Q.key = Xor(P.key, InHand(color, type, P.hands[color][type]))

LEMMA AddHandFields ==
    ASSUME NEW P, Shape(P), NEW color, NEW type
    PROVE  HandAdded(P, AddHandPiece(P, color, type), color, type)
<1> DEFINE Q == AddHandPiece(P, color, type)
<1>1. Shape(Q)
  BY DEF AddHandPiece, Shape, Fields
<1>2. /\ Q.board = P.board /\ Q.side = P.side /\ Q.ply = P.ply /\ Q.pieces = P.pieces
      /\ Q.own = P.own /\ Q.occupied = P.occupied /\ Q.king = P.king
  BY DEF AddHandPiece, Shape, Fields
<1>3. Q.hands = [P.hands EXCEPT ![color][type] = @ + 1]
  BY DEF AddHandPiece, Shape, Fields
<1>4. Q.key = Xor(P.key, InHand(color, type, P.hands[color][type]))
  BY DEF AddHandPiece, Shape, Fields
<1> QED BY <1>1, <1>2, <1>3, <1>4 DEF HandAdded

HandRemoved(P, Q, color, type) ==
    /\ Shape(Q)
    /\ Q.board = P.board /\ Q.side = P.side /\ Q.ply = P.ply /\ Q.pieces = P.pieces
    /\ Q.own = P.own /\ Q.occupied = P.occupied /\ Q.king = P.king
    /\ Q.hands = [P.hands EXCEPT ![color][type] = @ - 1]
    /\ Q.key = Xor(P.key, InHand(color, type, P.hands[color][type] - 1))

LEMMA RemoveHandFields ==
    ASSUME NEW P, Shape(P), NEW color, NEW type
    PROVE  HandRemoved(P, RemoveHandPiece(P, color, type), color, type)
<1> DEFINE Q == RemoveHandPiece(P, color, type)
<1>1. Shape(Q)
  BY DEF RemoveHandPiece, Shape, Fields
<1>2. /\ Q.board = P.board /\ Q.side = P.side /\ Q.ply = P.ply /\ Q.pieces = P.pieces
      /\ Q.own = P.own /\ Q.occupied = P.occupied /\ Q.king = P.king
  BY DEF RemoveHandPiece, Shape, Fields
<1>3. Q.hands = [P.hands EXCEPT ![color][type] = @ - 1]
  BY DEF RemoveHandPiece, Shape, Fields
<1>4. Q.key = Xor(P.key, InHand(color, type, P.hands[color][type] - 1))
  BY DEF RemoveHandPiece, Shape, Fields
<1> QED BY <1>1, <1>2, <1>3, <1>4 DEF HandRemoved

TurnPassed(P, Q, n) ==
    /\ Shape(Q)
    /\ Q.board = P.board /\ Q.hands = P.hands /\ Q.pieces = P.pieces
    /\ Q.own = P.own /\ Q.occupied = P.occupied /\ Q.king = P.king
    /\ Q.side = Opposite(P.side) /\ Q.ply = P.ply + n
    /\ Q.key = Xor(P.key, WhiteToMove)

LEMMA PassFields ==
    ASSUME NEW P, Shape(P), NEW n
    PROVE  TurnPassed(P, PassTurn([P EXCEPT !.ply = @ + n]), n)
<1> DEFINE Q == PassTurn([P EXCEPT !.ply = @ + n])
<1>1. Shape(Q)
  BY DEF PassTurn, Shape, Fields
<1>2. /\ Q.board = P.board /\ Q.hands = P.hands /\ Q.pieces = P.pieces
      /\ Q.own = P.own /\ Q.occupied = P.occupied /\ Q.king = P.king
  BY DEF PassTurn, Shape, Fields
<1>3. Q.side = Opposite(P.side) /\ Q.ply = P.ply + n
  BY DEF PassTurn, Shape, Fields
<1>4. Q.key = Xor(P.key, WhiteToMove)
  BY DEF PassTurn, Shape, Fields
<1> QED BY <1>1, <1>2, <1>3, <1>4 DEF TurnPassed

-----------------------------------------------------------------------------
(* The keys. *)

PieceSet == [color : Colors, type : Types]
Boards == [Squares -> {NoPiece} \cup PieceSet]
Hands == [Colors -> [HandTypes -> Nat]]

LEMMA PieceFacts ==
    /\ NoPiece \notin PieceSet
    /\ \A c \in Colors, t \in Types :
          Piece(c, t) \in PieceSet /\ Piece(c, t).color = c /\ Piece(c, t).type = t
    /\ \A x \in PieceSet : x.color \in Colors /\ x.type \in Types /\ x = Piece(x.color, x.type)
    /\ NoPiece.color \notin Colors
    /\ NoSquare \notin Squares
    /\ HandTypes \subseteq Types /\ "King" \in Types \ HandTypes
<1>1. NoPiece.color \notin Colors
  BY DEF NoPiece, Colors
<1>2. NoSquare \notin Squares
  BY BoardAssumption DEF NoSquare, Squares
<1>3. HandTypes \subseteq Types /\ "King" \in Types \ HandTypes
  BY DEF Types, HandTypes
<1> QED BY <1>1, <1>2, <1>3 DEF PieceSet, Piece, NoPiece

LEMMA InBoardKey ==
    ASSUME NEW board \in Boards, NEW c, NEW t, NEW s
    PROVE  OnBoard(c, t, s) \in BoardKey(board)
             <=> s \in Squares /\ c \in Colors /\ t \in Types /\ board[s] = Piece(c, t)
BY Tuples, PieceFacts DEF BoardKey, Boards

LEMMA InHandKey ==
    ASSUME NEW hands \in Hands, NEW c, NEW t, NEW n
    PROVE  InHand(c, t, n) \in HandKey(hands)
             <=> c \in Colors /\ t \in HandTypes /\ n \in 0 .. (hands[c][t] - 1)
<1>1. \A h \in Colors \X HandTypes : h[1] \in Colors /\ h[2] \in HandTypes
  OBVIOUS
<1>2. ASSUME NEW h \in Colors \X HandTypes, NEW k, InHand(c, t, n) = InHand(h[1], h[2], k)
      PROVE  c = h[1] /\ t = h[2] /\ n = k
  BY <1>2, Tuples
<1>3. ASSUME c \in Colors, t \in HandTypes, n \in 0 .. (hands[c][t] - 1)
      PROVE  InHand(c, t, n) \in HandKey(hands)
  <2>1. <<c, t>> \in Colors \X HandTypes /\ <<c, t>>[1] = c /\ <<c, t>>[2] = t
    BY <1>3
  <2> QED BY <1>3, <2>1 DEF HandKey
<1>4. ASSUME InHand(c, t, n) \in HandKey(hands)
      PROVE  c \in Colors /\ t \in HandTypes /\ n \in 0 .. (hands[c][t] - 1)
  <2>1. PICK h \in Colors \X HandTypes :
            InHand(c, t, n) \in {InHand(h[1], h[2], k) : k \in 0 .. (hands[h[1]][h[2]] - 1)}
    BY <1>4 DEF HandKey
  <2>2. PICK k \in 0 .. (hands[h[1]][h[2]] - 1) : InHand(c, t, n) = InHand(h[1], h[2], k)
    BY <2>1
  <2> QED BY <1>1, <1>2, <2>2
<1> QED BY <1>3, <1>4

LEMMA KeysApart ==
    ASSUME NEW board, NEW hands, NEW side, NEW a, NEW b, NEW c
    PROVE  /\ OnBoard(a, b, c) \notin HandKey(hands) \cup SideKey(side)
           /\ InHand(a, b, c) \notin BoardKey(board) \cup SideKey(side)
           /\ WhiteToMove \notin BoardKey(board) \cup HandKey(hands)
<1>1. \A x \in HandKey(hands) : \E d, e, f : x = InHand(d, e, f)
  BY DEF HandKey
<1>2. \A x \in BoardKey(board) : \E d, e, f : x = OnBoard(d, e, f)
  BY DEF BoardKey
<1>3. \A x \in SideKey(side) : x = WhiteToMove
  BY DEF SideKey
<1> QED BY <1>1, <1>2, <1>3, Tuples

LEMMA BoardKeyElements ==
    ASSUME NEW board, NEW k
    PROVE  k \in BoardKey(board) <=> \E x \in Squares : /\ board[x] # NoPiece
                                                       /\ k = OnBoard(board[x].color, board[x].type, x)
BY DEF BoardKey

LEMMA BoardKeyAdd ==
    ASSUME NEW board \in Boards, NEW s \in Squares, board[s] = NoPiece,
           NEW c \in Colors, NEW t \in Types
    PROVE  BoardKey([board EXCEPT ![s] = Piece(c, t)]) = BoardKey(board) \cup {OnBoard(c, t, s)}
<1> DEFINE B == [board EXCEPT ![s] = Piece(c, t)]
<1>1. /\ B[s] = Piece(c, t) /\ Piece(c, t) # NoPiece
      /\ \A x \in Squares \ {s} : B[x] = board[x]
  BY PieceFacts DEF Boards
<1>2. Piece(c, t).color = c /\ Piece(c, t).type = t
  BY PieceFacts
<1> HIDE DEF B
<1>3. ASSUME NEW k PROVE k \in BoardKey(B) <=> k \in BoardKey(board) \/ k = OnBoard(c, t, s)
  <2>1. ASSUME k \in BoardKey(B) PROVE k \in BoardKey(board) \/ k = OnBoard(c, t, s)
    <3>1. PICK x \in Squares : B[x] # NoPiece /\ k = OnBoard(B[x].color, B[x].type, x)
      BY <2>1, BoardKeyElements
    <3> QED BY <1>1, <1>2, <3>1, BoardKeyElements
  <2>2. ASSUME k \in BoardKey(board) PROVE k \in BoardKey(B)
    <3>1. PICK x \in Squares : board[x] # NoPiece /\ k = OnBoard(board[x].color, board[x].type, x)
      BY <2>2, BoardKeyElements
    <3> QED BY <1>1, <3>1, BoardKeyElements
  <2>3. OnBoard(c, t, s) \in BoardKey(B)
    BY <1>1, <1>2, BoardKeyElements
  <2> QED BY <2>1, <2>2, <2>3
<1> QED BY <1>3 DEF B

LEMMA BoardKeyRemove ==
    ASSUME NEW board \in Boards, NEW s \in Squares, board[s] # NoPiece
    PROVE  /\ BoardKey([board EXCEPT ![s] = NoPiece])
                = BoardKey(board) \ {OnBoard(board[s].color, board[s].type, s)}
           /\ OnBoard(board[s].color, board[s].type, s) \in BoardKey(board)
<1> DEFINE B == [board EXCEPT ![s] = NoPiece]
<1>1. B[s] = NoPiece /\ \A x \in Squares \ {s} : B[x] = board[x]
  BY DEF Boards
<1>2. OnBoard(board[s].color, board[s].type, s) \in BoardKey(board)
  BY BoardKeyElements
<1> HIDE DEF B
<1>3. ASSUME NEW k PROVE k \in BoardKey(B) <=> /\ k \in BoardKey(board)
                                              /\ k # OnBoard(board[s].color, board[s].type, s)
  <2>1. ASSUME k \in BoardKey(B)
        PROVE  k \in BoardKey(board) /\ k # OnBoard(board[s].color, board[s].type, s)
    <3>1. PICK x \in Squares : B[x] # NoPiece /\ k = OnBoard(B[x].color, B[x].type, x)
      BY <2>1, BoardKeyElements
    <3>2. x # s /\ B[x] = board[x]
      BY <1>1, <3>1
    <3> QED BY <3>1, <3>2, Tuples, BoardKeyElements
  <2>2. ASSUME k \in BoardKey(board), k # OnBoard(board[s].color, board[s].type, s)
        PROVE  k \in BoardKey(B)
    <3>1. PICK x \in Squares : board[x] # NoPiece /\ k = OnBoard(board[x].color, board[x].type, x)
      BY <2>2, BoardKeyElements
    <3> QED BY <1>1, <2>2, <3>1, BoardKeyElements
  <2> QED BY <2>1, <2>2
<1> QED BY <1>2, <1>3 DEF B

LEMMA HandKeyAdd ==
    ASSUME NEW hands \in Hands, NEW c \in Colors, NEW t \in HandTypes
    PROVE  /\ HandKey([hands EXCEPT ![c][t] = @ + 1])
                = HandKey(hands) \cup {InHand(c, t, hands[c][t])}
           /\ InHand(c, t, hands[c][t]) \notin HandKey(hands)
           /\ [hands EXCEPT ![c][t] = @ + 1] \in Hands
<1> DEFINE H == [hands EXCEPT ![c][t] = @ + 1]
<1>1. H \in Hands
  BY DEF Hands
<1>2. /\ H[c][t] = hands[c][t] + 1 /\ hands[c][t] \in Nat
      /\ \A d \in Colors, u \in HandTypes : <<d, u>> # <<c, t>> => H[d][u] = hands[d][u]
  BY DEF Hands
<1> HIDE DEF H
<1>3. ASSUME NEW d, NEW u, NEW n
      PROVE  InHand(d, u, n) \in HandKey(H)
                <=> InHand(d, u, n) \in HandKey(hands) \/ (d = c /\ u = t /\ n = hands[c][t])
  <2>1. CASE d = c /\ u = t
    <3>1. n \in 0 .. (hands[c][t] + 1 - 1) <=> n \in 0 .. (hands[c][t] - 1) \/ n = hands[c][t]
      BY <1>2
    <3> QED BY <1>1, <1>2, <2>1, <3>1, InHandKey
  <2>2. CASE ~(d = c /\ u = t)
    BY <1>1, <1>2, <2>2, InHandKey
  <2> QED BY <2>1, <2>2
<1>4. \A x \in HandKey(hands) \cup HandKey(H) : \E d, u, n : x = InHand(d, u, n)
  BY DEF HandKey
<1>5. HandKey(H) = HandKey(hands) \cup {InHand(c, t, hands[c][t])}
  BY <1>3, <1>4, Tuples
<1>6. InHand(c, t, hands[c][t]) \notin HandKey(hands)
  BY <1>2, InHandKey
<1> QED BY <1>1, <1>5, <1>6 DEF H

LEMMA HandKeyRemove ==
    ASSUME NEW hands \in Hands, NEW c \in Colors, NEW t \in HandTypes, hands[c][t] > 0
    PROVE  /\ HandKey([hands EXCEPT ![c][t] = @ - 1])
                = HandKey(hands) \ {InHand(c, t, hands[c][t] - 1)}
           /\ InHand(c, t, hands[c][t] - 1) \in HandKey(hands)
           /\ [hands EXCEPT ![c][t] = @ - 1] \in Hands
<1> DEFINE H == [hands EXCEPT ![c][t] = @ - 1]
<1>0. hands[c][t] \in Nat /\ hands[c][t] - 1 \in Nat
  BY DEF Hands
<1>1. H \in Hands
  BY <1>0 DEF Hands
<1>2. /\ H[c][t] = hands[c][t] - 1
      /\ \A d \in Colors, u \in HandTypes : <<d, u>> # <<c, t>> => H[d][u] = hands[d][u]
  BY DEF Hands
<1> HIDE DEF H
<1>3. H[c][t] + 1 = hands[c][t] /\ [H EXCEPT ![c][t] = @ + 1] = hands
  <2>1. H[c][t] + 1 = hands[c][t]
    BY <1>0, <1>2
  <2> DEFINE G == [H EXCEPT ![c][t] = @ + 1]
  <2>2. \A d \in Colors, u \in HandTypes : G[d][u] = hands[d][u]
    BY <1>1, <1>2, <2>1 DEF Hands
  <2>3. \A d \in Colors : G[d] = hands[d]
    <3>1. \A d \in Colors : /\ G[d] = [u \in HandTypes |-> G[d][u]]
                           /\ hands[d] = [u \in HandTypes |-> hands[d][u]]
      BY <1>1 DEF Hands
    <3> HIDE DEF G
    <3> QED BY <2>2, <3>1
  <2>4. G = [d \in Colors |-> G[d]] /\ hands = [d \in Colors |-> hands[d]]
    BY <1>1 DEF Hands
  <2> HIDE DEF G
  <2>5. G = hands
    BY <2>3, <2>4
  <2> QED BY <2>1, <2>5 DEF G
<1>4. HandKey(hands) = HandKey(H) \cup {InHand(c, t, H[c][t])} /\ InHand(c, t, H[c][t]) \notin HandKey(H)
  BY <1>1, <1>3, HandKeyAdd
<1> QED BY <1>1, <1>2, <1>4 DEF H

-----------------------------------------------------------------------------
(* Each step of a move keeps a position exact. *)

PiecesOf(board) ==
    [color \in Colors |-> [type \in Types |-> {s \in Squares : board[s] = Piece(color, type)}]]
OwnOf(board) == [color \in Colors |-> {s \in Squares : board[s].color = color}]
KingsAgree(board, king) ==
    \A color \in Colors : \A s \in Squares : board[s] = Piece(color, "King") <=> king[color] = s

LEMMA ExactIs ==
    ASSUME NEW P
    PROVE  Exact(P) <=> /\ P.board \in Boards /\ P.hands \in Hands
                        /\ P.pieces = PiecesOf(P.board) /\ P.own = OwnOf(P.board)
                        /\ P.occupied = {s \in Squares : P.board[s] # NoPiece}
                        /\ P.king \in [Colors -> Squares \cup {NoSquare}]
                        /\ KingsAgree(P.board, P.king)
                        /\ P.side \in Colors /\ P.ply \in Int
                        /\ P.key = BoardKey(P.board) \cup HandKey(P.hands) \cup SideKey(P.side)
BY DEF Exact, Boards, Hands, PieceSet, PiecesOf, OwnOf, KingsAgree

BoardGrew(board, B, s, c, t) ==
    /\ B \in Boards
    /\ PiecesOf(B) = [PiecesOf(board) EXCEPT ![c][t] = @ \cup {s}]
    /\ OwnOf(B) = [OwnOf(board) EXCEPT ![c] = @ \cup {s}]
    /\ {x \in Squares : B[x] # NoPiece} = {x \in Squares : board[x] # NoPiece} \cup {s}

LEMMA BoardAfterAdd ==
    ASSUME NEW board \in Boards, NEW s \in Squares, board[s] = NoPiece,
           NEW c \in Colors, NEW t \in Types, NEW B, B = [board EXCEPT ![s] = Piece(c, t)]
    PROVE  BoardGrew(board, B, s, c, t)
<1>1. B \in Boards
  BY PieceFacts DEF Boards
<1>2. B[s] = Piece(c, t) /\ \A x \in Squares \ {s} : B[x] = board[x]
  BY DEF Boards
<1>3. ASSUME NEW d \in Colors, NEW u \in Types
      PROVE  PiecesOf(B)[d][u] = [PiecesOf(board) EXCEPT ![c][t] = @ \cup {s}][d][u]
  <2>1. PiecesOf(B)[d][u] = {x \in Squares : B[x] = Piece(d, u)}
    BY DEF PiecesOf
  <2>2. PiecesOf(board)[d][u] = {x \in Squares : board[x] = Piece(d, u)}
    BY DEF PiecesOf
  <2>3. [PiecesOf(board) EXCEPT ![c][t] = @ \cup {s}][d][u]
          = IF d = c /\ u = t THEN PiecesOf(board)[d][u] \cup {s} ELSE PiecesOf(board)[d][u]
    BY DEF PiecesOf
  <2>4. Piece(d, u) = Piece(c, t) <=> d = c /\ u = t
    BY DEF Piece
  <2>5. board[s] # Piece(d, u)
    BY PieceFacts
  <2>6. {x \in Squares : B[x] = Piece(d, u)}
          = IF d = c /\ u = t THEN {x \in Squares : board[x] = Piece(d, u)} \cup {s}
            ELSE {x \in Squares : board[x] = Piece(d, u)}
    <3>1. CASE d = c /\ u = t
      BY <1>2, <3>1
    <3>2. CASE ~(d = c /\ u = t)
      BY <1>2, <2>4, <2>5, <3>2
    <3> QED BY <3>1, <3>2
  <2> QED BY <2>1, <2>2, <2>3, <2>6
<1>4. PiecesOf(B) = [PiecesOf(board) EXCEPT ![c][t] = @ \cup {s}]
  <2> DEFINE F == [PiecesOf(board) EXCEPT ![c][t] = @ \cup {s}]
  <2>1. \A d \in Colors : /\ PiecesOf(B)[d] = [u \in Types |-> PiecesOf(B)[d][u]]
                          /\ F[d] = [u \in Types |-> F[d][u]]
    BY DEF PiecesOf
  <2>2. PiecesOf(B) = [d \in Colors |-> PiecesOf(B)[d]] /\ F = [d \in Colors |-> F[d]]
    BY DEF PiecesOf
  <2>3. \A d \in Colors, u \in Types : PiecesOf(B)[d][u] = F[d][u]
    BY <1>3
  <2> HIDE DEF F
  <2>4. \A d \in Colors : PiecesOf(B)[d] = F[d]
    BY <2>1, <2>3
  <2>5. PiecesOf(B) = F
    BY <2>2, <2>4
  <2> QED BY <2>5 DEF F
<1>5. OwnOf(B) = [OwnOf(board) EXCEPT ![c] = @ \cup {s}]
  <2>1. ASSUME NEW d \in Colors
        PROVE  OwnOf(B)[d] = [OwnOf(board) EXCEPT ![c] = @ \cup {s}][d]
    <3>1. B[s].color = c /\ board[s].color # d
      BY <1>2, PieceFacts
    <3> QED BY <1>2, <3>1 DEF OwnOf
  <2> QED BY <2>1 DEF OwnOf
<1>6. {x \in Squares : B[x] # NoPiece} = {x \in Squares : board[x] # NoPiece} \cup {s}
  BY <1>2, PieceFacts
<1> QED BY <1>1, <1>4, <1>5, <1>6 DEF BoardGrew

LEMMA AddPieceExact ==
    ASSUME NEW P, Shape(P), Exact(P), NEW s \in Squares, P.board[s] = NoPiece,
           NEW c \in Colors, NEW t \in Types, t = "King" => P.king[c] = NoSquare
    PROVE  Shape(AddPiece(P, s, c, t)) /\ Exact(AddPiece(P, s, c, t))
<1> DEFINE Q == AddPiece(P, s, c, t)
<1>1. /\ Shape(Q)
      /\ Q.board = [P.board EXCEPT ![s] = Piece(c, t)]
      /\ Q.hands = P.hands /\ Q.side = P.side /\ Q.ply = P.ply
      /\ Q.pieces = [P.pieces EXCEPT ![c][t] = @ \cup {s}]
      /\ Q.own = [P.own EXCEPT ![c] = @ \cup {s}]
      /\ Q.occupied = P.occupied \cup {s}
      /\ Q.king = [P.king EXCEPT ![c] = IF t = "King" THEN s ELSE @]
      /\ Q.key = Xor(P.key, OnBoard(c, t, s))
  <2>1. PieceAdded(P, Q, s, c, t)
    BY ONLY Shape(P), AddPieceFields
  <2> QED BY <2>1 DEF PieceAdded
<1> HIDE DEF Q
<1>2. /\ P.board \in Boards /\ P.hands \in Hands
      /\ P.pieces = PiecesOf(P.board) /\ P.own = OwnOf(P.board)
      /\ P.occupied = {x \in Squares : P.board[x] # NoPiece}
      /\ P.king \in [Colors -> Squares \cup {NoSquare}]
      /\ KingsAgree(P.board, P.king)
      /\ P.side \in Colors /\ P.ply \in Int
      /\ P.key = BoardKey(P.board) \cup HandKey(P.hands) \cup SideKey(P.side)
  BY ExactIs
<1>3. /\ Q.board \in Boards /\ Q.pieces = PiecesOf(Q.board) /\ Q.own = OwnOf(Q.board)
      /\ Q.occupied = {x \in Squares : Q.board[x] # NoPiece}
  <2>1. Q.board = [P.board EXCEPT ![s] = Piece(c, t)] /\ P.board \in Boards
    BY <1>1, <1>2
  <2>2. /\ Q.board \in Boards
        /\ PiecesOf(Q.board) = [PiecesOf(P.board) EXCEPT ![c][t] = @ \cup {s}]
        /\ OwnOf(Q.board) = [OwnOf(P.board) EXCEPT ![c] = @ \cup {s}]
        /\ {x \in Squares : Q.board[x] # NoPiece} = {x \in Squares : P.board[x] # NoPiece} \cup {s}
    <3>1. BoardGrew(P.board, Q.board, s, c, t)
      BY ONLY <2>1, P.board[s] = NoPiece, s \in Squares, c \in Colors, t \in Types, BoardAfterAdd
    <3> QED BY <3>1 DEF BoardGrew
  <2> QED BY <1>1, <1>2, <2>2
<1>4. Q.king \in [Colors -> Squares \cup {NoSquare}]
  BY <1>1, <1>2
<1>5. KingsAgree(Q.board, Q.king)
  <2>1. ASSUME NEW d \in Colors, NEW x \in Squares
        PROVE  Q.board[x] = Piece(d, "King") <=> Q.king[d] = x
    <3>1. P.board[x] = Piece(d, "King") <=> P.king[d] = x
      BY <1>2 DEF KingsAgree
    <3>2. /\ Q.board[s] = Piece(c, t) /\ (x # s => Q.board[x] = P.board[x])
          /\ Q.king[d] = IF d = c /\ t = "King" THEN s ELSE P.king[d]
      BY <1>1, <1>2 DEF Boards
    <3>3. Piece(c, t) = Piece(d, "King") <=> d = c /\ t = "King"
      BY DEF Piece
    <3>4. P.board[s] # Piece(d, "King")
      BY PieceFacts
    <3>5. x # NoSquare
      BY PieceFacts
    <3> QED BY <3>1, <3>2, <3>3, <3>4, <3>5
  <2> QED BY <2>1 DEF KingsAgree
<1>6. Q.key = BoardKey(Q.board) \cup HandKey(Q.hands) \cup SideKey(Q.side)
  <2>1. BoardKey(Q.board) = BoardKey(P.board) \cup {OnBoard(c, t, s)}
    BY <1>1, <1>2, BoardKeyAdd
  <2>2. P.board[s] # Piece(c, t)
    BY PieceFacts
  <2>3. OnBoard(c, t, s) \notin P.key
    <3>1. OnBoard(c, t, s) \notin BoardKey(P.board)
      BY <1>2, <2>2, InBoardKey
    <3>2. OnBoard(c, t, s) \notin HandKey(P.hands) \cup SideKey(P.side)
      BY KeysApart
    <3> QED BY <1>2, <3>1, <3>2
  <2> QED BY <1>1, <1>2, <2>1, <2>3 DEF Xor
<1>7. Exact(Q)
  BY <1>1, <1>2, <1>3, <1>4, <1>5, <1>6, ExactIs
<1> QED BY <1>1, <1>7 DEF Q

BoardShrank(board, B, s, c, t) ==
    /\ B \in Boards
    /\ PiecesOf(B) = [PiecesOf(board) EXCEPT ![c][t] = @ \ {s}]
    /\ OwnOf(B) = [OwnOf(board) EXCEPT ![c] = @ \ {s}]
    /\ {x \in Squares : B[x] # NoPiece} = {x \in Squares : board[x] # NoPiece} \ {s}

LEMMA BoardAfterRemove ==
    ASSUME NEW board \in Boards, NEW s \in Squares, NEW c \in Colors, NEW t \in Types,
           board[s] = Piece(c, t), NEW B, B = [board EXCEPT ![s] = NoPiece]
    PROVE  BoardShrank(board, B, s, c, t)
<1>1. B \in Boards
  BY PieceFacts DEF Boards
<1>2. B[s] = NoPiece /\ \A x \in Squares \ {s} : B[x] = board[x]
  BY DEF Boards
<1>3. ASSUME NEW d \in Colors, NEW u \in Types
      PROVE  PiecesOf(B)[d][u] = [PiecesOf(board) EXCEPT ![c][t] = @ \ {s}][d][u]
  <2>1. PiecesOf(B)[d][u] = {x \in Squares : B[x] = Piece(d, u)}
    BY DEF PiecesOf
  <2>2. PiecesOf(board)[d][u] = {x \in Squares : board[x] = Piece(d, u)}
    BY DEF PiecesOf
  <2>3. [PiecesOf(board) EXCEPT ![c][t] = @ \ {s}][d][u]
          = IF d = c /\ u = t THEN PiecesOf(board)[d][u] \ {s} ELSE PiecesOf(board)[d][u]
    BY DEF PiecesOf
  <2>4. Piece(d, u) = Piece(c, t) <=> d = c /\ u = t
    BY DEF Piece
  <2>5. NoPiece # Piece(d, u)
    BY PieceFacts
  <2> QED BY <1>2, <2>1, <2>2, <2>3, <2>4, <2>5
<1>4. PiecesOf(B) = [PiecesOf(board) EXCEPT ![c][t] = @ \ {s}]
  <2> DEFINE F == [PiecesOf(board) EXCEPT ![c][t] = @ \ {s}]
  <2>1. \A d \in Colors : /\ PiecesOf(B)[d] = [u \in Types |-> PiecesOf(B)[d][u]]
                          /\ F[d] = [u \in Types |-> F[d][u]]
    BY DEF PiecesOf
  <2>2. PiecesOf(B) = [d \in Colors |-> PiecesOf(B)[d]] /\ F = [d \in Colors |-> F[d]]
    BY DEF PiecesOf
  <2>3. \A d \in Colors, u \in Types : PiecesOf(B)[d][u] = F[d][u]
    BY <1>3
  <2> HIDE DEF F
  <2>4. \A d \in Colors : PiecesOf(B)[d] = F[d]
    BY <2>1, <2>3
  <2>5. PiecesOf(B) = F
    BY <2>2, <2>4
  <2> QED BY <2>5 DEF F
<1>5. OwnOf(B) = [OwnOf(board) EXCEPT ![c] = @ \ {s}]
  <2>1. ASSUME NEW d \in Colors
        PROVE  OwnOf(B)[d] = [OwnOf(board) EXCEPT ![c] = @ \ {s}][d]
    <3>1. board[s].color = c /\ B[s].color # d
      BY <1>2, PieceFacts
    <3> QED BY <1>2, <3>1 DEF OwnOf
  <2> QED BY <2>1 DEF OwnOf
<1>6. {x \in Squares : B[x] # NoPiece} = {x \in Squares : board[x] # NoPiece} \ {s}
  BY <1>2, PieceFacts
<1> QED BY <1>1, <1>4, <1>5, <1>6 DEF BoardShrank

LEMMA RemovePieceExact ==
    ASSUME NEW P, Shape(P), Exact(P), NEW s \in Squares, P.board[s] # NoPiece
    PROVE  /\ Shape(RemovePiece(P, s)) /\ Exact(RemovePiece(P, s))
<1> DEFINE Q == RemovePiece(P, s)
           c == P.board[s].color
           t == P.board[s].type
<1>1. /\ Shape(Q)
      /\ Q.board = [P.board EXCEPT ![s] = NoPiece]
      /\ Q.hands = P.hands /\ Q.side = P.side /\ Q.ply = P.ply
      /\ Q.pieces = [P.pieces EXCEPT ![c][t] = @ \ {s}]
      /\ Q.own = [P.own EXCEPT ![c] = @ \ {s}]
      /\ Q.occupied = P.occupied \ {s}
      /\ Q.king = [P.king EXCEPT ![c] = IF t = "King" THEN NoSquare ELSE @]
      /\ Q.key = Xor(P.key, OnBoard(c, t, s))
  <2>1. PieceRemoved(P, Q, s)
    BY ONLY Shape(P), P.board[s] # NoPiece, RemovePieceFields
  <2> QED BY <2>1 DEF PieceRemoved
<1>2. /\ P.board \in Boards /\ P.hands \in Hands
      /\ P.pieces = PiecesOf(P.board) /\ P.own = OwnOf(P.board)
      /\ P.occupied = {x \in Squares : P.board[x] # NoPiece}
      /\ P.king \in [Colors -> Squares \cup {NoSquare}]
      /\ KingsAgree(P.board, P.king)
      /\ P.side \in Colors /\ P.ply \in Int
      /\ P.key = BoardKey(P.board) \cup HandKey(P.hands) \cup SideKey(P.side)
  BY ExactIs
<1>3. c \in Colors /\ t \in Types /\ P.board[s] = Piece(c, t)
  <2>1. P.board[s] \in PieceSet
    BY <1>2 DEF Boards
  <2> QED BY <2>1, PieceFacts
<1> HIDE DEF Q, c, t
<1>4. /\ Q.board \in Boards /\ Q.pieces = PiecesOf(Q.board) /\ Q.own = OwnOf(Q.board)
      /\ Q.occupied = {x \in Squares : Q.board[x] # NoPiece}
  <2>1. Q.board = [P.board EXCEPT ![s] = NoPiece] /\ P.board \in Boards
    BY <1>1, <1>2
  <2>2. /\ Q.board \in Boards
        /\ PiecesOf(Q.board) = [PiecesOf(P.board) EXCEPT ![c][t] = @ \ {s}]
        /\ OwnOf(Q.board) = [OwnOf(P.board) EXCEPT ![c] = @ \ {s}]
        /\ {x \in Squares : Q.board[x] # NoPiece} = {x \in Squares : P.board[x] # NoPiece} \ {s}
    <3>1. BoardShrank(P.board, Q.board, s, c, t)
      BY ONLY <1>3, <2>1, s \in Squares, BoardAfterRemove
    <3> QED BY <3>1 DEF BoardShrank
  <2> QED BY <1>1, <1>2, <2>2
<1>5. Q.king \in [Colors -> Squares \cup {NoSquare}]
  BY <1>1, <1>2
<1>6. KingsAgree(Q.board, Q.king)
  <2>1. ASSUME NEW d \in Colors, NEW x \in Squares
        PROVE  Q.board[x] = Piece(d, "King") <=> Q.king[d] = x
    <3>1. /\ P.board[x] = Piece(d, "King") <=> P.king[d] = x
          /\ P.board[s] = Piece(d, "King") <=> P.king[d] = s
      BY <1>2 DEF KingsAgree
    <3>2. /\ Q.board[s] = NoPiece /\ (x # s => Q.board[x] = P.board[x])
          /\ Q.king[d] = IF d = c /\ t = "King" THEN NoSquare ELSE P.king[d]
      BY <1>1, <1>2 DEF Boards
    <3>3. Piece(c, t) = Piece(d, "King") <=> d = c /\ t = "King"
      BY DEF Piece
    <3>4. NoPiece # Piece(d, "King") /\ x # NoSquare
      BY PieceFacts
    <3> QED BY <1>3, <3>1, <3>2, <3>3, <3>4
  <2> QED BY <2>1 DEF KingsAgree
<1>7. Q.key = BoardKey(Q.board) \cup HandKey(Q.hands) \cup SideKey(Q.side)
  <2>1. /\ BoardKey(Q.board) = BoardKey(P.board) \ {OnBoard(c, t, s)}
        /\ OnBoard(c, t, s) \in BoardKey(P.board)
    <3>1. P.board \in Boards /\ Q.board = [P.board EXCEPT ![s] = NoPiece]
      BY <1>1, <1>2
    <3>2. /\ BoardKey([P.board EXCEPT ![s] = NoPiece])
                = BoardKey(P.board) \ {OnBoard(P.board[s].color, P.board[s].type, s)}
          /\ OnBoard(P.board[s].color, P.board[s].type, s) \in BoardKey(P.board)
      BY ONLY <3>1, P.board[s] # NoPiece, s \in Squares, BoardKeyRemove
    <3> QED BY <3>1, <3>2 DEF c, t
  <2>2. OnBoard(c, t, s) \notin HandKey(P.hands) \cup SideKey(P.side)
    BY KeysApart
  <2> QED BY <1>1, <1>2, <2>1, <2>2 DEF Xor
<1>8. Exact(Q)
  BY <1>1, <1>2, <1>4, <1>5, <1>6, <1>7, ExactIs
<1> QED BY <1>1, <1>8 DEF Q

LEMMA AddHandExact ==
    ASSUME NEW P, Shape(P), Exact(P), NEW c \in Colors, NEW t \in HandTypes
    PROVE  Shape(AddHandPiece(P, c, t)) /\ Exact(AddHandPiece(P, c, t))
<1> DEFINE Q == AddHandPiece(P, c, t)
           feature == InHand(c, t, P.hands[c][t])
<1>1. /\ Shape(Q)
      /\ Q.board = P.board /\ Q.side = P.side /\ Q.ply = P.ply /\ Q.pieces = P.pieces
      /\ Q.own = P.own /\ Q.occupied = P.occupied /\ Q.king = P.king
      /\ Q.hands = [P.hands EXCEPT ![c][t] = @ + 1]
      /\ Q.key = Xor(P.key, feature)
  <2>1. HandAdded(P, Q, c, t)
    BY ONLY Shape(P), AddHandFields
  <2> QED BY <2>1 DEF HandAdded
<1> HIDE DEF Q
<1>2. /\ P.hands \in Hands
      /\ P.key = BoardKey(P.board) \cup HandKey(P.hands) \cup SideKey(P.side)
  BY ExactIs
<1>3. /\ HandKey(Q.hands) = HandKey(P.hands) \cup {feature} /\ feature \notin HandKey(P.hands)
      /\ Q.hands \in Hands
  BY <1>1, <1>2, HandKeyAdd
<1>4. feature \notin P.key
  BY <1>2, <1>3, KeysApart
<1>5. Q.key = BoardKey(Q.board) \cup HandKey(Q.hands) \cup SideKey(Q.side)
  BY <1>1, <1>2, <1>3, <1>4 DEF Xor
<1>6. Exact(Q)
  BY <1>1, <1>3, <1>5, ExactIs
<1> QED BY <1>1, <1>6 DEF Q

LEMMA RemoveHandExact ==
    ASSUME NEW P, Shape(P), Exact(P), NEW c \in Colors, NEW t \in HandTypes, P.hands[c][t] > 0
    PROVE  Shape(RemoveHandPiece(P, c, t)) /\ Exact(RemoveHandPiece(P, c, t))
<1> DEFINE Q == RemoveHandPiece(P, c, t)
           feature == InHand(c, t, P.hands[c][t] - 1)
<1>1. /\ Shape(Q)
      /\ Q.board = P.board /\ Q.side = P.side /\ Q.ply = P.ply /\ Q.pieces = P.pieces
      /\ Q.own = P.own /\ Q.occupied = P.occupied /\ Q.king = P.king
      /\ Q.hands = [P.hands EXCEPT ![c][t] = @ - 1]
      /\ Q.key = Xor(P.key, feature)
  <2>1. HandRemoved(P, Q, c, t)
    BY ONLY Shape(P), RemoveHandFields
  <2> QED BY <2>1 DEF HandRemoved
<1> HIDE DEF Q
<1>2. /\ P.hands \in Hands
      /\ P.key = BoardKey(P.board) \cup HandKey(P.hands) \cup SideKey(P.side)
  BY ExactIs
<1>3. /\ HandKey(Q.hands) = HandKey(P.hands) \ {feature} /\ feature \in HandKey(P.hands)
      /\ Q.hands \in Hands
  BY <1>1, <1>2, HandKeyRemove
<1>4. feature \in P.key /\ feature \notin BoardKey(P.board) \cup SideKey(P.side)
  BY <1>2, <1>3, KeysApart
<1>5. Q.key = BoardKey(Q.board) \cup HandKey(Q.hands) \cup SideKey(Q.side)
  BY <1>1, <1>2, <1>3, <1>4 DEF Xor
<1>6. Exact(Q)
  BY <1>1, <1>3, <1>5, ExactIs
<1> QED BY <1>1, <1>6 DEF Q

LEMMA PassExact ==
    ASSUME NEW P, Shape(P), Exact(P), NEW n \in Int
    PROVE  /\ Shape(PassTurn([P EXCEPT !.ply = @ + n]))
           /\ Exact(PassTurn([P EXCEPT !.ply = @ + n]))
<1> DEFINE Q == PassTurn([P EXCEPT !.ply = @ + n])
<1>1. /\ Shape(Q)
      /\ Q.board = P.board /\ Q.hands = P.hands /\ Q.pieces = P.pieces /\ Q.own = P.own
      /\ Q.occupied = P.occupied /\ Q.king = P.king
      /\ Q.side = Opposite(P.side) /\ Q.ply = P.ply + n
      /\ Q.key = Xor(P.key, WhiteToMove)
  <2>1. TurnPassed(P, Q, n)
    BY ONLY Shape(P), PassFields
  <2> QED BY <2>1 DEF TurnPassed
<1> HIDE DEF Q
<1>2. /\ P.side \in Colors /\ P.ply \in Int
      /\ P.key = BoardKey(P.board) \cup HandKey(P.hands) \cup SideKey(P.side)
  BY ExactIs
<1>3. WhiteToMove \notin BoardKey(P.board) \cup HandKey(P.hands)
  BY KeysApart
<1>4. Q.side \in Colors /\ Q.ply \in Int
  BY <1>1, <1>2 DEF Opposite, Colors
<1>5. Q.key = BoardKey(Q.board) \cup HandKey(Q.hands) \cup SideKey(Q.side)
  BY <1>1, <1>2, <1>3 DEF Xor, SideKey, Opposite, Colors
<1>6. Exact(Q)
  BY <1>1, <1>4, <1>5, ExactIs
<1> QED BY <1>1, <1>6 DEF Q

-----------------------------------------------------------------------------
(* Moves. *)

(* An exact position has no other state than its board, hands, side and ply. *)
LEMMA Determined ==
    ASSUME NEW P, NEW Q, Shape(P), Exact(P), Shape(Q), Exact(Q),
           P.board = Q.board, P.hands = Q.hands, P.side = Q.side, P.ply = Q.ply
    PROVE  P = Q
<1>1. /\ P.pieces = Q.pieces /\ P.own = Q.own /\ P.occupied = Q.occupied /\ P.key = Q.key
  BY ExactIs
<1>2. /\ P.king \in [Colors -> Squares \cup {NoSquare}] /\ KingsAgree(P.board, P.king)
      /\ Q.king \in [Colors -> Squares \cup {NoSquare}] /\ KingsAgree(P.board, Q.king)
  BY ExactIs
<1>3. ASSUME NEW c \in Colors PROVE P.king[c] = Q.king[c]
  <2>1. \A s \in Squares : P.king[c] = s <=> Q.king[c] = s
    BY <1>2 DEF KingsAgree
  <2> QED BY <1>2, <2>1
<1>4. P.king = Q.king
  BY <1>2, <1>3
<1> QED BY <1>1, <1>4, SameShape

LEMMA PromotionFacts ==
    /\ \A t \in Types \ {"King"} : Unpromote(t) \in HandTypes
    /\ \A t \in Types : Promote(t) \in Types /\ (Promote(t) = "King" <=> t = "King")
    /\ \A t \in Types : CanPromote(t) => Unpromote(Promote(t)) = t
<1>1. \A t \in DOMAIN PromotedForm :
          PromotedForm[t] \in Types \ (HandTypes \cup {"King"}) /\ t \in HandTypes
  BY DEF PromotedForm, Types, HandTypes, Golds
<1>2. \A t \in Types \ {"King"} : t \in HandTypes \/ \E u \in DOMAIN PromotedForm : PromotedForm[u] = t
  BY DEF PromotedForm, Types, HandTypes, Golds
<1>3. ASSUME NEW t \in Types \ {"King"} PROVE Unpromote(t) \in HandTypes
  <2>1. CASE \E u \in DOMAIN PromotedForm : PromotedForm[u] = t
    <3>1. Unpromote(t) \in DOMAIN PromotedForm
      BY <2>1 DEF Unpromote
    <3> QED BY <1>1, <3>1
  <2>2. CASE ~\E u \in DOMAIN PromotedForm : PromotedForm[u] = t
    BY <1>2, <2>2 DEF Unpromote
  <2> QED BY <2>1, <2>2
<1>4. ASSUME NEW t \in Types PROVE Promote(t) \in Types /\ (Promote(t) = "King" <=> t = "King")
  <2>1. "King" \notin DOMAIN PromotedForm
    BY DEF PromotedForm
  <2> QED BY <1>1, <2>1 DEF Promote, CanPromote
<1>5. ASSUME NEW t \in Types, CanPromote(t) PROVE Unpromote(Promote(t)) = t
  <2>1. t \in DOMAIN PromotedForm /\ Promote(t) = PromotedForm[t]
    BY <1>5 DEF CanPromote, Promote
  <2>2. /\ Unpromote(PromotedForm[t]) \in DOMAIN PromotedForm
        /\ PromotedForm[Unpromote(PromotedForm[t])] = PromotedForm[t]
    BY <2>1 DEF Unpromote
  <2> QED BY <2>1, <2>2, Injective
<1> QED BY <1>3, <1>4, <1>5

(* What make_move asks of a move, and checks only in part. *)
Fits(P, m) ==
    /\ m.to \in Squares
    /\ IF m.drop
       THEN /\ m.piece \in HandTypes /\ P.hands[P.side][m.piece] > 0
            /\ P.board[m.to] = NoPiece
       ELSE /\ m.from \in Squares /\ P.board[m.from].color = P.side
            /\ P.board[m.to].color # P.side /\ P.board[m.to].type # "King"
            /\ m.promote => CanPromote(P.board[m.from].type)

LEMMA MakeDrop ==
    ASSUME NEW P, Shape(P), Exact(P), NEW m, Fits(P, m), m.drop
    PROVE  LET Q == MakeMove(P, m)
           IN /\ Shape(Q) /\ Exact(Q) /\ Q.side = Opposite(P.side) /\ Q.ply = P.ply + 1
              /\ Q.board = [P.board EXCEPT ![m.to] = Piece(P.side, m.piece)]
              /\ Q.hands = [P.hands EXCEPT ![P.side][m.piece] = @ - 1]
<1> DEFINE A == AddPiece(P, m.to, P.side, m.piece)
           B == RemoveHandPiece(A, P.side, m.piece)
           Q == PassTurn([B EXCEPT !.ply = @ + 1])
<1>1. MakeMove(P, m) = Q
  BY DEF MakeMove
<1>2. /\ m.to \in Squares /\ m.piece \in HandTypes /\ P.hands[P.side][m.piece] > 0
      /\ P.board[m.to] = NoPiece
  BY DEF Fits
<1>3. P.side \in Colors /\ m.piece \in Types /\ m.piece # "King"
  BY <1>2, ExactIs, PieceFacts
<1>4. Shape(A) /\ Exact(A)
  BY <1>2, <1>3, AddPieceExact
<1>5. /\ A.board = [P.board EXCEPT ![m.to] = Piece(P.side, m.piece)]
      /\ A.hands = P.hands /\ A.side = P.side /\ A.ply = P.ply
  <2>1. PieceAdded(P, A, m.to, P.side, m.piece)
    BY ONLY Shape(P), AddPieceFields
  <2> QED BY <2>1 DEF PieceAdded
<1> HIDE DEF A
<1>6. Shape(B) /\ Exact(B)
  BY <1>2, <1>3, <1>4, <1>5, RemoveHandExact
<1>7. /\ B.board = A.board /\ B.side = A.side /\ B.ply = A.ply
      /\ B.hands = [A.hands EXCEPT ![P.side][m.piece] = @ - 1]
  <2>1. HandRemoved(A, B, P.side, m.piece)
    BY ONLY <1>4, RemoveHandFields
  <2> QED BY <2>1 DEF HandRemoved
<1> HIDE DEF B
<1>8. Shape(Q) /\ Exact(Q)
  BY ONLY <1>6, 1 \in Int, PassExact
<1>9. Q.board = B.board /\ Q.hands = B.hands /\ Q.side = Opposite(B.side) /\ Q.ply = B.ply + 1
  <2>1. TurnPassed(B, Q, 1)
    BY ONLY <1>6, PassFields
  <2> QED BY <2>1 DEF TurnPassed
<1> HIDE DEF Q
<1> QED BY <1>1, <1>5, <1>7, <1>8, <1>9

(* The square the move goes to, when a piece that stood there was taken. *)
LEMMA MakeClear ==
    ASSUME NEW P, Shape(P), Exact(P), NEW s \in Squares, P.board[s].type # "King"
    PROVE  LET taken == P.board[s]
               Q == IF taken = NoPiece THEN P
                    ELSE RemovePiece(AddHandPiece(P, P.side, Unpromote(taken.type)), s)
           IN /\ Shape(Q) /\ Exact(Q) /\ Q.side = P.side /\ Q.ply = P.ply
              /\ Q.board = [P.board EXCEPT ![s] = NoPiece]
              /\ Q.hands = IF taken = NoPiece THEN P.hands
                           ELSE [P.hands EXCEPT ![P.side][Unpromote(taken.type)] = @ + 1]
<1> DEFINE taken == P.board[s]
           A == AddHandPiece(P, P.side, Unpromote(taken.type))
           B == RemovePiece(A, s)
<1>1. P.side \in Colors /\ P.board \in Boards
  BY ExactIs
<1>2. CASE taken = NoPiece
  <2>1. P.board = [P.board EXCEPT ![s] = NoPiece]
    BY <1>1, <1>2 DEF Boards
  <2> QED BY <1>2, <2>1
<1>3. CASE taken # NoPiece
  <2>1. taken.type \in Types \ {"King"}
    BY <1>1, <1>3, PieceFacts DEF Boards
  <2>2. Unpromote(taken.type) \in HandTypes
    BY <2>1, PromotionFacts
  <2>3. Shape(A) /\ Exact(A)
    BY <1>1, <2>2, AddHandExact
  <2>4. /\ A.board = P.board /\ A.side = P.side /\ A.ply = P.ply
        /\ A.hands = [P.hands EXCEPT ![P.side][Unpromote(taken.type)] = @ + 1]
    <3>1. HandAdded(P, A, P.side, Unpromote(taken.type))
      BY ONLY Shape(P), AddHandFields
    <3> QED BY <3>1 DEF HandAdded
  <2> HIDE DEF A
  <2>5. Shape(B) /\ Exact(B)
    BY <1>3, <2>3, <2>4, RemovePieceExact
  <2>6. A.board[s] # NoPiece
    BY <1>3, <2>4
  <2>7. /\ B.board = [A.board EXCEPT ![s] = NoPiece]
        /\ B.hands = A.hands /\ B.side = A.side /\ B.ply = A.ply
    <3>1. PieceRemoved(A, B, s)
      BY ONLY <2>3, <2>6, RemovePieceFields
    <3> QED BY <3>1 DEF PieceRemoved
  <2> HIDE DEF B
  <2> QED BY <1>3, <2>4, <2>5, <2>7 DEF A, B
<1> QED BY <1>2, <1>3

(* A piece that goes from one square to another, empty one. *)
Relocated(P, Q, from, to, c, u) ==
    /\ Shape(Q) /\ Exact(Q) /\ Q.side = P.side /\ Q.ply = P.ply /\ Q.hands = P.hands
    /\ Q.board = [P.board EXCEPT ![from] = NoPiece, ![to] = Piece(c, u)]

LEMMA Relocate ==
    ASSUME NEW P, Shape(P), Exact(P), NEW from \in Squares, NEW to \in Squares, from # to,
           NEW c \in Colors, NEW t \in Types, NEW u \in Types,
           P.board[from] = Piece(c, t), P.board[to] = NoPiece, t = "King" <=> u = "King"
    PROVE  Relocated(P, AddPiece(RemovePiece(P, from), to, c, u), from, to, c, u)
<1> DEFINE A == RemovePiece(P, from)
           Q == AddPiece(A, to, c, u)
<1>1. P.board \in Boards /\ P.king \in [Colors -> Squares \cup {NoSquare}]
  BY ExactIs
<1>2. P.board[from] # NoPiece /\ P.board[from].color = c /\ P.board[from].type = t
  BY PieceFacts
<1>3. Shape(A) /\ Exact(A)
  BY <1>2, RemovePieceExact
<1>4. /\ A.board = [P.board EXCEPT ![from] = NoPiece]
      /\ A.hands = P.hands /\ A.side = P.side /\ A.ply = P.ply
      /\ A.king = [P.king EXCEPT ![P.board[from].color] =
                                       IF P.board[from].type = "King" THEN NoSquare ELSE @]
  <2>1. PieceRemoved(P, A, from)
    BY ONLY Shape(P), <1>2, RemovePieceFields
  <2> QED BY <2>1 DEF PieceRemoved
<1> HIDE DEF A
<1>5. A.board[to] = NoPiece /\ (u = "King" => A.king[c] = NoSquare)
  BY <1>1, <1>2, <1>4 DEF Boards
<1>6. Shape(Q) /\ Exact(Q)
  BY <1>3, <1>5, AddPieceExact
<1>7. /\ Q.board = [A.board EXCEPT ![to] = Piece(c, u)]
      /\ Q.hands = A.hands /\ Q.side = A.side /\ Q.ply = A.ply
  <2>1. PieceAdded(A, Q, to, c, u)
    BY ONLY <1>3, AddPieceFields
  <2> QED BY <2>1 DEF PieceAdded
<1> HIDE DEF Q
<1>8. Q.board = [P.board EXCEPT ![from] = NoPiece, ![to] = Piece(c, u)]
  BY <1>4, <1>7
<1> QED BY <1>4, <1>6, <1>7, <1>8 DEF A, Q, Relocated

Landing(P, m) == IF m.promote THEN Promote(P.board[m.from].type) ELSE P.board[m.from].type

LEMMA MakeBoardMove ==
    ASSUME NEW P, Shape(P), Exact(P), NEW m, Fits(P, m), ~m.drop
    PROVE  LET Q == MakeMove(P, m)
               taken == P.board[m.to]
           IN /\ Shape(Q) /\ Exact(Q) /\ Q.side = Opposite(P.side) /\ Q.ply = P.ply + 1
              /\ Q.board = [P.board EXCEPT ![m.from] = NoPiece,
                                           ![m.to] = Piece(P.side, Landing(P, m))]
              /\ Q.hands = IF taken = NoPiece THEN P.hands
                           ELSE [P.hands EXCEPT ![P.side][Unpromote(taken.type)] = @ + 1]
<1> DEFINE taken == P.board[m.to]
           A == IF taken = NoPiece THEN P
                ELSE RemovePiece(AddHandPiece(P, P.side, Unpromote(taken.type)), m.to)
           B == AddPiece(RemovePiece(A, m.from), m.to, P.side, Landing(P, m))
           Q == PassTurn([B EXCEPT !.ply = @ + 1])
<1>1. MakeMove(P, m) = Q
  BY DEF MakeMove, Captured, Landing
<1>2. /\ m.to \in Squares /\ m.from \in Squares /\ P.board[m.from].color = P.side
      /\ P.board[m.to].color # P.side /\ P.board[m.to].type # "King"
  BY DEF Fits
<1>3. P.side \in Colors /\ P.board \in Boards
  BY ExactIs
<1>4. m.from # m.to
  BY <1>2
<1>5. P.board[m.from] = Piece(P.side, P.board[m.from].type) /\ P.board[m.from].type \in Types
  BY <1>2, <1>3, PieceFacts DEF Boards
<1>6. Landing(P, m) \in Types /\ (P.board[m.from].type = "King" <=> Landing(P, m) = "King")
  BY <1>5, PromotionFacts DEF Landing
<1>7. /\ Shape(A) /\ Exact(A) /\ A.side = P.side /\ A.ply = P.ply
      /\ A.board = [P.board EXCEPT ![m.to] = NoPiece]
      /\ A.hands = IF taken = NoPiece THEN P.hands
                   ELSE [P.hands EXCEPT ![P.side][Unpromote(taken.type)] = @ + 1]
  BY ONLY Shape(P), Exact(P), <1>2, MakeClear
<1> HIDE DEF A
<1>8. A.board[m.from] = Piece(P.side, P.board[m.from].type) /\ A.board[m.to] = NoPiece
  BY <1>2, <1>3, <1>4, <1>5, <1>7 DEF Boards
<1>9. /\ Shape(B) /\ Exact(B) /\ B.side = A.side /\ B.ply = A.ply /\ B.hands = A.hands
      /\ B.board = [A.board EXCEPT ![m.from] = NoPiece, ![m.to] = Piece(P.side, Landing(P, m))]
  <2>1. Relocated(A, B, m.from, m.to, P.side, Landing(P, m))
    BY ONLY <1>2, <1>3, <1>4, <1>5, <1>6, <1>7, <1>8, Relocate
  <2> QED BY <2>1 DEF Relocated
<1> HIDE DEF B
<1>10. B.board = [P.board EXCEPT ![m.from] = NoPiece, ![m.to] = Piece(P.side, Landing(P, m))]
  BY <1>2, <1>3, <1>4, <1>7, <1>9 DEF Boards
<1>11. Shape(Q) /\ Exact(Q)
  BY <1>9, PassExact
<1>12. Q.board = B.board /\ Q.hands = B.hands /\ Q.side = Opposite(B.side) /\ Q.ply = B.ply + 1
  <2>1. TurnPassed(B, Q, 1)
    BY ONLY <1>9, PassFields
  <2> QED BY <2>1 DEF TurnPassed
<1> HIDE DEF Q
<1> QED BY <1>1, <1>7, <1>9, <1>10, <1>11, <1>12

(* make_move leaves a position whose piece squares, kings and key are those of
   its board, hands and side: what it keeps up to date change by change is what
   a count from nothing would give, on a board of any size. *)
THEOREM MakeMoveIsExact ==
    ASSUME NEW P, Shape(P), Exact(P), NEW m, Fits(P, m), m.drop \in BOOLEAN
    PROVE  Shape(MakeMove(P, m)) /\ Exact(MakeMove(P, m))
BY MakeDrop, MakeBoardMove

-----------------------------------------------------------------------------
(* Taking moves back. *)

Raised(hands, c, t) == [hands EXCEPT ![c][t] = @ + 1]
Lowered(hands, c, t) == [hands EXCEPT ![c][t] = @ - 1]

LEMMA CountBack ==
    ASSUME NEW hands \in Hands, NEW c \in Colors, NEW t \in HandTypes
    PROVE  /\ Raised(Lowered(hands, c, t), c, t) = hands
           /\ Lowered(Raised(hands, c, t), c, t) = hands
           /\ Raised(hands, c, t)[c][t] > 0
<1>1. hands[c][t] \in Nat
  BY DEF Hands
<1>2. /\ hands[c][t] + 1 > 0 /\ (hands[c][t] - 1) + 1 = hands[c][t]
      /\ (hands[c][t] + 1) - 1 = hands[c][t]
  BY <1>1
<1>3. Raised(hands, c, t)[c][t] = hands[c][t] + 1 /\ Lowered(hands, c, t)[c][t] = hands[c][t] - 1
  BY DEF Hands, Raised, Lowered
<1>4. hands = [hands EXCEPT ![c] = [hands[c] EXCEPT ![t] = hands[c][t]]]
  BY DEF Hands
<1>5. Raised(Lowered(hands, c, t), c, t)
        = [hands EXCEPT ![c] = [hands[c] EXCEPT ![t] = (hands[c][t] - 1) + 1]]
  BY DEF Hands, Raised, Lowered
<1>6. Lowered(Raised(hands, c, t), c, t)
        = [hands EXCEPT ![c] = [hands[c] EXCEPT ![t] = (hands[c][t] + 1) - 1]]
  BY DEF Hands, Raised, Lowered
<1> QED BY <1>2, <1>3, <1>4, <1>5, <1>6

(* The position with the turn given back, the first thing unmake_move does. *)
LEMMA TurnBack ==
    ASSUME NEW Q, Shape(Q), Exact(Q), NEW side \in Colors, Q.side = Opposite(side),
           NEW ply \in Int, Q.ply = ply + 1
    PROVE  LET R == PassTurn([Q EXCEPT !.ply = @ - 1])
           IN /\ Shape(R) /\ Exact(R) /\ R.board = Q.board /\ R.hands = Q.hands
              /\ R.side = side /\ R.ply = ply
<1> DEFINE R == PassTurn([Q EXCEPT !.ply = @ + (-1)])
<1>1. [Q EXCEPT !.ply = @ - 1] = [Q EXCEPT !.ply = @ + (-1)]
  <2>1. Q.ply - 1 = Q.ply + (-1)
    OBVIOUS
  <2> QED BY <2>1
<1>2. Shape(R) /\ Exact(R)
  BY PassExact
<1>3. R.board = Q.board /\ R.hands = Q.hands /\ R.side = Opposite(Q.side) /\ R.ply = Q.ply + (-1)
  <2>1. TurnPassed(Q, R, -1)
    BY ONLY Shape(Q), PassFields
  <2> QED BY <2>1 DEF TurnPassed
<1> HIDE DEF R
<1>4. R.side = side /\ R.ply = ply
  BY <1>3 DEF Opposite, Colors
<1> QED BY <1>1, <1>2, <1>3, <1>4 DEF R

LEMMA UnmakeDrop ==
    ASSUME NEW P, Shape(P), Exact(P), NEW m, Fits(P, m), m.drop
    PROVE  UnmakeMove(MakeMove(P, m), m, Captured(P, m)) = P
<1> DEFINE Q == MakeMove(P, m)
           R == PassTurn([Q EXCEPT !.ply = @ - 1])
           A == RemovePiece(R, m.to)
           B == AddHandPiece(A, R.side, m.piece)
<1>1. UnmakeMove(Q, m, Captured(P, m)) = B
  BY DEF UnmakeMove
<1>2. /\ Shape(Q) /\ Exact(Q) /\ Q.side = Opposite(P.side) /\ Q.ply = P.ply + 1
      /\ Q.board = [P.board EXCEPT ![m.to] = Piece(P.side, m.piece)]
      /\ Q.hands = [P.hands EXCEPT ![P.side][m.piece] = @ - 1]
  BY MakeDrop
<1> HIDE DEF Q
<1>3. P.side \in Colors /\ P.ply \in Int /\ P.board \in Boards /\ P.hands \in Hands
  BY ExactIs
<1>4. m.to \in Squares /\ m.piece \in HandTypes /\ P.board[m.to] = NoPiece
  BY DEF Fits
<1>5. /\ Shape(R) /\ Exact(R) /\ R.board = Q.board /\ R.hands = Q.hands
      /\ R.side = P.side /\ R.ply = P.ply
  BY ONLY <1>2, <1>3, TurnBack
<1> HIDE DEF R
<1>6. R.board[m.to] # NoPiece
  BY <1>2, <1>3, <1>4, <1>5, PieceFacts DEF Boards
<1>7. Shape(A) /\ Exact(A)
  BY <1>4, <1>5, <1>6, RemovePieceExact
<1>8. /\ A.board = [R.board EXCEPT ![m.to] = NoPiece]
      /\ A.hands = R.hands /\ A.side = R.side /\ A.ply = R.ply
  <2>1. PieceRemoved(R, A, m.to)
    BY ONLY <1>5, <1>6, RemovePieceFields
  <2> QED BY <2>1 DEF PieceRemoved
<1> HIDE DEF A
<1>9. Shape(B) /\ Exact(B)
  BY <1>3, <1>4, <1>5, <1>7, AddHandExact
<1>10. /\ B.board = A.board /\ B.side = A.side /\ B.ply = A.ply
       /\ B.hands = [A.hands EXCEPT ![R.side][m.piece] = @ + 1]
  <2>1. HandAdded(A, B, R.side, m.piece)
    BY ONLY <1>7, AddHandFields
  <2> QED BY <2>1 DEF HandAdded
<1> HIDE DEF B
<1>11. B.board = P.board
  BY <1>2, <1>3, <1>4, <1>5, <1>8, <1>10 DEF Boards
<1>12. B.hands = P.hands
  <2> DEFINE c == P.side
             t == m.piece
  <2>1. B.hands = Raised(A.hands, c, t) /\ A.hands = Lowered(P.hands, c, t)
    BY <1>2, <1>5, <1>8, <1>10 DEF Raised, Lowered
  <2>2. Raised(Lowered(P.hands, c, t), c, t) = P.hands
    BY <1>3, <1>4, CountBack
  <2> QED BY <2>1, <2>2
<1>13. B.side = P.side /\ B.ply = P.ply
  BY <1>5, <1>8, <1>10
<1>14. B = P
  BY <1>9, <1>11, <1>12, <1>13, Determined
<1> QED BY <1>1, <1>14 DEF Q

LEMMA UnmakeBoardMove ==
    ASSUME NEW P, Shape(P), Exact(P), NEW m, Fits(P, m), ~m.drop, m.promote \in BOOLEAN
    PROVE  UnmakeMove(MakeMove(P, m), m, Captured(P, m)) = P
<1> DEFINE taken == P.board[m.to]
           type == P.board[m.from].type
           Q == MakeMove(P, m)
           R == PassTurn([Q EXCEPT !.ply = @ - 1])
           moved == IF m.promote THEN Unpromote(Q.board[m.to].type) ELSE Q.board[m.to].type
           A == AddPiece(RemovePiece(R, m.to), m.from, R.side, moved)
           B == AddPiece(A, m.to, taken.color, taken.type)
           C == RemoveHandPiece(B, R.side, Unpromote(taken.type))
<1>1. UnmakeMove(Q, m, Captured(P, m)) = IF taken = NoPiece THEN A ELSE C
  BY DEF UnmakeMove, Captured
<1>2. /\ Shape(Q) /\ Exact(Q) /\ Q.side = Opposite(P.side) /\ Q.ply = P.ply + 1
      /\ Q.board = [P.board EXCEPT ![m.from] = NoPiece, ![m.to] = Piece(P.side, Landing(P, m))]
      /\ Q.hands = IF taken = NoPiece THEN P.hands
                   ELSE [P.hands EXCEPT ![P.side][Unpromote(taken.type)] = @ + 1]
  BY MakeBoardMove
<1> HIDE DEF Q
<1>3. P.side \in Colors /\ P.ply \in Int /\ P.board \in Boards /\ P.hands \in Hands
  BY ExactIs
<1>4. /\ m.to \in Squares /\ m.from \in Squares /\ P.board[m.from].color = P.side
      /\ taken.color # P.side /\ taken.type # "King"
      /\ m.promote => CanPromote(type)
  BY DEF Fits
<1>5. m.from # m.to
  BY <1>4
<1>6. P.board[m.from] = Piece(P.side, type) /\ type \in Types
  BY <1>3, <1>4, PieceFacts DEF Boards
<1>7. Landing(P, m) \in Types /\ (type = "King" <=> Landing(P, m) = "King")
  BY <1>6, PromotionFacts DEF Landing
<1>8. /\ Shape(R) /\ Exact(R) /\ R.board = Q.board /\ R.hands = Q.hands
      /\ R.side = P.side /\ R.ply = P.ply
  BY ONLY <1>2, <1>3, TurnBack
<1> HIDE DEF R
<1>9. /\ R.board[m.to] = Piece(P.side, Landing(P, m)) /\ R.board[m.from] = NoPiece
      /\ Q.board[m.to].type = Landing(P, m)
  BY <1>2, <1>3, <1>4, <1>5, <1>7, <1>8, PieceFacts DEF Boards
<1>10. moved = type
  BY <1>4, <1>6, <1>9, PromotionFacts DEF Landing
<1> HIDE DEF moved
<1>11. /\ Shape(A) /\ Exact(A) /\ A.side = R.side /\ A.ply = R.ply /\ A.hands = R.hands
       /\ A.board = [R.board EXCEPT ![m.to] = NoPiece, ![m.from] = Piece(P.side, type)]
  <2>1. Relocated(R, A, m.to, m.from, R.side, moved)
    BY ONLY <1>3, <1>4, <1>5, <1>6, <1>7, <1>8, <1>9, <1>10, Relocate
  <2> QED BY <1>8, <1>10, <2>1 DEF Relocated
<1> HIDE DEF A
<1>12. A.board = [P.board EXCEPT ![m.to] = NoPiece]
  BY <1>2, <1>3, <1>4, <1>5, <1>6, <1>8, <1>11 DEF Boards
<1>13. CASE taken = NoPiece
  <2>1. A.board = P.board
    BY <1>3, <1>4, <1>12, <1>13 DEF Boards
  <2>2. A = P
    BY <1>2, <1>8, <1>11, <1>13, <2>1, Determined
  <2> QED BY <1>1, <1>13, <2>2 DEF Q
<1>14. CASE taken # NoPiece
  <2> DEFINE t == Unpromote(taken.type)
  <2>1. taken.color \in Colors /\ taken.type \in Types /\ taken = Piece(taken.color, taken.type)
    BY <1>3, <1>4, <1>14, PieceFacts DEF Boards
  <2>2. t \in HandTypes
    BY <1>4, <2>1, PromotionFacts
  <2>3. A.board[m.to] = NoPiece
    BY <1>3, <1>4, <1>12 DEF Boards
  <2>4. Shape(B) /\ Exact(B)
    BY <1>4, <1>11, <2>1, <2>3, AddPieceExact
  <2>5. /\ B.board = [A.board EXCEPT ![m.to] = Piece(taken.color, taken.type)]
        /\ B.hands = A.hands /\ B.side = A.side /\ B.ply = A.ply
    <3>1. PieceAdded(A, B, m.to, taken.color, taken.type)
      BY ONLY <1>11, AddPieceFields
    <3> QED BY <3>1 DEF PieceAdded
  <2> HIDE DEF B
  <2>6. B.board = P.board
    BY <1>3, <1>4, <1>12, <2>1, <2>5 DEF Boards
  <2>7. B.hands = Raised(P.hands, P.side, t)
    BY <1>2, <1>8, <1>11, <1>14, <2>5 DEF Raised
  <2>8. B.hands[P.side][t] > 0 /\ Lowered(B.hands, P.side, t) = P.hands
    BY <1>3, <2>2, <2>7, CountBack
  <2>9. Shape(C) /\ Exact(C)
    BY <1>3, <1>8, <2>2, <2>4, <2>8, RemoveHandExact
  <2>10. /\ C.board = B.board /\ C.side = B.side /\ C.ply = B.ply
         /\ C.hands = [B.hands EXCEPT ![R.side][t] = @ - 1]
    <3>1. HandRemoved(B, C, R.side, Unpromote(taken.type))
      BY ONLY <2>4, RemoveHandFields
    <3> QED BY <3>1 DEF HandRemoved
  <2> HIDE DEF C
  <2>11. C.hands = P.hands /\ C.board = P.board /\ C.side = P.side /\ C.ply = P.ply
    BY <1>8, <1>11, <2>5, <2>6, <2>8, <2>10 DEF Lowered
  <2>12. C = P
    BY <2>9, <2>11, Determined
  <2> QED BY <1>1, <1>14, <2>12 DEF Q
<1> QED BY <1>13, <1>14

(* unmake_move, given what was captured, restores the whole of the position a
   move was made from, the key and the redundant sets with it. *)
THEOREM UnmakeMoveRestores ==
    ASSUME NEW P, Shape(P), Exact(P), NEW m, Fits(P, m), m.drop \in BOOLEAN, m.promote \in BOOLEAN
    PROVE  UnmakeMove(MakeMove(P, m), m, Captured(P, m)) = P
BY UnmakeDrop, UnmakeBoardMove

-----------------------------------------------------------------------------
(* Every move the generator lists is one that make_move may be given. *)

LEMMA RayOnBoard == \A s \in Squares, d \in RookDirs \cup BishopDirs : Ray[s][d] \subseteq Squares
BY DEF Ray

LEMMA LinesOnBoard ==
    ASSUME NEW dirs, dirs \subseteq RookDirs \cup BishopDirs
    PROVE  \A s \in Squares : Lines(dirs)[s] \subseteq Squares
BY RayOnBoard DEF Lines

LEMMA AttacksOnBoard ==
    ASSUME NEW from \in Squares, NEW type \in Types, NEW color \in Colors, NEW occupied
    PROVE  AttacksFrom(from, type, color, occupied) \subseteq Squares
<1>1. StepFrom[color][type][from] \subseteq Squares
  BY DEF StepFrom
<1>2. RookLines[from] \subseteq Squares /\ BishopLines[from] \subseteq Squares
  BY LinesOnBoard DEF RookLines, BishopLines
<1>3. LanceLines[color][from] \subseteq Squares
  <2>1. {LanceDir(color)} \subseteq RookDirs
    BY DEF LanceDir, RookDirs
  <2>2. LanceLines[color] = Lines({LanceDir(color)})
    BY DEF LanceLines
  <2> QED BY <2>1, <2>2, LinesOnBoard
<1>4. /\ RookAttacks(from, occupied) \subseteq Squares
      /\ BishopAttacks(from, occupied) \subseteq Squares
      /\ LanceAttacks(from, color, occupied) \subseteq Squares
  BY <1>2, <1>3 DEF RookAttacks, BishopAttacks, LanceAttacks, LineAttacks
<1> QED BY <1>1, <1>4 DEF AttacksFrom

WellFormed(P, m) == Fits(P, m) /\ m.drop \in BOOLEAN /\ m.promote \in BOOLEAN

LEMMA NotOwn ==
    ASSUME NEW P, Exact(P), NEW s \in Squares, s \notin P.own[P.side]
    PROVE  P.board[s].color # P.side
<1>1. P.own = OwnOf(P.board) /\ P.side \in Colors
  BY ExactIs
<1> QED BY <1>1 DEF OwnOf

LEMMA KingMovesFit ==
    ASSUME NEW P, Exact(P), NEW state, state.color = P.side, NEW selection, NEW info,
           NEW m \in KingMoves(P, state, selection, info)
    PROVE  WellFormed(P, m)
<1> DEFINE from == P.king[P.side]
<1>1. PICK to \in KingTargets(P, from, P.side) : m = Move(from, to, "King", FALSE)
  BY DEF KingMoves
<1>2. /\ P.side \in Colors /\ P.board \in Boards /\ KingsAgree(P.board, P.king)
      /\ P.king \in [Colors -> Squares \cup {NoSquare}] /\ P.pieces = PiecesOf(P.board)
  BY ExactIs
<1>3. from \in Squares
  BY <1>2 DEF KingMoves
<1>4. P.board[from] = Piece(P.side, "King")
  BY <1>2, <1>3 DEF KingsAgree
<1>5. to \in Squares /\ to \notin P.own[P.side] /\ to \notin P.pieces[Opposite(P.side)]["King"]
  <2>1. "King" \in Types
    BY PieceFacts
  <2> QED BY <1>2, <1>3, <2>1 DEF KingTargets, StepFrom
<1>6. P.board[to].color # P.side
  BY <1>5, NotOwn
<1>7. P.board[to].type # "King"
  <2>1. SUFFICES ASSUME P.board[to].type = "King" PROVE FALSE
    OBVIOUS
  <2>2. P.board[to] \in PieceSet
    BY <1>2, <1>5, <2>1 DEF Boards, NoPiece
  <2>3. P.board[to] = Piece(Opposite(P.side), "King") /\ Opposite(P.side) \in Colors
    BY <1>2, <1>6, <2>1, <2>2, PieceFacts DEF Opposite, Colors
  <2>4. to \in PiecesOf(P.board)[Opposite(P.side)]["King"]
    BY <1>5, <2>3, PieceFacts DEF PiecesOf
  <2> QED BY <1>2, <1>5, <2>4
<1>8. m.to = to /\ m.from = from /\ m.drop = FALSE /\ m.promote = FALSE
  BY <1>1 DEF Move
<1>9. P.board[from].color = P.side
  BY <1>4, <1>2, PieceFacts
<1> QED BY <1>3, <1>5, <1>6, <1>7, <1>8, <1>9 DEF WellFormed, Fits

LEMMA PieceMovesFit ==
    ASSUME NEW P, Exact(P), NEW state, state.color = P.side, NEW selection, NEW info,
           NEW type \in Types \ {"King"}, NEW m \in PieceMoves(P, state, type, selection, info)
    PROVE  WellFormed(P, m)
<1>1. PICK from \in P.pieces[P.side][type] :
          \E to \in PieceTargets(P, state, from, type) : m \in Variants(P, from, to, type)
  BY DEF PieceMoves
<1>2. PICK to \in PieceTargets(P, state, from, type) : m \in Variants(P, from, to, type)
  BY <1>1
<1>3. /\ P.board[to].type # "King"
      /\ \/ m = Move(from, to, type, TRUE) /\ CanPromote(type)
         \/ m = Move(from, to, type, FALSE)
  <2>1. PICK promote \in {p \in BOOLEAN :
            /\ P.board[to].type # "King"
            /\ IF p THEN /\ CanPromote(type)
                         /\ InPromotionZone(P.side, from) \/ InPromotionZone(P.side, to)
               ELSE ~MustPromote(type, P.side, to)} : m = Move(from, to, type, promote)
    BY <1>2 DEF Variants
  <2> QED BY <2>1, Zenon
<1>4. /\ P.side \in Colors /\ P.board \in Boards /\ P.pieces = PiecesOf(P.board)
  BY ExactIs
<1>5. from \in Squares /\ P.board[from] = Piece(P.side, type)
  BY <1>1, <1>4 DEF PiecesOf
<1>6. to \in Squares /\ to \notin P.own[P.side]
  BY <1>2, <1>4, <1>5, AttacksOnBoard DEF PieceTargets
<1>7. P.board[to].color # P.side
  BY <1>6, NotOwn
<1>8. P.board[from].color = P.side /\ P.board[from].type = type
  BY <1>4, <1>5, PieceFacts
<1>9. m.to = to /\ m.from = from /\ ~m.drop /\ m.drop = FALSE
  BY <1>3 DEF Move
<1>10. m.promote \in BOOLEAN /\ (m.promote => CanPromote(type))
  <2>1. CASE m = Move(from, to, type, TRUE) /\ CanPromote(type)
    <3>1. m.promote = TRUE
      BY <2>1 DEF Move
    <3> QED BY <2>1, <3>1
  <2>2. CASE m = Move(from, to, type, FALSE)
    <3>1. m.promote = FALSE
      BY <2>2 DEF Move
    <3> QED BY <3>1
  <2> QED BY <1>3, <2>1, <2>2
<1>11. Fits(P, m)
  BY <1>3, <1>5, <1>6, <1>7, <1>8, <1>9, <1>10 DEF Fits
<1> QED BY <1>9, <1>10, <1>11 DEF WellFormed

LEMMA DropMovesFit ==
    ASSUME NEW P, Exact(P), NEW state, state.color = P.side, NEW enforce, NEW selection, NEW info,
           NEW m \in DropMoves(P, state, enforce, selection, info)
    PROVE  WellFormed(P, m)
<1>1. PICK t \in {x \in HandTypes : P.hands[P.side][x] > 0} :
          m \in {Drop(to, t) : to \in DropTargets(P, P.side, t) \cap state.mask}
  BY DEF DropMoves
<1>2. PICK to \in DropTargets(P, P.side, t) : m = Drop(to, t)
  BY <1>1
<1>3. P.side \in Colors /\ P.occupied = {s \in Squares : P.board[s] # NoPiece}
  BY ExactIs
<1>4. to \in Squares /\ P.board[to] = NoPiece
  BY <1>1, <1>2, <1>3 DEF DropTargets, DropMask
<1>5. m.to = to /\ m.piece = t /\ m.drop = TRUE /\ m.promote = FALSE
  BY <1>2 DEF Drop
<1> QED BY <1>1, <1>4, <1>5 DEF WellFormed, Fits

LEMMA GeneratedMovesFit ==
    ASSUME NEW P, Exact(P), NEW drops, NEW enforce, NEW selection,
           NEW m \in Generate(P, drops, enforce, selection)
    PROVE  WellFormed(P, m)
<1> DEFINE state == GenState(P, P.side)
           info == CheckInfo(P, P.side)
           kings == KingMoves(P, state, selection, info)
           men(t) == PieceMoves(P, state, t, selection, info)
           all == UNION {men(t) : t \in Types \ {"King"}}
           fresh == DropMoves(P, state, enforce, selection, info)
<1>1. state.color = P.side
  BY DEF GenState
<1>2. m \in IF selection = "Checking" /\ info.king = NoSquare THEN {}
           ELSE kings \cup
                IF Cardinality(state.checkers) > 1 THEN {}
                ELSE all \cup (IF drops THEN fresh ELSE {})
  BY DEF Generate, GenerateFrom
<1> HIDE DEF state, info, kings, men, all, fresh
<1>3. m \in kings \/ m \in fresh \/ m \in all
  BY <1>2
<1>4. CASE m \in kings
  BY <1>1, <1>4, KingMovesFit DEF kings
<1>5. CASE m \in fresh
  BY <1>1, <1>5, DropMovesFit DEF fresh
<1>6. CASE m \in all
  <2>1. PICK t \in Types \ {"King"} : m \in men(t)
    BY <1>6 DEF all
  <2> QED BY <1>1, <2>1, PieceMovesFit DEF men
<1> QED BY <1>3, <1>4, <1>5, <1>6

(* Whatever list of moves is asked for (all, tactical or checking, with drops or
   without), in an exact position every move of it leads to an exact position,
   and taking it back gives the position again: a search that makes and unmakes
   the moves it generates never drifts from the board it was given. *)
THEOREM GeneratedMovesKeepPositions ==
    ASSUME NEW P, Shape(P), Exact(P), NEW drops, NEW enforce, NEW selection,
           NEW m \in Generate(P, drops, enforce, selection)
    PROVE  /\ Shape(MakeMove(P, m)) /\ Exact(MakeMove(P, m))
           /\ UnmakeMove(MakeMove(P, m), m, Captured(P, m)) = P
BY GeneratedMovesFit, MakeMoveIsExact, UnmakeMoveRestores DEF WellFormed

(* A null move, too, leaves an exact position, and the next one takes it back. *)
THEOREM NullMoveKeepsPositions ==
    ASSUME NEW P, Shape(P), Exact(P)
    PROVE  /\ Shape(PassTurn(P)) /\ Exact(PassTurn(P))
           /\ PassTurn(PassTurn(P)) = P
<1>1. ASSUME NEW R, Shape(R), Exact(R)
      PROVE  /\ Shape(PassTurn(R)) /\ Exact(PassTurn(R))
             /\ PassTurn(R).board = R.board /\ PassTurn(R).hands = R.hands
             /\ PassTurn(R).side = Opposite(R.side) /\ PassTurn(R).ply = R.ply
  <2> DEFINE Q == PassTurn([R EXCEPT !.ply = @ + 0])
  <2>1. [R EXCEPT !.ply = @ + 0] = R
    <3>1. R.ply \in Int
      BY <1>1, ExactIs
    <3>2. R.ply + 0 = R.ply
      BY <3>1
    <3> QED BY <1>1, <3>2 DEF Shape, Fields
  <2>2. Shape(Q) /\ Exact(Q)
    BY ONLY <1>1, 0 \in Int, PassExact
  <2>3. TurnPassed(R, Q, 0)
    BY ONLY <1>1, PassFields
  <2>4. R.ply \in Int
    BY <1>1, ExactIs
  <2> HIDE DEF Q
  <2>5. /\ Q.board = R.board /\ Q.hands = R.hands /\ Q.side = Opposite(R.side) /\ Q.ply = R.ply
    BY <2>3, <2>4 DEF TurnPassed
  <2>6. Q = PassTurn(R)
    BY <2>1 DEF Q
  <2> QED BY <2>2, <2>5, <2>6
<1>2. Shape(PassTurn(P)) /\ Exact(PassTurn(P))
  BY <1>1
<1>3. P.side \in Colors
  BY ExactIs
<1>4. PassTurn(PassTurn(P)).side = P.side
  BY <1>1, <1>2, <1>3 DEF Opposite, Colors
<1>5. PassTurn(PassTurn(P)) = P
  <2>1. Shape(PassTurn(PassTurn(P))) /\ Exact(PassTurn(PassTurn(P)))
    BY <1>1, <1>2
  <2>2. /\ PassTurn(PassTurn(P)).board = P.board /\ PassTurn(PassTurn(P)).hands = P.hands
        /\ PassTurn(PassTurn(P)).ply = P.ply
    BY <1>1, <1>2
  <2> QED BY <1>4, <2>1, <2>2, Determined
<1> QED BY <1>2, <1>5

-----------------------------------------------------------------------------
(* Part 2.  Moves. *)

-----------------------------------------------------------------------------
(* Squares, directions and the lines between squares. *)

LEMMA Coordinates ==
    ASSUME NEW s \in Squares
    PROVE  /\ Row(s) \in 0 .. (Rows - 1) /\ Col(s) \in 0 .. (Cols - 1)
           /\ s = Row(s) * Cols + Col(s)
<1>1. s \in Nat /\ Cols \in Nat /\ Cols > 0 /\ Rows \in Nat /\ Rows > 0 /\ s < Rows * Cols
  <2>1. Rows \in Nat /\ Cols \in Nat /\ Rows > 0 /\ Cols > 0
    BY BoardAssumption
  <2>2. Rows * Cols \in Nat
    BY <2>1
  <2> QED BY <2>1, <2>2 DEF Squares
<1>2. /\ s \div Cols \in Nat /\ s % Cols \in 0 .. (Cols - 1) /\ s = (s \div Cols) * Cols + (s % Cols)
  BY <1>1
<1>3. ~(s \div Cols >= Rows)
  <2> SUFFICES ASSUME s \div Cols >= Rows PROVE FALSE
    OBVIOUS
  <2>1. (s \div Cols) * Cols >= Rows * Cols
    BY <1>1, <1>2
  <2> QED BY <2>1, <1>1, <1>2
<1> QED BY <1>1, <1>2, <1>3 DEF Row, Col

LEMMA SamePlace ==
    ASSUME NEW s \in Squares, NEW t \in Squares, Row(s) = Row(t), Col(s) = Col(t)
    PROVE  s = t
BY Coordinates

(* Row and column of t, seen from s. *)
Down(s, t) == Row(t) - Row(s)
Right(s, t) == Col(t) - Col(s)

LEMMA Distances ==
    ASSUME NEW s \in Squares, NEW t \in Squares
    PROVE  /\ Down(s, t) \in Int /\ Right(s, t) \in Int
           /\ Down(s, t) <= Rows /\ -Down(s, t) <= Rows
           /\ Right(s, t) <= Cols /\ -Right(s, t) <= Cols
           /\ Rows \in Nat /\ Cols \in Nat
           /\ Row(s) \in Int /\ Col(s) \in Int /\ Row(t) \in Int /\ Col(t) \in Int
<1>1. Rows \in Nat /\ Cols \in Nat
  BY BoardAssumption
<1>2. Row(s) \in 0 .. (Rows - 1) /\ Col(s) \in 0 .. (Cols - 1) /\ Row(t) \in 0 .. (Rows - 1) /\ Col(t) \in 0 .. (Cols - 1)
  BY Coordinates
<1> QED BY <1>1, <1>2 DEF Down, Right

Sign(n) == IF n > 0 THEN 1 ELSE IF n < 0 THEN -1 ELSE 0
Extent(n) == IF n < 0 THEN -n ELSE n

Dirs == RookDirs \cup BishopDirs

(* On a common line, and the direction of one square from the other. *)
Aligned(s, t) ==
    /\ Down(s, t) # 0 \/ Right(s, t) # 0
    /\ Down(s, t) = 0 \/ Right(s, t) = 0 \/ Right(s, t) = Down(s, t) \/ Right(s, t) = -Down(s, t)
Way(s, t) == <<Sign(Down(s, t)), Sign(Right(s, t))>>

LEMMA Directions ==
    \A d \in Dirs : /\ d = <<d[1], d[2]>>
                    /\ d[1] \in {-1, 0, 1} /\ d[2] \in {-1, 0, 1} /\ (d[1] # 0 \/ d[2] # 0)
BY DEF Dirs, RookDirs, BishopDirs

LEMMA RayIs ==
    ASSUME NEW s \in Squares, NEW t \in Squares, NEW d \in Dirs
    PROVE  t \in Ray[s][d] <=> Aligned(s, t) /\ Way(s, t) = d
<1> DEFINE r == Down(s, t)  c == Right(s, t)
<1>1. t \in Ray[s][d] <=>
         \E n \in 1 .. (Rows + Cols) : Row(t) = Row(s) + n * d[1] /\ Col(t) = Col(s) + n * d[2]
  BY DEF Ray, Dirs
<1>2. r \in Int /\ c \in Int /\ r <= Rows /\ -r <= Rows /\ c <= Cols /\ -c <= Cols /\ Rows \in Nat /\ Cols \in Nat
  BY Distances
<1>3. d[1] \in {-1, 0, 1} /\ d[2] \in {-1, 0, 1} /\ (d[1] # 0 \/ d[2] # 0) /\ d = <<d[1], d[2]>>
  BY Directions
<1> DEFINE a == d[1]  b == d[2]
<1>4. a \in {-1, 0, 1} /\ b \in {-1, 0, 1} /\ (a # 0 \/ b # 0) /\ d = <<a, b>>
  BY <1>3
<1>5. \A n \in 1 .. (Rows + Cols) : n \in Int /\ n * a \in Int /\ n * b \in Int
  BY <1>2, <1>4
<1>6. \A n \in 1 .. (Rows + Cols) :
         (Row(t) = Row(s) + n * a /\ Col(t) = Col(s) + n * b) <=> (r = n * a /\ c = n * b)
  <2> TAKE n \in 1 .. (Rows + Cols)
  <2>1. n * a \in Int /\ n * b \in Int
    BY <1>5
  <2> HIDE DEF a, b
  <2> QED BY <2>1, Distances DEF Down, Right
<1>7. t \in Ray[s][d] <=> \E n \in 1 .. (Rows + Cols) : r = n * a /\ c = n * b
  BY <1>1, <1>6
<1> HIDE DEF r, c, a, b
<1>8. ASSUME NEW n \in 1 .. (Rows + Cols), r = n * a, c = n * b
      PROVE  /\ (r # 0 \/ c # 0) /\ (r = 0 \/ c = 0 \/ c = r \/ c = -r)
             /\ Sign(r) = a /\ Sign(c) = b
  <2>1. n \in Int /\ n > 0
    BY <1>2
  <2>2. /\ a = 1 => r = n
        /\ a = -1 => r = -n
        /\ a = 0 => r = 0
        /\ b = 1 => c = n
        /\ b = -1 => c = -n
        /\ b = 0 => c = 0
    BY <2>1, <1>8
  <2> QED BY <2>1, <2>2, <1>4 DEF Sign
<1>9. ASSUME r # 0 \/ c # 0, r = 0 \/ c = 0 \/ c = r \/ c = -r, Sign(r) = a, Sign(c) = b
      PROVE  \E n \in 1 .. (Rows + Cols) : r = n * a /\ c = n * b
  <2> DEFINE n == IF r = 0 THEN Extent(c) ELSE Extent(r)
  <2>1. n \in 1 .. (Rows + Cols)
    BY <1>2, <1>9 DEF Extent
  <2>2. /\ a = 1 => r = n
        /\ a = -1 => r = -n
        /\ a = 0 => r = 0
        /\ b = 1 => c = n
        /\ b = -1 => c = -n
        /\ b = 0 => c = 0
    BY <1>2, <1>9 DEF Extent, Sign
  <2>3. n \in Int
    BY <2>1, <1>2
  <2> HIDE DEF n
  <2>4. r = n * a /\ c = n * b
    BY <2>2, <2>3, <1>4
  <2> QED BY <2>1, <2>4
<1>10. Way(s, t) = d <=> Sign(r) = a /\ Sign(c) = b
  BY <1>4 DEF Way, r, c
<1> QED BY <1>7, <1>8, <1>9, <1>10 DEF Aligned, r, c

LEMMA WayIsDirection ==
    ASSUME NEW s \in Squares, NEW t \in Squares, Aligned(s, t)
    PROVE  Way(s, t) \in Dirs
BY Distances DEF Aligned, Way, Sign, Dirs, RookDirs, BishopDirs

LEMMA BetweenIs ==
    ASSUME NEW s \in Squares, NEW t \in Squares, NEW x
    PROVE  x \in Between[s][t] <=>
              x \in Squares /\ Aligned(s, x) /\ Aligned(x, t) /\ Way(s, x) = Way(x, t)
<1>1. x \in Between[s][t] <=> x \in Squares /\ \E d \in Dirs : x \in Ray[s][d] /\ t \in Ray[x][d]
  BY DEF Between, Dirs
<1>2. ASSUME x \in Squares
      PROVE  (\E d \in Dirs : x \in Ray[s][d] /\ t \in Ray[x][d])
             <=> Aligned(s, x) /\ Aligned(x, t) /\ Way(s, x) = Way(x, t)
  BY <1>2, RayIs, WayIsDirection
<1> QED BY <1>1, <1>2

LEMMA TurnRound ==
    ASSUME NEW s \in Squares, NEW t \in Squares
    PROVE  /\ Aligned(s, t) <=> Aligned(t, s)
           /\ Aligned(s, t) => s # t
           /\ Way(t, s) = <<-Way(s, t)[1], -Way(s, t)[2]>>
<1>1. Down(t, s) = -Down(s, t) /\ Right(t, s) = -Right(s, t)
  BY Distances DEF Down, Right
<1>2. Down(s, t) \in Int /\ Right(s, t) \in Int
  BY Distances
<1>3. s = t => Down(s, t) = 0 /\ Right(s, t) = 0
  BY Distances DEF Down, Right
<1> QED BY <1>1, <1>2, <1>3 DEF Aligned, Way, Sign

LEMMA Onward ==
    ASSUME NEW s \in Squares, NEW x \in Squares, NEW t \in Squares,
           Aligned(s, x), Aligned(x, t), Way(s, x) = Way(x, t)
    PROVE  Aligned(s, t) /\ Way(s, t) = Way(s, x)
<1>1. Down(s, t) = Down(s, x) + Down(x, t) /\ Right(s, t) = Right(s, x) + Right(x, t)
  BY Distances DEF Down, Right
<1>2. /\ Down(s, x) \in Int /\ Right(s, x) \in Int /\ Down(x, t) \in Int /\ Right(x, t) \in Int
  BY Distances
<1>3. Sign(Down(s, x)) = Sign(Down(x, t)) /\ Sign(Right(s, x)) = Sign(Right(x, t))
  BY DEF Way
<1> QED BY <1>1, <1>2, <1>3 DEF Aligned, Way, Sign

LEMMA NearerOrFarther ==
    ASSUME NEW s \in Squares, NEW x \in Squares, NEW y \in Squares,
           Aligned(s, x), Aligned(s, y), Way(s, x) = Way(s, y), x # y
    PROVE  \/ Aligned(x, y) /\ Way(x, y) = Way(s, x)
           \/ Aligned(y, x) /\ Way(y, x) = Way(s, x)
<1>1. Down(x, y) = Down(s, y) - Down(s, x) /\ Right(x, y) = Right(s, y) - Right(s, x)
  BY Distances DEF Down, Right
<1>2. Down(y, x) = Down(s, x) - Down(s, y) /\ Right(y, x) = Right(s, x) - Right(s, y)
  BY Distances DEF Down, Right
<1>3. /\ Down(s, x) \in Int /\ Right(s, x) \in Int /\ Down(s, y) \in Int /\ Right(s, y) \in Int
  BY Distances
<1>4. Sign(Down(s, x)) = Sign(Down(s, y)) /\ Sign(Right(s, x)) = Sign(Right(s, y))
  BY DEF Way
<1>5. ~(Down(x, y) = 0 /\ Right(x, y) = 0)
  BY SamePlace, Distances DEF Down, Right
<1> QED BY <1>1, <1>2, <1>3, <1>4, <1>5 DEF Aligned, Way, Sign

LEMMA BetweenSymmetric ==
    ASSUME NEW s \in Squares, NEW t \in Squares
    PROVE  Between[s][t] = Between[t][s]
<1>1. ASSUME NEW x \in Squares, NEW u \in Squares, NEW v \in Squares, x \in Between[u][v]
      PROVE  x \in Between[v][u]
  BY <1>1, BetweenIs, TurnRound
<1> QED BY <1>1, BetweenIs

LEMMA BetweenFacts ==
    ASSUME NEW s \in Squares, NEW t \in Squares, NEW x \in Between[s][t]
    PROVE  /\ x \in Squares /\ x # s /\ x # t
           /\ Aligned(s, t) /\ Aligned(s, x) /\ Way(s, x) = Way(s, t)
           /\ Between[s][x] \subseteq Between[s][t]
           /\ t \notin Between[s][x]
<1>1. x \in Squares /\ Aligned(s, x) /\ Aligned(x, t) /\ Way(s, x) = Way(x, t)
  BY BetweenIs
<1>2. Aligned(s, t) /\ Way(s, t) = Way(s, x) /\ x # s /\ x # t
  BY <1>1, Onward, TurnRound
<1>3. ASSUME NEW y \in Between[s][x]
      PROVE  y \in Between[s][t]
  <2>1. y \in Squares /\ Aligned(s, y) /\ Aligned(y, x) /\ Way(s, y) = Way(y, x)
    BY <1>1, BetweenIs
  <2>2. Aligned(s, x) /\ Way(s, x) = Way(s, y)
    BY <1>1, <2>1, Onward
  <2>3. Way(y, x) = Way(x, t)
    BY <1>1, <2>1, <2>2
  <2>4. Aligned(y, t) /\ Way(y, t) = Way(y, x)
    BY <1>1, <2>1, <2>3, Onward
  <2> QED BY <2>1, <2>4, BetweenIs
<1>4. t \notin Between[s][x]
  <2> SUFFICES ASSUME t \in Between[s][x] PROVE FALSE
    OBVIOUS
  <2>1. Aligned(t, x) /\ Way(s, t) = Way(t, x)
    BY <1>1, BetweenIs
  <2>2. Way(t, x) = Way(x, t)
    BY <1>1, <1>2, <2>1
  <2>3. Down(t, x) = -Down(x, t) /\ Right(t, x) = -Right(x, t) /\ Down(x, t) \in Int /\ Right(x, t) \in Int
    BY <1>1, Distances DEF Down, Right
  <2> QED BY <2>2, <2>3, <1>1 DEF Aligned, Way, Sign
<1> QED BY <1>1, <1>2, <1>3, <1>4

(* Two squares seen past the same one are on one line, one before the other. *)
LEMMA OneBehindTheOther ==
    ASSUME NEW s \in Squares, NEW t \in Squares, NEW u \in Squares, t # u,
           Aligned(s, t), Aligned(s, u), Way(s, t) = Way(s, u)
    PROVE  t \in Between[s][u] \/ u \in Between[s][t]
BY NearerOrFarther, BetweenIs

-----------------------------------------------------------------------------
(* Attacks. *)

LEMMA OppositeFacts ==
    \A color \in Colors : Opposite(color) \in Colors /\ Opposite(color) # color /\ Opposite(Opposite(color)) = color
BY DEF Colors, Opposite

LEMMA RookLinesIs ==
    ASSUME NEW s \in Squares, NEW t \in Squares
    PROVE  t \in RookLines[s] <=> Aligned(s, t) /\ (Down(s, t) = 0 \/ Right(s, t) = 0)
<1>1. t \in RookLines[s] <=> \E d \in RookDirs : t \in Ray[s][d]
  BY DEF RookLines, Lines
<1>2. \A d \in RookDirs : d \in Dirs
  BY DEF Dirs
<1>3. t \in RookLines[s] <=> Aligned(s, t) /\ Way(s, t) \in RookDirs
  BY <1>1, <1>2, RayIs
<1>4. Aligned(s, t) => (Way(s, t) \in RookDirs <=> Down(s, t) = 0 \/ Right(s, t) = 0)
  BY Distances DEF Way, Sign, RookDirs, Aligned
<1> QED BY <1>3, <1>4

LEMMA BishopLinesIs ==
    ASSUME NEW s \in Squares, NEW t \in Squares
    PROVE  t \in BishopLines[s] <=> Aligned(s, t) /\ Down(s, t) # 0 /\ Right(s, t) # 0
<1>1. t \in BishopLines[s] <=> \E d \in BishopDirs : t \in Ray[s][d]
  BY DEF BishopLines, Lines
<1>2. \A d \in BishopDirs : d \in Dirs
  BY DEF Dirs
<1>3. t \in BishopLines[s] <=> Aligned(s, t) /\ Way(s, t) \in BishopDirs
  BY <1>1, <1>2, RayIs
<1>4. Aligned(s, t) => (Way(s, t) \in BishopDirs <=> Down(s, t) # 0 /\ Right(s, t) # 0)
  BY Distances DEF Way, Sign, BishopDirs, Aligned
<1> QED BY <1>3, <1>4

LEMMA LanceLinesIs ==
    ASSUME NEW color \in Colors, NEW s \in Squares, NEW t \in Squares
    PROVE  t \in LanceLines[color][s] <=> Aligned(s, t) /\ Way(s, t) = LanceDir(color)
<1>1. t \in LanceLines[color][s] <=> t \in Ray[s][LanceDir(color)]
  BY DEF LanceLines, Lines
<1>2. LanceDir(color) \in Dirs
  BY DEF Dirs, LanceDir, RookDirs
<1> QED BY <1>1, <1>2, RayIs

Slides(type, color, from, to) ==
    CASE type = "Lance" -> to \in LanceLines[color][from]
      [] type \in {"Bishop", "Horse"} -> to \in BishopLines[from]
      [] type \in {"Rook", "Dragon"} -> to \in RookLines[from]
      [] OTHER -> FALSE

(* On an empty board the piece attacks the square. *)
Sees(type, color, from, to) == to \in StepFrom[color][type][from] \/ Slides(type, color, from, to)

LEMMA SlidesOnLines ==
    ASSUME NEW type, NEW color \in Colors, NEW s \in Squares, NEW t \in Squares,
           Slides(type, color, s, t)
    PROVE  Aligned(s, t)
BY RookLinesIs, BishopLinesIs, LanceLinesIs DEF Slides

LEMMA StepsAreShort ==
    ASSUME NEW type \in Types
    PROVE  \A d \in Steps(type) :
              /\ d[1] \in Int /\ d[2] \in Int /\ (d[1] # 0 \/ d[2] # 0)
              /\ \/ d[1] \in {-1, 0, 1} /\ d[2] \in {-1, 0, 1}
                 \/ d[1] \in {-2, 2} /\ d[2] \in {-1, 1}
BY DEF Steps, RookDirs, BishopDirs, Golds

LEMMA NoneBetweenStep ==
    ASSUME NEW type \in Types, NEW color \in Colors, NEW s \in Squares, NEW t \in StepFrom[color][type][s]
    PROVE  t \in Squares /\ t # s /\ Between[s][t] = {}
<1>1. t \in Squares /\ Offset(color, s, t) \in Steps(type)
  BY DEF StepFrom
<1> DEFINE r == Down(s, t)  c == Right(s, t)
<1>2. r \in Int /\ c \in Int
  BY <1>1, Distances
<1>3. \/ Offset(color, s, t) = <<r, c>>
      \/ Offset(color, s, t) = <<-r, -c>>
  BY <1>1, Distances DEF Offset, Down, Right
<1>4. /\ r # 0 \/ c # 0
      /\ \/ r \in {-1, 0, 1} /\ c \in {-1, 0, 1}
         \/ r \in {-2, 2} /\ c \in {-1, 1}
  BY <1>1, <1>2, <1>3, StepsAreShort
<1>5. t # s
  BY <1>1, <1>4, Distances DEF Down, Right
<1>6. ASSUME NEW x \in Between[s][t] PROVE FALSE
  <2>1. x \in Squares /\ Aligned(s, x) /\ Aligned(x, t) /\ Way(s, x) = Way(x, t)
    BY <1>1, BetweenIs
  <2>2. r = Down(s, x) + Down(x, t) /\ c = Right(s, x) + Right(x, t)
    BY <1>1, <2>1, Distances DEF Down, Right
  <2>3. /\ Down(s, x) \in Int /\ Right(s, x) \in Int /\ Down(x, t) \in Int /\ Right(x, t) \in Int
    BY <1>1, <2>1, Distances
  <2>4. Aligned(s, t)
    BY <1>1, <2>1, Onward
  <2>5. r \in {-1, 0, 1} /\ c \in {-1, 0, 1}
    BY <1>2, <1>4, <2>4 DEF Aligned
  <2>6. Sign(Down(s, x)) = Sign(Down(x, t)) /\ Sign(Right(s, x)) = Sign(Right(x, t))
    BY <2>1 DEF Way
  <2> HIDE DEF r, c
  <2> QED BY <2>1, <2>2, <2>3, <2>5, <2>6 DEF Aligned, Sign
<1> QED BY <1>1, <1>5, <1>6

LEMMA AttackIs ==
    ASSUME NEW type \in Types, NEW color \in Colors, NEW s \in Squares, NEW t, NEW occupied
    PROVE  t \in AttacksFrom(s, type, color, occupied)
           <=> t \in Squares /\ Sees(type, color, s, t) /\ Between[s][t] \cap occupied = {}
<1>1. t \in StepFrom[color][type][s] => t \in Squares /\ Between[s][t] \cap occupied = {}
  BY NoneBetweenStep
<1>2. /\ RookLines[s] \subseteq Squares /\ BishopLines[s] \subseteq Squares /\ LanceLines[color][s] \subseteq Squares
  BY DEF RookLines, BishopLines, LanceLines, Lines, Ray, Dirs, RookDirs, BishopDirs, LanceDir
<1>3. /\ t \in RookAttacks(s, occupied) <=> t \in RookLines[s] /\ Between[s][t] \cap occupied = {}
      /\ t \in BishopAttacks(s, occupied) <=> t \in BishopLines[s] /\ Between[s][t] \cap occupied = {}
      /\ t \in LanceAttacks(s, color, occupied) <=> t \in LanceLines[color][s] /\ Between[s][t] \cap occupied = {}
  BY DEF RookAttacks, BishopAttacks, LanceAttacks, LineAttacks
<1>4. t \in AttacksFrom(s, type, color, occupied)
      <=> t \in StepFrom[color][type][s] \/ (Slides(type, color, s, t) /\ Between[s][t] \cap occupied = {})
  BY <1>3 DEF AttacksFrom, Slides
<1>5. Slides(type, color, s, t) => t \in Squares
  BY <1>2 DEF Slides
<1> QED BY <1>1, <1>4, <1>5 DEF Sees

(* The same line seen from its other end. *)
LEMMA SlidesBack ==
    ASSUME NEW type, NEW color \in Colors, NEW s \in Squares, NEW t \in Squares
    PROVE  Slides(type, color, s, t) <=>
             \/ type = "Lance" /\ s \in LanceLines[Opposite(color)][t]
             \/ type \in {"Bishop", "Horse"} /\ s \in BishopLines[t]
             \/ type \in {"Rook", "Dragon"} /\ s \in RookLines[t]
<1>1. /\ Aligned(s, t) <=> Aligned(t, s)
      /\ Down(t, s) = -Down(s, t) /\ Right(t, s) = -Right(s, t)
      /\ Down(s, t) \in Int /\ Right(s, t) \in Int
  BY TurnRound, Distances DEF Down, Right
<1>2. t \in RookLines[s] <=> s \in RookLines[t]
  BY <1>1, RookLinesIs
<1>3. t \in BishopLines[s] <=> s \in BishopLines[t]
  BY <1>1, BishopLinesIs
<1>4. t \in LanceLines[color][s] <=> s \in LanceLines[Opposite(color)][t]
  <2>1. Way(s, t) = LanceDir(color) <=> Way(t, s) = LanceDir(Opposite(color))
    BY <1>1 DEF Way, Sign, LanceDir, Opposite, Colors
  <2> QED BY <1>1, <2>1, LanceLinesIs, OppositeFacts
<1> QED BY <1>2, <1>3, <1>4 DEF Slides

(* What an exact position says of a square that is not empty. *)
LEMMA OnSquare ==
    ASSUME NEW P, Exact(P), NEW s \in Squares
    PROVE  /\ P.board[s] = NoPiece \/ P.board[s] \in [color : Colors, type : Types]
           /\ P.board[s].color \in Colors => P.board[s].type \in Types /\ P.board[s] # NoPiece
           /\ P.board[s] # NoPiece => P.board[s].color \in Colors
           /\ \A color \in Colors : /\ s \in P.own[color] <=> P.board[s].color = color
                                    /\ \A type \in Types : s \in P.pieces[color][type] <=> P.board[s].color = color /\ P.board[s].type = type
           /\ s \in P.occupied <=> P.board[s] # NoPiece
<1>1. P.board[s] \in {NoPiece} \cup [color : Colors, type : Types]
  BY DEF Exact
<1>2. NoPiece.color \notin Colors
  BY DEF NoPiece, Colors
<1>3. \A color \in Colors, type \in Types : P.board[s] = Piece(color, type) <=> P.board[s].color = color /\ P.board[s].type = type
  BY <1>1, <1>2 DEF Piece
<1>4. /\ \A color \in Colors : s \in P.own[color] <=> P.board[s].color = color
      /\ \A color \in Colors, type \in Types : s \in P.pieces[color][type] <=> P.board[s] = Piece(color, type)
      /\ s \in P.occupied <=> P.board[s] # NoPiece
  BY DEF Exact
<1> QED BY <1>1, <1>2, <1>3, <1>4

LEMMA AlignedSlidersIs ==
    ASSUME NEW P, Exact(P), NEW s \in Squares, NEW by \in Colors, NEW from
    PROVE  from \in AlignedSliders(P, s, by) <=>
              from \in Squares /\ P.board[from].color = by /\ Slides(P.board[from].type, by, from, s)
<1>1. {"Rook", "Dragon", "Bishop", "Horse", "Lance"} \subseteq Types
  BY DEF Types, HandTypes
<1>2. \A type \in Types : P.pieces[by][type] \subseteq Squares
  BY DEF Exact
<1>3. from \in AlignedSliders(P, s, by) <=>
         \/ from \in P.pieces[by]["Rook"] /\ from \in RookLines[s]
         \/ from \in P.pieces[by]["Dragon"] /\ from \in RookLines[s]
         \/ from \in P.pieces[by]["Bishop"] /\ from \in BishopLines[s]
         \/ from \in P.pieces[by]["Horse"] /\ from \in BishopLines[s]
         \/ from \in P.pieces[by]["Lance"] /\ from \in LanceLines[Opposite(by)][s]
  BY DEF AlignedSliders
<1>4. CASE from \in Squares
  <2>1. \A type \in Types : from \in P.pieces[by][type] <=> P.board[from].color = by /\ P.board[from].type = type
    BY <1>4, OnSquare
  <2> QED BY <1>1, <1>3, <1>4, <2>1, SlidesBack
<1>5. CASE from \notin Squares
  BY <1>1, <1>2, <1>3, <1>5
<1> QED BY <1>4, <1>5

(* attackers_to finds the pieces that see the square with nothing in between. *)
LEMMA AttackersIs ==
    ASSUME NEW P, Exact(P), NEW s \in Squares, NEW by \in Colors, NEW occupied, NEW from
    PROVE  from \in AttackersTo(P, s, by, occupied) <=>
              /\ from \in Squares /\ P.board[from].color = by
              /\ Sees(P.board[from].type, by, from, s) /\ Between[s][from] \cap occupied = {}
<1>1. P.own[by] \subseteq Squares
  BY DEF Exact
<1>2. CASE from \in Squares /\ P.board[from].color = by
  <2>1. P.board[from].type \in Types /\ from \in P.own[by]
    BY <1>2, OnSquare
  <2>2. from \in StepTo[by][P.board[from].type][s] <=> s \in StepFrom[by][P.board[from].type][from]
    BY <1>2, <2>1 DEF StepTo, StepFrom
  <2>3. s \in StepFrom[by][P.board[from].type][from] => Between[s][from] = {}
    BY <1>2, <2>1, NoneBetweenStep, BetweenSymmetric
  <2>4. from \in AlignedSliders(P, s, by) <=> Slides(P.board[from].type, by, from, s)
    BY <1>2, AlignedSlidersIs
  <2> QED BY <1>2, <2>1, <2>2, <2>3, <2>4 DEF AttackersTo, Sees
<1>3. CASE ~(from \in Squares /\ P.board[from].color = by)
  <2>1. from \notin P.own[by]
    BY <1>1, <1>3, OnSquare
  <2>2. from \notin AlignedSliders(P, s, by)
    BY <1>3, AlignedSlidersIs
  <2> QED BY <1>3, <2>1, <2>2 DEF AttackersTo
<1> QED BY <1>2, <1>3

(* A referee who has only the board sees the same checks. *)
Attackers(board, s, by) ==
    {from \in Squares : /\ board[from].color = by
                        /\ Sees(board[from].type, by, from, s)
                        /\ Between[s][from] \cap Full(board) = {}}

LEMMA CheckedIs ==
    ASSUME NEW board \in Boards, NEW color \in Colors
    PROVE  Checked(board, color) <=>
              \E king \in Squares : board[king] = Piece(color, "King") /\ Attackers(board, king, Opposite(color)) # {}
<1> DEFINE enemy == Opposite(color)
<1>1. enemy \in Colors
  BY OppositeFacts
<1>2. ASSUME NEW king \in Squares, NEW from \in Squares, board[from].color = enemy
      PROVE  king \in AttacksFrom(from, board[from].type, enemy, Full(board))
             <=> Sees(board[from].type, enemy, from, king) /\ Between[king][from] \cap Full(board) = {}
  <2>1. board[from].type \in Types
    BY <1>1, <1>2 DEF Boards, PieceSet, NoPiece, Colors
  <2>2. Between[king][from] = Between[from][king]
    BY BetweenSymmetric
  <2> QED BY <1>1, <2>1, <2>2, AttackIs
<1>3. Holding(board, enemy) = {s \in Squares : board[s].color = enemy}
  BY DEF Holding
<1> QED BY <1>2, <1>3 DEF Checked, Attackers

LEMMA AttackersOnBoard ==
    ASSUME NEW P, Exact(P), NEW s \in Squares, NEW by \in Colors
    PROVE  AttackersTo(P, s, by, P.occupied) = Attackers(P.board, s, by)
<1>1. P.occupied = Full(P.board)
  BY DEF Exact, Full
<1> QED BY <1>1, AttackersIs DEF Attackers

LEMMA InCheckIsChecked ==
    ASSUME NEW P, Exact(P), NEW color \in Colors
    PROVE  InCheck(P, color) <=> Checked(P.board, color)
<1>1. P.board \in Boards
  BY ExactIs
<1>2. \A king \in Squares : P.board[king] = Piece(color, "King") <=> P.king[color] = king
  BY DEF Exact
<1>3. P.king[color] \in Squares \cup {NoSquare} /\ NoSquare \notin Squares
  BY DEF Exact, NoSquare, Squares
<1>4. \A s \in Squares : AttackersTo(P, s, Opposite(color), P.occupied) = Attackers(P.board, s, Opposite(color))
  BY AttackersOnBoard, OppositeFacts
<1> QED BY <1>1, <1>2, <1>3, <1>4, CheckedIs DEF InCheck

-----------------------------------------------------------------------------
(* The board after a move. *)

Lifted(m) == IF m.drop THEN {} ELSE {m.from}
MovesKing(P, m) == ~m.drop /\ P.board[m.from].type = "King"

LEMMA AfterIs ==
    ASSUME NEW P, Exact(P), NEW m, WellFormed(P, m)
    PROVE  LET next == After(P.board, m, P.side)
               type == IF m.drop THEN m.piece ELSE P.board[m.from].type
               landed == IF m.promote THEN Promote(type) ELSE type
           IN /\ m.to \in Squares /\ m.to \notin Lifted(m) /\ P.side \in Colors /\ landed \in Types
              /\ landed = "King" <=> MovesKing(P, m)
              /\ next \in Boards
              /\ next[m.to] = Piece(P.side, landed)
              /\ \A s \in Lifted(m) : next[s] = NoPiece
              /\ \A s \in Squares : s # m.to /\ s \notin Lifted(m) => next[s] = P.board[s]
<1> DEFINE next == After(P.board, m, P.side)
           type == IF m.drop THEN m.piece ELSE P.board[m.from].type
           landed == IF m.promote THEN Promote(type) ELSE type
<1>1. P.side \in Colors /\ P.board \in Boards
  BY ExactIs
<1>2. m.to \in Squares /\ m.promote \in BOOLEAN /\ m.drop \in BOOLEAN
  BY DEF WellFormed, Fits
<1>3. type \in Types /\ (type = "King" <=> MovesKing(P, m))
  <2>1. CASE m.drop
    BY <2>1, PieceFacts DEF WellFormed, Fits, MovesKing
  <2>2. CASE ~m.drop
    BY <1>1, <2>2, OnSquare DEF WellFormed, Fits, MovesKing
  <2> QED BY <2>1, <2>2
<1>4. landed \in Types /\ (landed = "King" <=> MovesKing(P, m))
  BY <1>3, PromotionFacts
<1>5. m.to \notin Lifted(m)
  BY <1>1 DEF Lifted, WellFormed, Fits
<1>6. m.drop => next = [P.board EXCEPT ![m.to] = Piece(P.side, landed)]
  BY DEF After
<1>7. ~m.drop => next = [P.board EXCEPT ![m.from] = NoPiece, ![m.to] = Piece(P.side, landed)]
  BY DEF After
<1>8. Piece(P.side, landed) \in PieceSet
  BY <1>1, <1>4, PieceFacts
<1>9. ~m.drop => m.from \in Squares
  BY DEF WellFormed, Fits
<1> HIDE DEF next, type, landed
<1>10. next \in Boards
  BY <1>1, <1>2, <1>6, <1>7, <1>8, <1>9 DEF Boards
<1>11. next[m.to] = Piece(P.side, landed)
  BY <1>1, <1>2, <1>6, <1>7 DEF Boards
<1>12. \A s \in Lifted(m) : next[s] = NoPiece
  BY <1>1, <1>2, <1>5, <1>7, <1>9 DEF Boards, Lifted
<1>13. \A s \in Squares : s # m.to /\ s \notin Lifted(m) => next[s] = P.board[s]
  BY <1>1, <1>2, <1>6, <1>7 DEF Boards, Lifted
<1> QED BY <1>1, <1>2, <1>4, <1>5, <1>10, <1>11, <1>12, <1>13 DEF next, landed, type

(* What matters to attacks: the squares taken up, the pieces of the side that
   has not moved, and the king of the side that has. *)
LEMMA AfterMove ==
    ASSUME NEW P, Exact(P), NEW m, WellFormed(P, m)
    PROVE  LET next == After(P.board, m, P.side)
               enemy == Opposite(P.side)
           IN /\ Full(next) = (P.occupied \ Lifted(m)) \cup {m.to}
              /\ \A s \in Squares : next[s].color = enemy <=> s # m.to /\ P.board[s].color = enemy
              /\ \A s \in Squares : next[s].color = enemy => next[s] = P.board[s]
              /\ \A s \in Squares : next[s] = Piece(P.side, "King")
                                    <=> IF MovesKing(P, m) THEN s = m.to ELSE P.king[P.side] = s
              /\ \A s \in Squares : next[s] = Piece(enemy, "King") <=> P.king[enemy] = s
<1> DEFINE next == After(P.board, m, P.side)
           enemy == Opposite(P.side)
           type == IF m.drop THEN m.piece ELSE P.board[m.from].type
           landed == IF m.promote THEN Promote(type) ELSE type
<1>1. /\ m.to \in Squares /\ m.to \notin Lifted(m) /\ P.side \in Colors /\ landed \in Types
      /\ landed = "King" <=> MovesKing(P, m)
      /\ next \in Boards
      /\ next[m.to] = Piece(P.side, landed)
      /\ \A s \in Lifted(m) : next[s] = NoPiece
      /\ \A s \in Squares : s # m.to /\ s \notin Lifted(m) => next[s] = P.board[s]
  BY AfterIs
<1> HIDE DEF next, landed, type
<1>2. enemy \in Colors /\ enemy # P.side
  BY <1>1, OppositeFacts
<1>3. Lifted(m) \subseteq Squares /\ \A s \in Lifted(m) : P.board[s].color = P.side
  BY DEF Lifted, WellFormed, Fits
<1>4. NoPiece.color \notin Colors
  BY PieceFacts
<1>5. next[m.to].color = P.side /\ next[m.to].type = landed /\ next[m.to] # NoPiece
  BY <1>1, PieceFacts
<1>6. Full(next) = (P.occupied \ Lifted(m)) \cup {m.to}
  <2>1. P.occupied = {s \in Squares : P.board[s] # NoPiece}
    BY ExactIs
  <2>2. Full(next) = {s \in Squares : next[s] # NoPiece}
    BY DEF Full
  <2> QED BY <1>1, <1>5, <2>1, <2>2
<1>7. \A s \in Squares : next[s].color = enemy <=> s # m.to /\ P.board[s].color = enemy
  BY <1>1, <1>2, <1>3, <1>4, <1>5
<1>8. \A s \in Squares : next[s].color = enemy => next[s] = P.board[s]
  BY <1>1, <1>2, <1>4, <1>5
<1>9. \A color \in Colors : \A s \in Squares : P.board[s] = Piece(color, "King") <=> P.king[color] = s
  BY DEF Exact
<1>10. \A color \in Colors : Piece(color, "King").color = color /\ Piece(color, "King").type = "King" /\ Piece(color, "King") # NoPiece
  BY PieceFacts
<1>11. ASSUME NEW s \in Squares
       PROVE  next[s] = Piece(P.side, "King") <=> IF MovesKing(P, m) THEN s = m.to ELSE P.king[P.side] = s
  <2>1. CASE s = m.to
    <3>1. next[s] = Piece(P.side, "King") <=> MovesKing(P, m)
      BY <1>1, <1>5, <1>10, <2>1
    <3>2. P.king[P.side] # s
      <4>1. P.board[s].color # P.side
        BY <2>1, <1>1, <1>4 DEF WellFormed, Fits
      <4> QED BY <4>1, <1>1, <1>9, <1>10
    <3> QED BY <3>1, <3>2, <2>1
  <2>2. CASE s # m.to /\ s \in Lifted(m)
    <3>1. next[s] # Piece(P.side, "King")
      BY <1>1, <1>10, <2>2
    <3>2. P.king[P.side] = s => MovesKing(P, m)
      BY <1>1, <1>9, <1>10, <2>2 DEF Lifted, MovesKing
    <3> QED BY <3>1, <3>2, <2>2
  <2>3. CASE s # m.to /\ s \notin Lifted(m)
    <3>1. next[s] = Piece(P.side, "King") <=> P.king[P.side] = s
      BY <1>1, <1>9, <2>3
    <3>2. MovesKing(P, m) => P.king[P.side] # s
      <4> SUFFICES ASSUME MovesKing(P, m) PROVE P.king[P.side] # s
        OBVIOUS
      <4>1. m.from \in Squares /\ P.board[m.from] = Piece(P.side, "King") /\ m.from # s
        BY <1>1, <2>3, OnSquare, PieceFacts DEF MovesKing, Lifted, WellFormed, Fits, Piece
      <4> QED BY <1>1, <1>9, <4>1
    <3> QED BY <3>1, <3>2, <2>3
  <2> QED BY <2>1, <2>2, <2>3
<1>12. ASSUME NEW s \in Squares
       PROVE  next[s] = Piece(enemy, "King") <=> P.king[enemy] = s
  <2>1. P.board[m.to] # Piece(enemy, "King")
    BY <1>2, <1>10, PieceFacts DEF WellFormed, Fits
  <2>2. next[s] = Piece(enemy, "King") <=> P.board[s] = Piece(enemy, "King")
    BY <1>1, <1>2, <1>3, <1>5, <1>10, <2>1
  <2> QED BY <1>2, <1>9, <2>2
<1> QED BY <1>6, <1>7, <1>8, <1>11, <1>12 DEF next, enemy

-----------------------------------------------------------------------------
(* Lines of sight to a square. *)

(* The pieces of a color that would attack the square on an empty board, and what
   stands in their way. *)
Watchers(P, s, by) ==
    {from \in Squares : P.board[from].color = by /\ Sees(P.board[from].type, by, from, s)}
Screen(P, s, from) == Between[s][from] \cap P.occupied

LEMMA SeesAnother ==
    ASSUME NEW type \in Types, NEW color \in Colors, NEW s \in Squares, NEW t \in Squares,
           Sees(type, color, s, t)
    PROVE  s # t /\ (Between[t][s] # {} => Slides(type, color, s, t))
BY NoneBetweenStep, SlidesOnLines, TurnRound, BetweenSymmetric DEF Sees

LEMMA WatcherFacts ==
    ASSUME NEW P, Exact(P), NEW s \in Squares, NEW by \in Colors, NEW from \in Watchers(P, s, by)
    PROVE  /\ from \in Squares /\ from # s /\ from \in P.occupied /\ P.board[from].color = by
           /\ P.board[from].type \in Types
           /\ Between[s][from] # {} => from \in AlignedSliders(P, s, by)
<1>1. from \in Squares /\ P.board[from].color = by /\ Sees(P.board[from].type, by, from, s)
  BY DEF Watchers
<1>2. P.board[from].type \in Types /\ from \in P.occupied
  BY <1>1, OnSquare
<1>3. from # s /\ (Between[s][from] # {} => Slides(P.board[from].type, by, from, s))
  BY <1>1, <1>2, SeesAnother
<1> QED BY <1>1, <1>2, <1>3, AlignedSlidersIs

LEMMA AttackersWatch ==
    ASSUME NEW P, Exact(P), NEW s \in Squares, NEW by \in Colors, NEW occupied
    PROVE  AttackersTo(P, s, by, occupied) = {f \in Watchers(P, s, by) : Between[s][f] \cap occupied = {}}
BY AttackersIs DEF Watchers

LEMMA SlidersWatch ==
    ASSUME NEW P, Exact(P), NEW s \in Squares, NEW by \in Colors, NEW from \in AlignedSliders(P, s, by)
    PROVE  from \in Watchers(P, s, by)
BY AlignedSlidersIs DEF Watchers, Sees

(* Two that look past the same square: one stands in the way of the other. *)
LEMMA PastTheSame ==
    ASSUME NEW s \in Squares, NEW f \in Squares, NEW g \in Squares, f # g,
           NEW x \in Between[s][f], x \in Between[s][g] \/ x = g
    PROVE  f \in Between[s][g] \/ g \in Between[s][f]
<1>1. x \in Squares /\ Aligned(s, f) /\ Way(s, x) = Way(s, f)
  BY BetweenFacts
<1>2. CASE x = g
  BY <1>2
<1>3. CASE x \in Between[s][g]
  <2>1. Aligned(s, g) /\ Way(s, x) = Way(s, g)
    BY <1>3, BetweenFacts
  <2> QED BY <1>1, <2>1, OneBehindTheOther
<1> QED BY <1>2, <1>3

-----------------------------------------------------------------------------
(* A move that is not the king's is safe when it stops every watcher. *)

LEMMA OtherMoveChecked ==
    ASSUME NEW P, Exact(P), NEW m, WellFormed(P, m), ~MovesKing(P, m)
    PROVE  Checked(After(P.board, m, P.side), P.side) <=>
             LET king == P.king[P.side]
             IN /\ king \in Squares
                /\ \E f \in Watchers(P, king, Opposite(P.side)) :
                      f # m.to /\ Between[king][f] \cap ((P.occupied \ Lifted(m)) \cup {m.to}) = {}
<1> DEFINE next == After(P.board, m, P.side)
           king == P.king[P.side]
           enemy == Opposite(P.side)
<1>1. P.side \in Colors /\ enemy \in Colors
  BY ExactIs, OppositeFacts
<1>2. next \in Boards
  BY AfterIs
<1>3. /\ Full(next) = (P.occupied \ Lifted(m)) \cup {m.to}
      /\ \A s \in Squares : next[s].color = enemy <=> s # m.to /\ P.board[s].color = enemy
      /\ \A s \in Squares : next[s].color = enemy => next[s] = P.board[s]
      /\ \A s \in Squares : next[s] = Piece(P.side, "King") <=> king = s
  BY AfterMove
<1> HIDE DEF next
<1>4. Checked(next, P.side) <=> king \in Squares /\ Attackers(next, king, enemy) # {}
  BY <1>1, <1>2, <1>3, CheckedIs
<1>5. ASSUME king \in Squares, NEW f
      PROVE  f \in Attackers(next, king, enemy) <=>
               /\ f \in Watchers(P, king, enemy)
               /\ f # m.to /\ Between[king][f] \cap ((P.occupied \ Lifted(m)) \cup {m.to}) = {}
  BY <1>3 DEF Attackers, Watchers
<1> QED BY <1>4, <1>5 DEF next

LEMMA KingMoveChecked ==
    ASSUME NEW P, Exact(P), NEW m, WellFormed(P, m), MovesKing(P, m)
    PROVE  Checked(After(P.board, m, P.side), P.side)
             <=> AttackersTo(P, m.to, Opposite(P.side), P.occupied \ {m.from}) # {}
<1> DEFINE next == After(P.board, m, P.side)
           enemy == Opposite(P.side)
<1>1. P.side \in Colors /\ enemy \in Colors /\ m.to \in Squares
  BY ExactIs, OppositeFacts DEF WellFormed, Fits
<1>2. next \in Boards
  BY AfterIs
<1>3. /\ Full(next) = (P.occupied \ {m.from}) \cup {m.to}
      /\ \A s \in Squares : next[s].color = enemy <=> s # m.to /\ P.board[s].color = enemy
      /\ \A s \in Squares : next[s].color = enemy => next[s] = P.board[s]
      /\ \A s \in Squares : next[s] = Piece(P.side, "King") <=> s = m.to
  BY AfterMove DEF Lifted, MovesKing
<1> HIDE DEF next
<1>4. Checked(next, P.side) <=> Attackers(next, m.to, enemy) # {}
  BY <1>1, <1>2, <1>3, CheckedIs
<1>5. ASSUME NEW f
      PROVE  f \in Attackers(next, m.to, enemy) <=> f \in AttackersTo(P, m.to, enemy, P.occupied \ {m.from})
  <2>1. f \in AttackersTo(P, m.to, enemy, P.occupied \ {m.from})
          <=> f \in Watchers(P, m.to, enemy) /\ Between[m.to][f] \cap (P.occupied \ {m.from}) = {}
    BY <1>1, AttackersWatch
  <2>2. f \in Watchers(P, m.to, enemy) => f # m.to /\ f \in Squares
    BY <1>1, WatcherFacts
  <2>3. f \in Squares => m.to \notin Between[m.to][f]
    BY <1>1, BetweenFacts
  <2>4. f \in Attackers(next, m.to, enemy) <=>
          f \in Watchers(P, m.to, enemy) /\ f # m.to /\ Between[m.to][f] \cap Full(next) = {}
    BY <1>3 DEF Attackers, Watchers
  <2> QED BY <1>3, <2>1, <2>2, <2>3, <2>4
<1> QED BY <1>4, <1>5 DEF next

-----------------------------------------------------------------------------
(* Pins. *)

LEMMA SquaresFinite == IsFiniteSet(Squares) /\ \A S \in SUBSET Squares : IsFiniteSet(S)
<1>1. Rows * Cols - 1 \in Int
  BY BoardAssumption
<1>2. IsFiniteSet(Squares)
  BY <1>1, FS_Interval DEF Squares
<1> QED BY <1>2, FS_Subset

LEMMA OneElement ==
    ASSUME NEW S \in SUBSET Squares
    PROVE  /\ Cardinality(S) = 1 <=> \E x : S = {x}
           /\ Cardinality(S) > 1 <=> \E x, y \in S : x # y
           /\ Cardinality(S) \in Nat
<1>1. IsFiniteSet(S)
  BY SquaresFinite
<1>2. Cardinality(S) \in Nat /\ (Cardinality(S) = 0 <=> S = {}) /\ (Cardinality(S) = 1 <=> \E x : S = {x})
  BY <1>1, FS_CardinalityType, FS_EmptySet, FS_Singleton
<1>3. (\E x, y \in S : x # y) <=> S # {} /\ ~\E x : S = {x}
  OBVIOUS
<1> QED BY <1>2, <1>3

LEMMA TheOneIs == \A x : TheOne({x}) = x
BY DEF TheOne

(* A watcher whose only screen is one piece is found with that piece, and it is
   the only one. *)
LEMMA OneWatcherBehind ==
    ASSUME NEW P, Exact(P), NEW s \in Squares, NEW by \in Colors, NEW b,
           NEW f \in Watchers(P, s, by), NEW g \in Watchers(P, s, by),
           Screen(P, s, f) = {b}, Screen(P, s, g) = {b}
    PROVE  f = g
<1>1. SUFFICES ASSUME f # g PROVE FALSE
  OBVIOUS
<1>2. f \in Squares /\ g \in Squares /\ f \in P.occupied /\ g \in P.occupied
  BY WatcherFacts
<1>3. b \in Between[s][f] /\ b \in Between[s][g]
  BY DEF Screen
<1>4. b # f /\ b # g
  BY <1>2, <1>3, BetweenFacts
<1>5. f \in Between[s][g] \/ g \in Between[s][f]
  BY <1>1, <1>2, <1>3, PastTheSame
<1> QED BY <1>2, <1>4, <1>5 DEF Screen

LEMMA PinsAre ==
    ASSUME NEW P, Exact(P), NEW s \in Squares, NEW color \in Colors, NEW by \in Colors
    PROVE  LET pins == LinePins(P, s, color, by)
           IN /\ \A b : b \in DOMAIN pins <=>
                    P.board[b].color = color /\ \E f \in Watchers(P, s, by) : Screen(P, s, f) = {b}
              /\ \A b \in DOMAIN pins : \A f \in Watchers(P, s, by) : Screen(P, s, f) = {b} => pins[b] = f
<1> DEFINE Blockers(x) == Between[s][x] \cap P.occupied
           pinning == {x \in AlignedSliders(P, s, by) :
                         Cardinality(Blockers(x)) = 1 /\ P.board[TheOne(Blockers(x))].color = color}
           pins == [b \in {TheOne(Blockers(x)) : x \in pinning} |->
                      TheOne({x \in pinning : Blockers(x) = {b}})]
<1>1. LinePins(P, s, color, by) = pins
  BY DEF LinePins
<1>2. \A x : Blockers(x) = Screen(P, s, x)
  BY DEF Screen
<1>3. \A x \in Watchers(P, s, by) : Screen(P, s, x) \subseteq Squares
  BY WatcherFacts, BetweenFacts DEF Screen
<1>4. ASSUME NEW x
      PROVE  x \in pinning <=> x \in Watchers(P, s, by)
                               /\ \E b : Screen(P, s, x) = {b} /\ P.board[b].color = color
  <2>1. x \in AlignedSliders(P, s, by) => x \in Watchers(P, s, by)
    BY SlidersWatch
  <2>2. x \in Watchers(P, s, by) /\ (\E b : Screen(P, s, x) = {b}) => x \in AlignedSliders(P, s, by)
    BY WatcherFacts DEF Screen
  <2>3. x \in Watchers(P, s, by) => (Cardinality(Screen(P, s, x)) = 1 <=> \E b : Screen(P, s, x) = {b})
    BY <1>3, OneElement
  <2>4. x \in pinning <=> /\ x \in AlignedSliders(P, s, by) /\ Cardinality(Screen(P, s, x)) = 1
                          /\ P.board[TheOne(Screen(P, s, x))].color = color
    BY <1>2
  <2>5. (\E b : Screen(P, s, x) = {b}) =>
           (P.board[TheOne(Screen(P, s, x))].color = color <=> \E b : Screen(P, s, x) = {b} /\ P.board[b].color = color)
    BY TheOneIs
  <2> QED BY <2>1, <2>2, <2>3, <2>4, <2>5
<1>5. ASSUME NEW b
      PROVE  b \in DOMAIN pins <=> P.board[b].color = color /\ \E f \in Watchers(P, s, by) : Screen(P, s, f) = {b}
  <2>1. b \in DOMAIN pins <=> \E x \in pinning : b = TheOne(Screen(P, s, x))
    BY <1>2
  <2> HIDE DEF pins, pinning, Blockers
  <2>2. ASSUME b \in DOMAIN pins
        PROVE  P.board[b].color = color /\ \E f \in Watchers(P, s, by) : Screen(P, s, f) = {b}
    <3>1. PICK x \in pinning : b = TheOne(Screen(P, s, x))
      BY <2>1, <2>2
    <3>2. PICK c : x \in Watchers(P, s, by) /\ Screen(P, s, x) = {c} /\ P.board[c].color = color
      BY <1>4, <3>1
    <3> QED BY <3>1, <3>2, TheOneIs
  <2>3. ASSUME P.board[b].color = color, NEW f \in Watchers(P, s, by), Screen(P, s, f) = {b}
        PROVE  b \in DOMAIN pins
    <3>1. f \in pinning
      BY <1>4, <2>3
    <3> QED BY <2>1, <2>3, <3>1, TheOneIs
  <2> QED BY <2>2, <2>3
<1>6. ASSUME NEW b \in DOMAIN pins, NEW f \in Watchers(P, s, by), Screen(P, s, f) = {b}
      PROVE  pins[b] = f
  <2>1. pins[b] = TheOne({x \in pinning : Screen(P, s, x) = {b}})
    BY <1>2
  <2>2. P.board[b].color = color
    BY <1>5
  <2> HIDE DEF pins, pinning, Blockers
  <2>3. {x \in pinning : Screen(P, s, x) = {b}} = {f}
    <3>1. f \in pinning
      BY <1>4, <1>6, <2>2
    <3>2. ASSUME NEW x \in pinning, Screen(P, s, x) = {b} PROVE x = f
      <4>1. x \in Watchers(P, s, by)
        BY <1>4
      <4> QED BY <1>6, <3>2, <4>1, OneWatcherBehind
    <3> QED BY <1>6, <3>1, <3>2
  <2> QED BY <2>1, <2>3, TheOneIs
<1> HIDE DEF pins
<1> QED BY <1>1, <1>5, <1>6

-----------------------------------------------------------------------------
(* What prepare_gen_state finds, and what it is good for. *)

LEMMA Alone ==
    ASSUME NEW S \in SUBSET Squares, Cardinality(S) = 1
    PROVE  S = {TheOne(S)}
<1>1. PICK x : S = {x}
  BY OneElement
<1> QED BY <1>1, TheOneIs

(* The squares on which a move stops a watcher. *)
Stops(s, f) == {f} \cup Between[s][f]

LEMMA StateIs ==
    ASSUME NEW P, Exact(P)
    PROVE  LET king == P.king[P.side]
               state == GenState(P, P.side)
               W == Watchers(P, king, Opposite(P.side))
           IN /\ state.color = P.side
              /\ king \notin Squares => /\ state.checkers = {} /\ state.mask = Squares
                                        /\ DOMAIN state.pinLine = {}
              /\ king \in Squares =>
                   /\ state.checkers = {f \in W : Screen(P, king, f) = {}}
                   /\ state.mask = IF Cardinality(state.checkers) = 1
                                   THEN Stops(king, TheOne(state.checkers)) ELSE Squares
                   /\ DOMAIN state.pinLine = DOMAIN LinePins(P, king, P.side, Opposite(P.side))
                   /\ \A b : b \in DOMAIN state.pinLine <=>
                         P.board[b].color = P.side /\ \E f \in W : Screen(P, king, f) = {b}
                   /\ \A b \in DOMAIN state.pinLine : \A f \in W :
                         Screen(P, king, f) = {b} => state.pinLine[b] = Stops(king, f)
<1> DEFINE king == P.king[P.side]
           enemy == Opposite(P.side)
           state == GenState(P, P.side)
           W == Watchers(P, king, enemy)
           pins == IF king = NoSquare THEN << >> ELSE LinePins(P, king, P.side, enemy)
           checkers == IF king = NoSquare THEN {} ELSE AttackersTo(P, king, enemy, P.occupied)
<1>1. P.side \in Colors /\ enemy \in Colors /\ king \in Squares \cup {NoSquare} /\ NoSquare \notin Squares
  BY ExactIs, OppositeFacts, PieceFacts
<1>2. /\ state.color = P.side
      /\ state.checkers = checkers
      /\ state.mask = IF Cardinality(checkers) = 1
                      THEN checkers \cup Between[king][TheOne(checkers)] ELSE Squares
      /\ state.pinLine = [b \in DOMAIN pins |-> Between[king][pins[b]] \cup {pins[b]}]
  BY DEF GenState
<1> HIDE DEF state
<1>3. ASSUME king \notin Squares
      PROVE  state.checkers = {} /\ state.mask = Squares /\ DOMAIN state.pinLine = {}
  <2>1. king = NoSquare
    BY <1>1, <1>3
  <2>2. checkers = {} /\ pins = << >>
    BY <2>1
  <2>3. Cardinality({}) = 0
    BY FS_EmptySet
  <2>4. DOMAIN pins = {}
    BY <2>2
  <2> HIDE DEF pins, checkers
  <2> QED BY <1>2, <2>2, <2>3, <2>4
<1>4. ASSUME king \in Squares
      PROVE  /\ state.checkers = {f \in W : Screen(P, king, f) = {}}
             /\ state.mask = IF Cardinality(state.checkers) = 1
                             THEN Stops(king, TheOne(state.checkers)) ELSE Squares
             /\ DOMAIN state.pinLine = DOMAIN LinePins(P, king, P.side, enemy)
             /\ \A b : b \in DOMAIN state.pinLine <=>
                   P.board[b].color = P.side /\ \E f \in W : Screen(P, king, f) = {b}
             /\ \A b \in DOMAIN state.pinLine : \A f \in W :
                   Screen(P, king, f) = {b} => state.pinLine[b] = Stops(king, f)
  <2>1. king # NoSquare
    BY <1>1, <1>4
  <2>2. checkers = {f \in W : Screen(P, king, f) = {}}
    BY <1>1, <1>4, <2>1, AttackersWatch DEF Screen
  <2>3. checkers \subseteq Squares
    BY <2>2 DEF Watchers
  <2>4. state.mask = IF Cardinality(checkers) = 1 THEN Stops(king, TheOne(checkers)) ELSE Squares
    <3>1. Cardinality(checkers) = 1 => checkers = {TheOne(checkers)}
      BY <2>3, Alone
    <3> HIDE DEF checkers
    <3> QED BY <1>2, <3>1 DEF Stops
  <2>5. pins = LinePins(P, king, P.side, enemy)
    BY <2>1
  <2> HIDE DEF pins, checkers
  <2>6. /\ \A b : b \in DOMAIN pins <=> P.board[b].color = P.side /\ \E f \in W : Screen(P, king, f) = {b}
        /\ \A b \in DOMAIN pins : \A f \in W : Screen(P, king, f) = {b} => pins[b] = f
    <3>1. P.side \in Colors /\ enemy \in Colors /\ king \in Squares
      BY <1>1, <1>4
    <3> HIDE DEF king, enemy
    <3>2. LET xs == LinePins(P, king, P.side, enemy)
          IN /\ \A b : b \in DOMAIN xs <=> P.board[b].color = P.side /\ \E f \in Watchers(P, king, enemy) : Screen(P, king, f) = {b}
             /\ \A b \in DOMAIN xs : \A f \in Watchers(P, king, enemy) : Screen(P, king, f) = {b} => xs[b] = f
      BY <3>1, PinsAre
    <3> QED BY <2>5, <3>2
  <2> HIDE DEF W
  <2> QED BY <1>2, <2>2, <2>4, <2>5, <2>6 DEF Stops
<1> QED BY <1>2, <1>3, <1>4 DEF state

(* One square cannot stop two watchers of which neither stands before the other. *)
LEMMA StopsOne ==
    ASSUME NEW s \in Squares, NEW f \in Squares, NEW g \in Squares, NEW x \in Stops(s, f), x \in Stops(s, g),
           f \notin Between[s][g], g \notin Between[s][f]
    PROVE  f = g
<1>1. CASE x = f /\ x = g
  BY <1>1
<1>2. CASE x \in Between[s][f]
  BY <1>2, PastTheSame DEF Stops
<1>3. CASE x \in Between[s][g]
  BY <1>3, PastTheSame DEF Stops
<1> QED BY <1>1, <1>2, <1>3 DEF Stops

(* The moves that leave the king safe: they stop the only checker, and a pinned
   piece stays on its line. *)
Allowed(state, m) ==
    /\ Cardinality(state.checkers) <= 1 /\ m.to \in state.mask
    /\ ~m.drop /\ m.from \in DOMAIN state.pinLine => m.to \in state.pinLine[m.from]

LEMMA CheckersStopped ==
    ASSUME NEW P, Exact(P), P.king[P.side] \in Squares, NEW x \in Squares
    PROVE  LET state == GenState(P, P.side)
           IN Cardinality(state.checkers) <= 1 /\ x \in state.mask
                <=> \A f \in state.checkers : x \in Stops(P.king[P.side], f)
<1> DEFINE king == P.king[P.side]
           enemy == Opposite(P.side)
           W == Watchers(P, king, enemy)
           state == GenState(P, P.side)
<1>1. P.side \in Colors /\ enemy \in Colors /\ king \in Squares
  BY ExactIs, OppositeFacts
<1>2. /\ state.checkers = {f \in W : Screen(P, king, f) = {}}
      /\ state.mask = IF Cardinality(state.checkers) = 1
                      THEN Stops(king, TheOne(state.checkers)) ELSE Squares
  BY <1>1, StateIs
<1>3. \A f \in W : f \in Squares /\ f \in P.occupied
  BY <1>1, WatcherFacts
<1> HIDE DEF king, W, state
<1>4. state.checkers \subseteq Squares
  BY <1>2, <1>3
<1>5. Cardinality(state.checkers) = 1 => state.checkers = {TheOne(state.checkers)}
  BY <1>4, Alone
<1>6. Cardinality(state.checkers) \in Nat /\ (Cardinality(state.checkers) > 1 <=> \E f, g \in state.checkers : f # g)
  BY <1>4, OneElement
<1>7. ASSUME \A f \in state.checkers : x \in Stops(king, f)
      PROVE  Cardinality(state.checkers) <= 1
  <2>1. SUFFICES ASSUME NEW f \in state.checkers, NEW g \in state.checkers PROVE f = g
    BY <1>6
  <2>2. f \notin Between[king][g] /\ g \notin Between[king][f]
    BY <1>2, <1>3 DEF Screen
  <2> QED BY <1>1, <1>4, <1>7, <2>2, StopsOne
<1>8. Cardinality(state.checkers) <= 1 => state.checkers = {} \/ Cardinality(state.checkers) = 1
  <2>1. IsFiniteSet(state.checkers)
    BY <1>4, SquaresFinite
  <2> QED BY <1>6, <2>1, FS_EmptySet
<1>9. Cardinality({}) = 0
  BY FS_EmptySet
<1> QED BY <1>2, <1>5, <1>7, <1>8, <1>9 DEF king, state

LEMMA AllowedMovesAreSafe ==
    ASSUME NEW P, Exact(P), NEW m, WellFormed(P, m), ~MovesKing(P, m)
    PROVE  ~Checked(After(P.board, m, P.side), P.side) <=> Allowed(GenState(P, P.side), m)
<1> DEFINE king == P.king[P.side]
           enemy == Opposite(P.side)
           W == Watchers(P, king, enemy)
           state == GenState(P, P.side)
           checked == Checked(After(P.board, m, P.side), P.side)
<1>1. P.side \in Colors /\ enemy \in Colors /\ m.to \in Squares
  BY ExactIs, OppositeFacts DEF WellFormed, Fits
<1>2. checked <=> /\ king \in Squares
                  /\ \E f \in W : /\ f # m.to
                                  /\ Between[king][f] \cap ((P.occupied \ Lifted(m)) \cup {m.to}) = {}
  BY OtherMoveChecked
<1>3. CASE king \notin Squares
  <2>1. state.checkers = {} /\ state.mask = Squares /\ DOMAIN state.pinLine = {}
    BY <1>3, StateIs
  <2>2. Cardinality({}) = 0
    BY FS_EmptySet
  <2> QED BY <1>1, <1>2, <1>3, <2>1, <2>2 DEF Allowed
<1>4. CASE king \in Squares
  <2>1. /\ state.checkers = {f \in W : Screen(P, king, f) = {}}
        /\ \A b : b \in DOMAIN state.pinLine <=>
              P.board[b].color = P.side /\ \E f \in W : Screen(P, king, f) = {b}
        /\ \A b \in DOMAIN state.pinLine : \A f \in W :
              Screen(P, king, f) = {b} => state.pinLine[b] = Stops(king, f)
    BY <1>4, StateIs
  <2>2. Cardinality(state.checkers) <= 1 /\ m.to \in state.mask
          <=> \A f \in state.checkers : m.to \in Stops(king, f)
    BY <1>1, <1>4, CheckersStopped
  <2>3. ~m.drop => P.board[m.from].color = P.side
    BY DEF WellFormed, Fits
  <2> HIDE DEF W, state, checked, king
  <2>4. ~checked <=> \A f \in W : m.to \in Stops(king, f) \/ Screen(P, king, f) \ Lifted(m) # {}
    BY <1>2, <1>4 DEF Stops, Screen
  <2>5. (\A f \in W : m.to \in Stops(king, f) \/ Screen(P, king, f) \ Lifted(m) # {})
          <=> /\ \A f \in W : Screen(P, king, f) = {} => m.to \in Stops(king, f)
              /\ ~m.drop => \A f \in W : Screen(P, king, f) = {m.from} => m.to \in Stops(king, f)
    BY DEF Lifted
  <2>6. ~m.drop =>
          ((\A f \in W : Screen(P, king, f) = {m.from} => m.to \in Stops(king, f))
             <=> (m.from \in DOMAIN state.pinLine => m.to \in state.pinLine[m.from]))
    <3> SUFFICES ASSUME ~m.drop
                 PROVE  (\A f \in W : Screen(P, king, f) = {m.from} => m.to \in Stops(king, f))
                          <=> (m.from \in DOMAIN state.pinLine => m.to \in state.pinLine[m.from])
      OBVIOUS
    <3>1. CASE m.from \notin DOMAIN state.pinLine
      BY <2>1, <2>3, <3>1
    <3>2. CASE m.from \in DOMAIN state.pinLine
      <4>1. PICK g \in W : Screen(P, king, g) = {m.from}
        BY <2>1, <3>2
      <4>2. \A f \in W : Screen(P, king, f) = {m.from} => state.pinLine[m.from] = Stops(king, f)
        BY <2>1, <3>2
      <4> QED BY <3>2, <4>1, <4>2
    <3> QED BY <3>1, <3>2
  <2> QED BY <2>1, <2>2, <2>4, <2>5, <2>6 DEF Allowed, checked, state
<1> QED BY <1>3, <1>4

-----------------------------------------------------------------------------
(* The moves on the board and the drops of the rules, one by one. *)

(* A move the way of its piece, to a square that may be taken. *)
Reaches(P, from, to) ==
    /\ from \in Squares /\ P.board[from].color = P.side
    /\ to \in Squares /\ P.board[to].color # P.side /\ P.board[to].type # "King"
    /\ Sees(P.board[from].type, P.side, from, to) /\ Between[from][to] \cap P.occupied = {}
MayPromote(P, m, p) ==
    /\ p \in BOOLEAN
    /\ p => /\ CanPromote(m.piece)
            /\ InPromotionZone(P.side, m.from) \/ InPromotionZone(P.side, m.to)
    /\ MustPromote(m.piece, P.side, m.to) => p

LEMMA MoveFields ==
    \A from, to, piece, promote :
        LET m == Move(from, to, piece, promote)
        IN m.from = from /\ m.to = to /\ m.piece = piece /\ m.promote = promote /\ m.drop = FALSE
BY DEF Move

LEMMA DropFields ==
    \A to, piece :
        LET m == Drop(to, piece)
        IN m.from = NoSquare /\ m.to = to /\ m.piece = piece /\ m.promote = FALSE /\ m.drop = TRUE
BY DEF Drop

LEMMA BoardMovesAre ==
    ASSUME NEW P, Exact(P), NEW m
    PROVE  m \in BoardMoves(P.board, P.side) <=>
              /\ m = Move(m.from, m.to, P.board[m.from].type, m.promote)
              /\ Reaches(P, m.from, m.to)
              /\ MayPromote(P, m, m.promote)
<1> DEFINE board == P.board
           color == P.side
           Reach == UNION {{<<from, to>> : to \in AttacksFrom(from, board[from].type, color, Full(board))} :
                            from \in Holding(board, color)}
           Fine(x) == /\ board[x.to].color # color /\ board[x.to].type # "King"
                      /\ x.promote => /\ CanPromote(x.piece)
                                      /\ \/ InPromotionZone(color, x.from)
                                         \/ InPromotionZone(color, x.to)
                      /\ MustPromote(x.piece, color, x.to) => x.promote
           All == {Move(r[1], r[2], board[r[1]].type, p) : r \in Reach, p \in BOOLEAN}
<1>1. m \in BoardMoves(board, color) <=> m \in All /\ Fine(m)
  BY DEF BoardMoves
<1>2. color \in Colors /\ P.occupied = Full(board)
  BY ExactIs DEF Full
<1>3. ASSUME NEW r
      PROVE  r \in Reach <=> /\ r = <<r[1], r[2]>>
                             /\ r[1] \in Squares /\ board[r[1]].color = color /\ r[2] \in Squares
                             /\ Sees(board[r[1]].type, color, r[1], r[2]) /\ Between[r[1]][r[2]] \cap P.occupied = {}
  <2>1. r \in Reach <=> \E from \in Squares : /\ board[from].color = color
                                              /\ \E to \in AttacksFrom(from, board[from].type, color, P.occupied) : r = <<from, to>>
    BY <1>2 DEF Holding
  <2>2. \A from \in Squares : board[from].color = color =>
           \A to : to \in AttacksFrom(from, board[from].type, color, P.occupied) <=>
              to \in Squares /\ Sees(board[from].type, color, from, to) /\ Between[from][to] \cap P.occupied = {}
    BY <1>2, OnSquare, AttackIs
  <2> HIDE DEF Reach
  <2> QED BY <2>1, <2>2
<1> HIDE DEF Reach
<1>4. m \in All <=> \E r \in Reach, p \in BOOLEAN : m = Move(r[1], r[2], board[r[1]].type, p)
  OBVIOUS
<1>5. ASSUME m \in All, Fine(m)
      PROVE  /\ m = Move(m.from, m.to, board[m.from].type, m.promote)
             /\ Reaches(P, m.from, m.to) /\ MayPromote(P, m, m.promote)
  <2>1. PICK r \in Reach, p \in BOOLEAN : m = Move(r[1], r[2], board[r[1]].type, p)
    BY <1>4, <1>5
  <2>2. m.from = r[1] /\ m.to = r[2] /\ m.promote = p
    BY <2>1, MoveFields
  <2> QED BY <1>3, <1>5, <2>1, <2>2 DEF Reaches, MayPromote
<1>6. ASSUME m = Move(m.from, m.to, board[m.from].type, m.promote),
             Reaches(P, m.from, m.to), MayPromote(P, m, m.promote)
      PROVE  m \in All /\ Fine(m)
  <2>1. <<m.from, m.to>> \in Reach
    BY <1>3, <1>6 DEF Reaches
  <2>2. m.promote \in BOOLEAN /\ <<m.from, m.to>>[1] = m.from /\ <<m.from, m.to>>[2] = m.to
    BY <1>6 DEF MayPromote
  <2> QED BY <1>4, <1>6, <2>1, <2>2 DEF Reaches, MayPromote
<1> HIDE DEF All, Fine
<1> QED BY <1>1, <1>5, <1>6

LEMMA DropsAre ==
    ASSUME NEW P, Exact(P), NEW m, NEW hands, NEW side, P.side = side, P.hands[side] = hands[side]
    PROVE  m \in Drops(P.board, hands, side) <=>
              /\ m = Drop(m.to, m.piece) /\ m.piece \in HandTypes /\ P.hands[P.side][m.piece] > 0
              /\ m.to \in DropTargets(P, P.side, m.piece)
<1>1. P.side \in Colors /\ P.board \in Boards /\ P.occupied = Full(P.board)
  BY ExactIs DEF Full
<1>2. P.occupied \subseteq Squares
  BY <1>1 DEF Full
<1>3. ASSUME NEW t, t \in HandTypes, NEW s
      PROVE  s \in DropTargets(P, P.side, t) <=>
                /\ s \in Squares \ P.occupied /\ ~MustPromote(t, P.side, s)
                /\ t = "Pawn" => Col(s) \notin PawnFiles(P, P.side)
  BY <1>1, <1>3 DEF DropTargets, DropMask
<1>4. ASSUME NEW c
      PROVE  c \in PawnFiles(P, P.side) <=> \E s \in Squares : Col(s) = c /\ P.board[s] = Piece(P.side, "Pawn")
  <2>1. "Pawn" \in Types
    BY DEF Types, HandTypes
  <2>2. P.pieces[P.side]["Pawn"] = {s \in Squares : P.board[s] = Piece(P.side, "Pawn")}
    <3>1. P.pieces = PiecesOf(P.board)
      BY ExactIs
    <3> QED BY <1>1, <2>1, <3>1 DEF PiecesOf
  <2> QED BY <2>2 DEF PawnFiles
<1>5. m \in Drops(P.board, hands, side) <=>
         /\ \E to \in Squares \ P.occupied, t \in HandTypes : m = Drop(to, t)
         /\ P.hands[P.side][m.piece] > 0
         /\ ~MustPromote(m.piece, P.side, m.to)
         /\ m.piece = "Pawn" => \A s \in Squares : Col(s) = Col(m.to) => P.board[s] # Piece(P.side, "Pawn")
  BY <1>1 DEF Drops
<1>6. (\E to \in Squares \ P.occupied, t \in HandTypes : m = Drop(to, t))
        <=> m = Drop(m.to, m.piece) /\ m.to \in Squares \ P.occupied /\ m.piece \in HandTypes
  BY DropFields
<1> QED BY <1>3, <1>4, <1>5, <1>6

(* Both are moves that make_move may be given. *)
LEMMA RulesFit ==
    ASSUME NEW P, Exact(P), NEW m, m \in BoardMoves(P.board, P.side) \cup Drops(P.board, P.hands, P.side)
    PROVE  /\ WellFormed(P, m)
           /\ m \in BoardMoves(P.board, P.side) <=> ~m.drop
           /\ m \in Drops(P.board, P.hands, P.side) <=> m.drop
<1>1. P.side \in Colors /\ P.board \in Boards
  BY ExactIs
<1>2. ASSUME m \in BoardMoves(P.board, P.side)
      PROVE  WellFormed(P, m) /\ m.drop = FALSE
  <2>1. /\ m = Move(m.from, m.to, P.board[m.from].type, m.promote)
        /\ Reaches(P, m.from, m.to) /\ MayPromote(P, m, m.promote)
    BY <1>2, BoardMovesAre
  <2>2. m.piece = P.board[m.from].type /\ m.drop = FALSE
    BY <2>1, MoveFields
  <2> QED BY <2>1, <2>2 DEF WellFormed, Fits, Reaches, MayPromote
<1>3. ASSUME m \in Drops(P.board, P.hands, P.side)
      PROVE  WellFormed(P, m) /\ m.drop = TRUE
  <2>1. /\ m = Drop(m.to, m.piece) /\ m.piece \in HandTypes /\ P.hands[P.side][m.piece] > 0
        /\ m.to \in DropTargets(P, P.side, m.piece)
    BY <1>3, DropsAre
  <2>2. m.to \in Squares /\ m.to \notin P.occupied
    BY <1>1, <2>1 DEF DropTargets, DropMask
  <2>3. m.drop = TRUE /\ m.promote = FALSE
    BY <2>1, DropFields
  <2> QED BY <2>1, <2>2, <2>3, ExactIs DEF WellFormed, Fits
<1> QED BY <1>2, <1>3

-----------------------------------------------------------------------------
(* What the generators list, for a selection that is filtered at the end. *)

LEMMA KingMovesAre ==
    ASSUME NEW P, Exact(P), NEW info, NEW selection, selection # "Checking", NEW m
    PROVE  LET state == GenState(P, P.side)
           IN m \in KingMoves(P, state, selection, info) <=>
                /\ m \in Safe(P.board, BoardMoves(P.board, P.side), P.side) /\ MovesKing(P, m)
                /\ ShouldKeep(P, m, selection, state.checkers # {})
<1> DEFINE state == GenState(P, P.side)
           king == P.king[P.side]
           enemy == Opposite(P.side)
<1>1. state.color = P.side /\ ~Direct(selection, info)
  BY StateIs DEF Direct
<1>2. /\ P.side \in Colors /\ enemy \in Colors /\ enemy # P.side /\ king \in Squares \cup {NoSquare}
      /\ NoSquare \notin Squares /\ P.pieces = PiecesOf(P.board) /\ "King" \in Types
      /\ \A s \in Squares : P.board[s] = Piece(P.side, "King") <=> king = s
  BY ExactIs, OppositeFacts, PieceFacts DEF KingsAgree, Types
<1>3. m \in KingMoves(P, state, selection, info) <=>
         /\ king # NoSquare
         /\ \E to \in KingTargets(P, king, P.side) : m = Move(king, to, "King", FALSE)
         /\ ShouldKeep(P, m, selection, state.checkers # {})
  BY <1>1 DEF KingMoves
<1>4. ASSUME king \in Squares, NEW to
      PROVE  to \in KingTargets(P, king, P.side) <=>
                /\ to \in Squares /\ P.board[to].color # P.side /\ P.board[to].type # "King"
                /\ to \in StepFrom[P.side]["King"][king]
                /\ AttackersTo(P, to, enemy, P.occupied \ {king}) = {}
  <2>1. P.pieces[enemy]["King"] = {s \in Squares : P.board[s] = Piece(enemy, "King")}
    BY <1>2 DEF PiecesOf
  <2>2. to \in StepFrom[P.side]["King"][king] => to \in Squares
    BY <1>2, <1>4 DEF StepFrom
  <2>3. to \in Squares => (to \in P.own[P.side] <=> P.board[to].color = P.side)
    BY <1>2, OnSquare
  <2>4. to \in Squares /\ P.board[to].color # P.side =>
           (P.board[to].type = "King" <=> P.board[to] = Piece(enemy, "King"))
    <3>1. to \in Squares => P.board[to] = NoPiece \/ P.board[to] \in PieceSet
      BY OnSquare DEF PieceSet
    <3>2. NoPiece.type # "King"
      BY DEF NoPiece
    <3>3. \A color \in Colors : color # P.side => color = enemy
      BY <1>2 DEF Colors, Opposite
    <3> QED BY <1>2, <3>1, <3>2, <3>3, PieceFacts
  <2> QED BY <2>1, <2>2, <2>3, <2>4 DEF KingTargets
<1>5. ASSUME king \in Squares, NEW to \in Squares
      PROVE  to \in StepFrom[P.side]["King"][king] <=>
                Sees("King", P.side, king, to) /\ Between[king][to] \cap P.occupied = {}
  <2>1. Sees("King", P.side, king, to) <=> to \in StepFrom[P.side]["King"][king]
    BY DEF Sees, Slides
  <2> QED BY <1>2, <1>5, <2>1, NoneBetweenStep
<1>6. ASSUME MovesKing(P, m), Reaches(P, m.from, m.to)
      PROVE  m.from = king /\ king \in Squares /\ P.board[m.from].type = "King"
  <2>1. m.from \in Squares /\ P.board[m.from].color = P.side /\ P.board[m.from].type = "King"
    BY <1>6 DEF MovesKing, Reaches
  <2>2. P.board[m.from] = Piece(P.side, "King")
    BY <1>2, <2>1, OnSquare, PieceFacts DEF PieceSet
  <2> QED BY <1>2, <2>1, <2>2
<1>7. ASSUME king \in Squares, NEW to \in Squares, m = Move(king, to, "King", FALSE)
      PROVE  MovesKing(P, m) /\ P.board[m.from].type = "King" /\ m.from = king /\ m.to = to
             /\ P.board[m.from].color = P.side /\ MayPromote(P, m, m.promote)
             /\ m = Move(m.from, m.to, P.board[m.from].type, m.promote)
  <2>1. P.board[king] = Piece(P.side, "King")
    BY <1>2, <1>7
  <2>2. P.board[king].type = "King" /\ P.board[king].color = P.side
    BY <1>2, <2>1, PieceFacts
  <2>3. m.from = king /\ m.to = to /\ m.piece = "King" /\ m.promote = FALSE /\ m.drop = FALSE
    BY <1>7 DEF Move
  <2>4. ~MustPromote("King", P.side, to)
    BY DEF MustPromote
  <2> QED BY <1>7, <2>2, <2>3, <2>4 DEF MovesKing, MayPromote
<1>8. ASSUME m \in BoardMoves(P.board, P.side), MovesKing(P, m)
      PROVE  m = Move(king, m.to, "King", FALSE) /\ Reaches(P, m.from, m.to) /\ king \in Squares /\ m.from = king
  <2>1. /\ m = Move(m.from, m.to, P.board[m.from].type, m.promote)
        /\ Reaches(P, m.from, m.to) /\ MayPromote(P, m, m.promote)
    BY <1>8, BoardMovesAre
  <2>2. m.from = king /\ king \in Squares /\ P.board[m.from].type = "King"
    BY <1>6, <1>8, <2>1
  <2>3. m.piece = "King"
    BY <2>1, <2>2, MoveFields
  <2>4. ~CanPromote("King")
    BY DEF CanPromote, PromotedForm
  <2> QED BY <2>1, <2>2, <2>3, <2>4 DEF MayPromote
<1>9. m \in BoardMoves(P.board, P.side) /\ MovesKing(P, m) =>
         (~Checked(After(P.board, m, P.side), P.side) <=> AttackersTo(P, m.to, enemy, P.occupied \ {m.from}) = {})
  BY RulesFit, KingMoveChecked
<1>10. m \in Safe(P.board, BoardMoves(P.board, P.side), P.side) <=>
          m \in BoardMoves(P.board, P.side) /\ ~Checked(After(P.board, m, P.side), P.side)
  BY DEF Safe
<1>11. ASSUME m \in Safe(P.board, BoardMoves(P.board, P.side), P.side), MovesKing(P, m)
       PROVE  king # NoSquare /\ \E to \in KingTargets(P, king, P.side) : m = Move(king, to, "King", FALSE)
  <2>1. m = Move(king, m.to, "King", FALSE) /\ Reaches(P, m.from, m.to) /\ king \in Squares /\ m.from = king
    BY <1>8, <1>10, <1>11
  <2>2. P.board[m.from].type = "King"
    BY <1>6, <1>11, <2>1
  <2>3. m.to \in KingTargets(P, king, P.side)
    BY <1>4, <1>5, <1>9, <1>10, <1>11, <2>1, <2>2 DEF Reaches
  <2> QED BY <1>2, <2>1, <2>3
<1>12. ASSUME king # NoSquare, NEW to \in KingTargets(P, king, P.side), m = Move(king, to, "King", FALSE)
       PROVE  m \in Safe(P.board, BoardMoves(P.board, P.side), P.side) /\ MovesKing(P, m)
  <2>1. king \in Squares
    BY <1>2, <1>12
  <2>2. /\ to \in Squares /\ P.board[to].color # P.side /\ P.board[to].type # "King"
        /\ to \in StepFrom[P.side]["King"][king]
        /\ AttackersTo(P, to, enemy, P.occupied \ {king}) = {}
    BY <1>4, <1>12, <2>1
  <2>3. MovesKing(P, m) /\ P.board[m.from].type = "King" /\ m.from = king /\ m.to = to
        /\ P.board[m.from].color = P.side /\ MayPromote(P, m, m.promote)
        /\ m = Move(m.from, m.to, P.board[m.from].type, m.promote)
    BY <1>7, <1>12, <2>1, <2>2
  <2>4. Reaches(P, m.from, m.to)
    BY <1>5, <2>1, <2>2, <2>3 DEF Reaches
  <2>5. m \in BoardMoves(P.board, P.side)
    BY <2>3, <2>4, BoardMovesAre
  <2> QED BY <1>9, <1>10, <2>2, <2>3, <2>5
<1> QED BY <1>3, <1>11, <1>12

LEMMA PieceMovesAre ==
    ASSUME NEW P, Exact(P), NEW info, NEW selection, selection # "Checking", NEW m
    PROVE  LET state == GenState(P, P.side)
               listed == UNION {PieceMoves(P, state, t, selection, info) : t \in Types \ {"King"}}
           IN Cardinality(state.checkers) <= 1 =>
                (m \in listed <=>
                   /\ m \in Safe(P.board, BoardMoves(P.board, P.side), P.side) /\ ~MovesKing(P, m)
                   /\ ShouldKeep(P, m, selection, state.checkers # {}))
<1> DEFINE state == GenState(P, P.side)
           listed == UNION {PieceMoves(P, state, t, selection, info) : t \in Types \ {"King"}}
           pieces(t) == UNION {UNION {Variants(P, from, to, t) : to \in PieceTargets(P, state, from, t)} :
                                  from \in P.pieces[P.side][t]}
<1>1. state.color = P.side /\ ~Direct(selection, info)
  BY StateIs DEF Direct
<1>2. /\ P.side \in Colors /\ P.board \in Boards /\ P.pieces = PiecesOf(P.board)
  BY ExactIs
<1>3. \A t : PieceMoves(P, state, t, selection, info)
                = {x \in pieces(t) : ShouldKeep(P, x, selection, state.checkers # {})}
  BY <1>1 DEF PieceMoves
<1>4. m \in listed <=> /\ \E t \in Types \ {"King"} : m \in pieces(t)
                       /\ ShouldKeep(P, m, selection, state.checkers # {})
  BY <1>3
<1>5. ASSUME NEW t \in Types \ {"King"}
      PROVE  m \in pieces(t) <=>
               \E from \in Squares : /\ P.board[from] = Piece(P.side, t)
                                     /\ \E to \in PieceTargets(P, state, from, t) : m \in Variants(P, from, to, t)
  <2>1. P.pieces[P.side][t] = {s \in Squares : P.board[s] = Piece(P.side, t)}
    BY <1>2 DEF PiecesOf
  <2> QED BY <2>1
<1>6. ASSUME NEW from \in Squares, NEW t \in Types \ {"King"}, P.board[from] = Piece(P.side, t), NEW to
      PROVE  to \in PieceTargets(P, state, from, t) <=>
                /\ to \in Squares /\ P.board[to].color # P.side /\ to \in state.mask
                /\ from \in DOMAIN state.pinLine => to \in state.pinLine[from]
                /\ Sees(t, P.side, from, to) /\ Between[from][to] \cap P.occupied = {}
  <2>1. to \in AttacksFrom(from, t, P.side, P.occupied) <=>
          to \in Squares /\ Sees(t, P.side, from, to) /\ Between[from][to] \cap P.occupied = {}
    BY <1>2, AttackIs
  <2>2. to \in Squares => (to \in P.own[P.side] <=> P.board[to].color = P.side)
    BY <1>2, OnSquare
  <2>3. to \in PieceTargets(P, state, from, t) <=>
          /\ to \in AttacksFrom(from, t, P.side, P.occupied) /\ to \notin P.own[P.side] /\ to \in state.mask
          /\ to \in IF from \in DOMAIN state.pinLine THEN state.pinLine[from] ELSE Squares
    BY <1>1 DEF PieceTargets
  <2> QED BY <2>1, <2>2, <2>3
<1>7. ASSUME NEW from \in Squares, NEW to \in Squares, NEW t
      PROVE  m \in Variants(P, from, to, t) <=>
               /\ m = Move(from, to, t, m.promote) /\ P.board[to].type # "King"
               /\ MayPromote(P, m, m.promote)
  <2>1. m \in Variants(P, from, to, t) <=>
          \E p \in BOOLEAN : /\ m = Move(from, to, t, p) /\ P.board[to].type # "King"
                             /\ IF p THEN /\ CanPromote(t)
                                          /\ InPromotionZone(P.side, from) \/ InPromotionZone(P.side, to)
                                     ELSE ~MustPromote(t, P.side, to)
    BY DEF Variants
  <2>2. \A p : m = Move(from, to, t, p) =>
                  m.from = from /\ m.to = to /\ m.piece = t /\ m.promote = p
    BY DEF Move
  <2> QED BY <2>1, <2>2 DEF MayPromote
<1>8. m \in Safe(P.board, BoardMoves(P.board, P.side), P.side) <=>
          m \in BoardMoves(P.board, P.side) /\ ~Checked(After(P.board, m, P.side), P.side)
  BY DEF Safe
<1>9. m \in BoardMoves(P.board, P.side) /\ ~MovesKing(P, m) =>
         (~Checked(After(P.board, m, P.side), P.side) <=> Allowed(state, m))
  BY RulesFit, AllowedMovesAreSafe
<1>10. m \in BoardMoves(P.board, P.side) <=>
              /\ m = Move(m.from, m.to, P.board[m.from].type, m.promote)
              /\ Reaches(P, m.from, m.to)
              /\ MayPromote(P, m, m.promote)
  BY BoardMovesAre
<1> SUFFICES ASSUME Cardinality(state.checkers) <= 1
             PROVE  (\E t \in Types \ {"King"} : m \in pieces(t)) <=>
                       m \in BoardMoves(P.board, P.side) /\ ~MovesKing(P, m) /\ Allowed(state, m)
  BY <1>4, <1>8, <1>9
<1> HIDE DEF state, pieces, listed
<1>11. ASSUME NEW t \in Types \ {"King"}, m \in pieces(t)
       PROVE  m \in BoardMoves(P.board, P.side) /\ ~MovesKing(P, m) /\ Allowed(state, m)
  <2>1. PICK from \in Squares : /\ P.board[from] = Piece(P.side, t)
                                /\ \E to \in PieceTargets(P, state, from, t) : m \in Variants(P, from, to, t)
    BY <1>5, <1>11
  <2>2. PICK to \in PieceTargets(P, state, from, t) : m \in Variants(P, from, to, t)
    BY <2>1
  <2>3. /\ to \in Squares /\ P.board[to].color # P.side /\ to \in state.mask
        /\ from \in DOMAIN state.pinLine => to \in state.pinLine[from]
        /\ Sees(t, P.side, from, to) /\ Between[from][to] \cap P.occupied = {}
    BY <1>6, <2>1
  <2>4. /\ m = Move(from, to, t, m.promote) /\ P.board[to].type # "King"
        /\ MayPromote(P, m, m.promote)
    BY <1>7, <2>2, <2>3
  <2>5. m.from = from /\ m.to = to /\ m.drop = FALSE
    BY <2>4 DEF Move
  <2>6. P.board[from].color = P.side /\ P.board[from].type = t
    BY <1>2, <2>1, PieceFacts
  <2>7. Reaches(P, m.from, m.to)
    BY <2>3, <2>4, <2>5, <2>6 DEF Reaches
  <2>8. ~MovesKing(P, m)
    BY <2>5, <2>6 DEF MovesKing
  <2>9. Allowed(state, m)
    BY <2>3, <2>5 DEF Allowed
  <2> QED BY <1>10, <2>4, <2>5, <2>6, <2>7, <2>8, <2>9
<1>12. ASSUME m \in BoardMoves(P.board, P.side), ~MovesKing(P, m), Allowed(state, m)
       PROVE  \E t \in Types \ {"King"} : m \in pieces(t)
  <2> DEFINE t == P.board[m.from].type
  <2>1. /\ m = Move(m.from, m.to, t, m.promote)
        /\ Reaches(P, m.from, m.to)
        /\ MayPromote(P, m, m.promote)
    BY <1>10, <1>12
  <2>2. m.drop = FALSE
    BY <2>1 DEF Move
  <2>3. t \in Types \ {"King"} /\ P.board[m.from] = Piece(P.side, t) /\ m.from \in Squares
    <3>1. m.from \in Squares /\ P.board[m.from].color = P.side
      BY <2>1 DEF Reaches
    <3>2. t # "King"
      BY <1>12, <2>2 DEF MovesKing
    <3>3. P.board[m.from] \in PieceSet
      BY <1>2, <3>1, PieceFacts DEF Boards
    <3> QED BY <3>1, <3>2, <3>3, PieceFacts
  <2>4. m.to \in PieceTargets(P, state, m.from, t)
    BY <1>6, <1>12, <2>1, <2>2, <2>3 DEF Reaches, Allowed
  <2>5. m \in Variants(P, m.from, m.to, t)
    BY <1>7, <2>1, <2>3 DEF Reaches
  <2> HIDE DEF t
  <2> QED BY <1>5, <2>3, <2>4, <2>5
<1> QED BY <1>11, <1>12

LEMMA DropsOnMask ==
    ASSUME NEW P, Exact(P), NEW m
    PROVE  LET state == GenState(P, P.side)
           IN Cardinality(state.checkers) <= 1 =>
                (m \in Safe(P.board, Drops(P.board, P.hands, P.side), P.side) <=>
                    /\ m = Drop(m.to, m.piece) /\ m.piece \in HandTypes /\ P.hands[P.side][m.piece] > 0
                    /\ m.to \in DropTargets(P, P.side, m.piece) \cap state.mask)
<1> DEFINE state == GenState(P, P.side)
<1>1. m \in Drops(P.board, P.hands, P.side) <=>
              /\ m = Drop(m.to, m.piece) /\ m.piece \in HandTypes /\ P.hands[P.side][m.piece] > 0
              /\ m.to \in DropTargets(P, P.side, m.piece)
  BY DropsAre
<1>2. m \in Drops(P.board, P.hands, P.side) => WellFormed(P, m) /\ m.drop = TRUE
  BY <1>1, RulesFit, DropFields
<1>3. m \in Drops(P.board, P.hands, P.side) =>
         (~Checked(After(P.board, m, P.side), P.side) <=> Allowed(state, m))
  BY <1>2, AllowedMovesAreSafe DEF MovesKing
<1>4. m \in Drops(P.board, P.hands, P.side) =>
        (Allowed(state, m) <=> Cardinality(state.checkers) <= 1 /\ m.to \in state.mask)
  BY <1>2 DEF Allowed
<1>5. m \in Safe(P.board, Drops(P.board, P.hands, P.side), P.side) <=>
          m \in Drops(P.board, P.hands, P.side) /\ ~Checked(After(P.board, m, P.side), P.side)
  BY DEF Safe
<1> QED BY <1>1, <1>3, <1>4, <1>5

LEMMA DropMovesAre ==
    ASSUME NEW P, Exact(P), NEW info, NEW enforce, NEW selection, selection \in {"All", "Tactical"}, NEW m
    PROVE  LET state == GenState(P, P.side)
           IN Cardinality(state.checkers) <= 1 =>
                (m \in DropMoves(P, state, enforce, selection, info) <=>
                   /\ m \in Safe(P.board, Drops(P.board, P.hands, P.side), P.side)
                   /\ ~(enforce /\ m.piece = "Pawn" /\ IsPawnDropMate(P, m))
                   /\ ShouldKeep(P, m, selection, state.checkers # {}))
<1> DEFINE state == GenState(P, P.side)
           moves == UNION {{Drop(to, t) : to \in DropTargets(P, P.side, t) \cap state.mask} :
                             t \in {x \in HandTypes : P.hands[P.side][x] > 0}}
<1>1. state.color = P.side /\ ~Direct(selection, info)
  BY StateIs DEF Direct
<1>2. m \in DropMoves(P, state, enforce, selection, info) <=>
         /\ ~(selection = "Tactical" /\ state.checkers = {})
         /\ m \in moves
         /\ ~(enforce /\ m.piece = "Pawn" /\ IsPawnDropMate(P, m))
         /\ ShouldKeep(P, m, selection, state.checkers # {})
  BY <1>1 DEF DropMoves
<1>3. m \in moves <=> /\ m = Drop(m.to, m.piece) /\ m.piece \in HandTypes /\ P.hands[P.side][m.piece] > 0
                      /\ m.to \in DropTargets(P, P.side, m.piece) \cap state.mask
  <2>1. m \in moves <=> \E t \in {x \in HandTypes : P.hands[P.side][x] > 0} :
                           \E to \in DropTargets(P, P.side, t) \cap state.mask : m = Drop(to, t)
    OBVIOUS
  <2> HIDE DEF moves, state
  <2> QED BY <2>1, DropFields
<1>4. ASSUME m \in moves, selection = "Tactical", state.checkers = {}
      PROVE  ~ShouldKeep(P, m, selection, state.checkers # {})
  <2>1. m.promote = FALSE
    BY <1>3, <1>4, DropFields
  <2>2. P.board[m.to] = NoPiece
    <3>1. m.to \in Squares \ P.occupied
      BY <1>3, <1>4, ExactIs DEF DropTargets, DropMask
    <3> QED BY <3>1, ExactIs
  <2> QED BY <1>4, <2>1, <2>2 DEF ShouldKeep
<1> HIDE DEF moves, state
<1> SUFFICES ASSUME Cardinality(state.checkers) <= 1
             PROVE  m \in DropMoves(P, state, enforce, selection, info) <=>
                   /\ m \in Safe(P.board, Drops(P.board, P.hands, P.side), P.side)
                   /\ ~(enforce /\ m.piece = "Pawn" /\ IsPawnDropMate(P, m))
                   /\ ShouldKeep(P, m, selection, state.checkers # {})
  BY DEF state
<1>5. m \in Safe(P.board, Drops(P.board, P.hands, P.side), P.side) <=> m \in moves
  BY <1>3, DropsOnMask DEF state
<1> QED BY <1>2, <1>4, <1>5

(* generate_moves, filtered at the end: the moves of the rules that leave the own
   king safe, but for the pawn drops that is_pawn_drop_mate is asked about. *)
LEMMA GenerateIs ==
    ASSUME NEW P, Exact(P), NEW enforce, NEW selection, selection \in {"All", "Tactical"}, NEW m
    PROVE  m \in Generate(P, TRUE, enforce, selection) <=>
             /\ m \in Safe(P.board, BoardMoves(P.board, P.side) \cup Drops(P.board, P.hands, P.side), P.side)
             /\ ~(enforce /\ m.drop /\ m.piece = "Pawn" /\ IsPawnDropMate(P, m))
             /\ ShouldKeep(P, m, selection, GenState(P, P.side).checkers # {})
<1> DEFINE state == GenState(P, P.side)
           info == CheckInfo(P, P.side)
           kings == KingMoves(P, state, selection, info)
           men == UNION {PieceMoves(P, state, t, selection, info) : t \in Types \ {"King"}}
           fresh == DropMoves(P, state, enforce, selection, info)
           board == Safe(P.board, BoardMoves(P.board, P.side), P.side)
           drops == Safe(P.board, Drops(P.board, P.hands, P.side), P.side)
           kept == ShouldKeep(P, m, selection, state.checkers # {})
<1>1. m \in Generate(P, TRUE, enforce, selection) <=>
         m \in kings \/ (~(Cardinality(state.checkers) > 1) /\ (m \in men \/ m \in fresh))
  BY DEF Generate, GenerateFrom
<1>2. m \in kings <=> m \in board /\ MovesKing(P, m) /\ kept
  BY KingMovesAre
<1>3. Cardinality(state.checkers) <= 1 => (m \in men <=> m \in board /\ ~MovesKing(P, m) /\ kept)
  BY PieceMovesAre
<1>4. Cardinality(state.checkers) <= 1 =>
         (m \in fresh <=> m \in drops /\ ~(enforce /\ m.piece = "Pawn" /\ IsPawnDropMate(P, m)) /\ kept)
  BY DropMovesAre
<1>5. m \in Safe(P.board, BoardMoves(P.board, P.side) \cup Drops(P.board, P.hands, P.side), P.side)
        <=> m \in board \/ m \in drops
  BY DEF Safe
<1>6. (m \in board => ~m.drop /\ WellFormed(P, m)) /\ (m \in drops => m.drop /\ WellFormed(P, m))
  BY RulesFit DEF Safe
<1>7. (m \in board \/ m \in drops) /\ ~MovesKing(P, m) => Cardinality(state.checkers) <= 1
  BY <1>6, AllowedMovesAreSafe DEF Safe, Allowed
<1>8. m \in drops => ~MovesKing(P, m)
  BY <1>6 DEF MovesKing
<1>9. Cardinality(state.checkers) \in Nat
  <2>1. state.checkers \subseteq Squares
    <3>1. P.king[P.side] \in Squares => state.checkers \subseteq Squares
      BY StateIs DEF Watchers
    <3>2. P.king[P.side] \notin Squares => state.checkers \subseteq Squares
      BY StateIs
    <3> QED BY <3>1, <3>2
  <2> QED BY <2>1, OneElement
<1> HIDE DEF state, info, kings, men, fresh, board, drops, kept
<1>10. ~(Cardinality(state.checkers) > 1) <=> Cardinality(state.checkers) <= 1
  BY <1>9
<1>11. m \in Generate(P, TRUE, enforce, selection) <=>
             /\ m \in board \/ m \in drops
             /\ ~(enforce /\ m.drop /\ m.piece = "Pawn" /\ IsPawnDropMate(P, m))
             /\ kept
  <2>1. CASE m \in board
    BY <1>1, <1>2, <1>3, <1>4, <1>6, <1>7, <1>10, <2>1, Zenon
  <2>2. CASE m \notin board
    BY <1>1, <1>2, <1>3, <1>4, <1>6, <1>7, <1>8, <1>10, <2>2, Zenon
  <2> QED BY <2>1, <2>2
<1> QED BY <1>5, <1>11 DEF kept, state

-----------------------------------------------------------------------------
(* Evasions. *)

LEMMA CheckersAre ==
    ASSUME NEW P, Exact(P), InCheck(P, P.side)
    PROVE  LET king == P.king[P.side]
               state == GenState(P, P.side)
           IN /\ king \in Squares /\ P.board[king] = Piece(P.side, "King")
              /\ Checkers(P) = state.checkers /\ state.checkers # {} /\ state.checkers \subseteq Squares
              /\ state.checkers = {f \in Watchers(P, king, Opposite(P.side)) : Screen(P, king, f) = {}}
              /\ Cardinality(state.checkers) <= 1 <=> Cardinality(state.checkers) = 1
              /\ Cardinality(state.checkers) = 1 =>
                    /\ state.checkers = {TheOne(Checkers(P))}
                    /\ state.mask = Stops(king, TheOne(Checkers(P)))
<1> DEFINE king == P.king[P.side]
           state == GenState(P, P.side)
<1>1. /\ king \in Squares \cup {NoSquare} /\ NoSquare \notin Squares /\ P.side \in Colors
      /\ \A s \in Squares : P.board[s] = Piece(P.side, "King") <=> king = s
  BY ExactIs, PieceFacts DEF KingsAgree
<1>2. king \in Squares /\ P.board[king] = Piece(P.side, "King")
  BY <1>1 DEF InCheck
<1>3. Checkers(P) = state.checkers
  BY <1>1, <1>2 DEF Checkers, GenState
<1>4. Checkers(P) # {}
  BY DEF InCheck, Checkers
<1>5. /\ state.checkers = {f \in Watchers(P, king, Opposite(P.side)) : Screen(P, king, f) = {}}
      /\ state.mask = IF Cardinality(state.checkers) = 1
                      THEN Stops(king, TheOne(state.checkers)) ELSE Squares
  BY <1>2, StateIs
<1>6. state.checkers \subseteq Squares
  BY <1>5 DEF Watchers
<1>7. Cardinality(state.checkers) \in Nat /\ Cardinality(state.checkers) # 0
  <2>1. IsFiniteSet(state.checkers)
    BY <1>6, SquaresFinite
  <2> QED BY <1>3, <1>4, <2>1, FS_EmptySet, FS_CardinalityType
<1> HIDE DEF king, state
<1>8. Cardinality(state.checkers) <= 1 <=> Cardinality(state.checkers) = 1
  BY <1>7
<1>9. Cardinality(state.checkers) = 1 => state.checkers = {TheOne(Checkers(P))}
  BY <1>3, <1>6, Alone
<1> QED BY <1>2, <1>3, <1>4, <1>5, <1>6, <1>8, <1>9 DEF king, state

(* A way to make the move of a piece that may take it there: a pawn, lance or
   knight that would be stuck is promoted, in the zone. *)
LEMMA SomeVariant ==
    ASSUME NEW P, Exact(P), NEW from, NEW to, Reaches(P, from, to)
    PROVE  \E m \in BoardMoves(P.board, P.side) : m.from = from /\ m.to = to
<1> DEFINE t == P.board[from].type
           p == MustPromote(t, P.side, to)
           m == Move(from, to, t, p)
<1>1. m.from = from /\ m.to = to /\ m.piece = t /\ m.promote = p /\ p \in BOOLEAN
  BY DEF Move, MustPromote
<1>2. p => CanPromote(t) /\ InPromotionZone(P.side, to)
  <2> SUFFICES ASSUME p PROVE CanPromote(t) /\ InPromotionZone(P.side, to)
    OBVIOUS
  <2>1. t \in {"Pawn", "Lance", "Knight"} /\ Rank(P.side, to) <= 1
    BY DEF MustPromote
  <2>2. CanPromote(t)
    BY <2>1 DEF CanPromote, PromotedForm
  <2>3. to \in Squares
    BY DEF Reaches
  <2>4. Rank(P.side, to) \in Int
    BY <2>3, Coordinates, BoardAssumption DEF Rank
  <2>5. ZoneRows \in Int /\ ZoneRows >= 2
    BY BoardAssumption
  <2> QED BY <2>1, <2>2, <2>4, <2>5 DEF InPromotionZone
<1> HIDE DEF p
<1>3. MayPromote(P, m, m.promote)
  BY <1>1, <1>2 DEF MayPromote, p
<1>4. m = Move(m.from, m.to, P.board[m.from].type, m.promote)
  BY <1>1
<1>5. Reaches(P, m.from, m.to)
  BY <1>1
<1> HIDE DEF m
<1>6. m \in BoardMoves(P.board, P.side)
  BY <1>3, <1>4, <1>5, BoardMovesAre
<1> QED BY <1>1, <1>6

LEMMA CapturesAre ==
    ASSUME NEW P, Exact(P), NEW s \in Squares, NEW movers
    PROVE  CanCapture(P, s, movers) <=>
             \E f \in movers : /\ f \in Squares /\ P.board[f].color = P.side
                               /\ Sees(P.board[f].type, P.side, f, s) /\ Between[f][s] \cap P.occupied = {}
<1>1. P.side \in Colors
  BY ExactIs
<1>2. \A f : f \in AttackersTo(P, s, P.side, P.occupied) <=>
              /\ f \in Squares /\ P.board[f].color = P.side
              /\ Sees(P.board[f].type, P.side, f, s) /\ Between[s][f] \cap P.occupied = {}
  BY <1>1, AttackersIs
<1> QED BY <1>2, BetweenSymmetric DEF CanCapture

(* has_evasion, of moves on the board: it finds one exactly when there is one. *)
LEMMA EvasionsOnBoard ==
    ASSUME NEW P, Exact(P), InCheck(P, P.side)
    PROVE  HasEvasionOnBoard(P, P.king[P.side]) <=> Safe(P.board, BoardMoves(P.board, P.side), P.side) # {}
<1> DEFINE king == P.king[P.side]
           enemy == Opposite(P.side)
           state == GenState(P, P.side)
           checker == TheOne(Checkers(P))
           pinned == DOMAIN LinePins(P, king, P.side, enemy)
           movers == P.own[P.side] \ (pinned \cup {king})
           safe == Safe(P.board, BoardMoves(P.board, P.side), P.side)
           W == Watchers(P, king, enemy)
<1>1. /\ king \in Squares /\ P.board[king] = Piece(P.side, "King")
      /\ Checkers(P) = state.checkers /\ state.checkers # {} /\ state.checkers \subseteq Squares
      /\ state.checkers = {f \in W : Screen(P, king, f) = {}}
      /\ Cardinality(state.checkers) <= 1 <=> Cardinality(state.checkers) = 1
      /\ Cardinality(state.checkers) = 1 =>
            state.checkers = {checker} /\ state.mask = Stops(king, checker)
  BY CheckersAre
<1>2. /\ P.side \in Colors /\ enemy \in Colors /\ enemy # P.side
      /\ P.board \in Boards /\ P.occupied = {s \in Squares : P.board[s] # NoPiece}
      /\ P.own = OwnOf(P.board)
  BY ExactIs, OppositeFacts
<1>3. /\ pinned = DOMAIN state.pinLine
      /\ \A b : b \in DOMAIN state.pinLine <=>
             P.board[b].color = P.side /\ \E f \in W : Screen(P, king, f) = {b}
      /\ \A b \in DOMAIN state.pinLine : \A f \in W :
             Screen(P, king, f) = {b} => state.pinLine[b] = Stops(king, f)
  BY <1>1, StateIs
<1>4. HasEvasionOnBoard(P, king) <=>
         \/ KingTargets(P, king, P.side) # {}
         \/ /\ Cardinality(state.checkers) = 1 /\ P.board[checker].type # "King"
            /\ \E s \in Stops(king, checker) : CanCapture(P, s, movers)
  BY <1>1 DEF HasEvasionOnBoard, Stops
<1>5. ASSUME NEW m
      PROVE  m \in safe <=> m \in BoardMoves(P.board, P.side) /\ ~Checked(After(P.board, m, P.side), P.side)
  BY DEF Safe
<1>6. ASSUME NEW m \in BoardMoves(P.board, P.side), ~MovesKing(P, m)
      PROVE  m \in safe <=> Allowed(state, m)
  BY <1>5, <1>6, RulesFit, AllowedMovesAreSafe
<1>7. \A f \in W : f \in Squares /\ P.board[f].color = enemy /\ f \in P.occupied /\ f # king
  BY <1>1, <1>2, WatcherFacts
<1>8. KingTargets(P, king, P.side) # {} => safe # {}
  <2> SUFFICES ASSUME NEW to \in KingTargets(P, king, P.side) PROVE safe # {}
    OBVIOUS
  <2> DEFINE m == Move(king, to, "King", FALSE)
             info == CheckInfo(P, P.side)
  <2>1. m \in KingMoves(P, state, "All", info)
    <3>1. state.color = P.side /\ king # NoSquare /\ ~Direct("All", info)
      BY <1>1, StateIs, PieceFacts DEF Direct
    <3>2. ShouldKeep(P, m, "All", state.checkers # {})
      BY DEF ShouldKeep
    <3> QED BY <3>1, <3>2 DEF KingMoves
  <2>2. m \in safe
    BY <2>1, KingMovesAre
  <2> QED BY <2>2
<1>9. ASSUME NEW m \in safe, MovesKing(P, m)
      PROVE  KingTargets(P, king, P.side) # {}
  <2> DEFINE info == CheckInfo(P, P.side)
  <2>1. m \in KingMoves(P, state, "All", info)
    <3>1. ShouldKeep(P, m, "All", state.checkers # {})
      BY DEF ShouldKeep
    <3> QED BY <1>9, <3>1, KingMovesAre
  <2>2. KingMoves(P, state, "All", info) \subseteq {Move(king, to, "King", FALSE) : to \in KingTargets(P, king, P.side)}
    <3>1. state.color = P.side /\ king # NoSquare /\ ~Direct("All", info)
      BY <1>1, StateIs, PieceFacts DEF Direct
    <3> QED BY <3>1 DEF KingMoves
  <2> QED BY <2>1, <2>2
<1> HIDE DEF king, enemy, state, checker, pinned, safe, W
<1>10. ASSUME Cardinality(state.checkers) = 1, P.board[checker].type # "King",
              NEW s \in Stops(king, checker), CanCapture(P, s, movers)
       PROVE  safe # {}
  <2>1. checker \in W /\ Screen(P, king, checker) = {} /\ checker \in Squares
    BY <1>1, <1>10
  <2>2. s \in Squares /\ P.board[s].color # P.side /\ P.board[s].type # "King"
    <3>1. CASE s = checker
      BY <1>2, <1>7, <1>10, <2>1, <3>1
    <3>2. CASE s \in Between[king][checker]
      <4>1. s \in Squares /\ s \notin P.occupied
        BY <1>1, <2>1, <3>2, BetweenFacts DEF Screen
      <4>2. P.board[s] = NoPiece
        BY <1>2, <4>1
      <4>3. NoPiece.type # "King"
        BY DEF NoPiece
      <4> QED BY <1>2, <4>1, <4>2, <4>3, PieceFacts
    <3> QED BY <1>10, <3>1, <3>2 DEF Stops
  <2>3. PICK f \in movers : /\ f \in Squares /\ P.board[f].color = P.side
                            /\ Sees(P.board[f].type, P.side, f, s) /\ Between[f][s] \cap P.occupied = {}
    BY <1>10, <2>2, CapturesAre
  <2>4. Reaches(P, f, s)
    BY <2>2, <2>3 DEF Reaches
  <2>5. PICK m \in BoardMoves(P.board, P.side) : m.from = f /\ m.to = s
    BY <2>4, SomeVariant
  <2>6. ~MovesKing(P, m)
    <3>1. f # king /\ P.king[P.side] = king
      BY <2>3 DEF king
    <3>2. P.board[f] # Piece(P.side, "King")
      BY <2>3, <3>1 DEF Exact, king
    <3>3. P.board[f] = Piece(P.side, P.board[f].type)
      BY <1>2, <2>3, PieceFacts DEF Boards
    <3> QED BY <2>5, <3>2, <3>3 DEF MovesKing
  <2>7. Allowed(state, m)
    <3>1. m.to \in state.mask
      BY <1>1, <1>10, <2>5
    <3>2. m.from \notin DOMAIN state.pinLine
      BY <1>3, <2>3, <2>5
    <3> QED BY <1>10, <3>1, <3>2 DEF Allowed
  <2> QED BY <1>6, <2>6, <2>7
<1>11. ASSUME NEW m \in safe, ~MovesKing(P, m)
       PROVE  /\ Cardinality(state.checkers) = 1 /\ P.board[checker].type # "King"
              /\ \E s \in Stops(king, checker) : CanCapture(P, s, movers)
  <2>1. m \in BoardMoves(P.board, P.side)
    BY <1>5
  <2>2. Allowed(state, m)
    BY <1>6, <1>11, <2>1
  <2>3. Reaches(P, m.from, m.to)
    BY <2>1, BoardMovesAre
  <2>4. Cardinality(state.checkers) = 1 /\ m.to \in Stops(king, checker)
    BY <1>1, <2>2 DEF Allowed
  <2>5. checker \in W /\ Screen(P, king, checker) = {} /\ checker \in Squares
    BY <1>1, <2>4
  <2>6. P.board[checker].type # "King"
    <3> SUFFICES ASSUME P.board[checker].type = "King" PROVE FALSE
      OBVIOUS
    <3>1. Sees("King", enemy, checker, king)
      BY <2>5 DEF Watchers, W
    <3>2. king \in StepFrom[enemy]["King"][checker]
      BY <3>1 DEF Sees, Slides
    <3>3. "King" \in Types
      BY DEF Types
    <3>4. Between[king][checker] = {}
      BY <1>1, <1>2, <2>5, <3>2, <3>3, NoneBetweenStep, BetweenSymmetric
    <3> QED BY <2>3, <2>4, <3>4 DEF Stops, Reaches
  <2>7. m.drop = FALSE
    BY <2>1, RulesFit, BoardMovesAre, MoveFields
  <2>8. m.from \notin DOMAIN state.pinLine
    <3> SUFFICES ASSUME m.from \in DOMAIN state.pinLine PROVE FALSE
      OBVIOUS
    <3>1. PICK g \in W : Screen(P, king, g) = {m.from}
      BY <1>3
    <3>2. m.to \in Stops(king, g)
      BY <1>3, <2>2, <2>7, <3>1 DEF Allowed
    <3>3. g \notin Between[king][checker]
      BY <1>7, <2>5 DEF Screen
    <3>4. checker \notin Between[king][g]
      <4>1. checker # m.from
        BY <1>2, <1>7, <2>3, <2>5 DEF Reaches
      <4> QED BY <1>7, <2>5, <3>1, <4>1 DEF Screen
    <3>5. g = checker
      BY <1>1, <1>7, <2>4, <2>5, <3>2, <3>3, <3>4, StopsOne
    <3> QED BY <2>5, <3>1, <3>5
  <2>9. m.from # king
    BY <1>1, <1>2, <1>11, <2>7, PieceFacts DEF MovesKing, Types
  <2>10. m.from \in movers
    <3>1. m.from \in P.own[P.side]
      BY <1>2, <2>3 DEF Reaches, OwnOf
    <3> QED BY <1>3, <2>8, <2>9, <3>1
  <2>11. CanCapture(P, m.to, movers)
    <3>1. m.to \in Squares
      BY <2>3 DEF Reaches
    <3> HIDE DEF movers
    <3> QED BY <2>3, <2>10, <3>1, CapturesAre DEF Reaches
  <2> QED BY <2>4, <2>6, <2>11
<1> QED BY <1>4, <1>8, <1>9, <1>10, <1>11 DEF king, safe

-----------------------------------------------------------------------------
(* Pawn drops that mate. *)

(* make_move leaves the board the rules say, and the other hand alone. *)
LEMMA MakeMoveIs ==
    ASSUME NEW P, Shape(P), Exact(P), NEW m, WellFormed(P, m), m.drop => ~m.promote
    PROVE  LET Q == MakeMove(P, m)
           IN /\ Shape(Q) /\ Exact(Q) /\ Q.side = Opposite(P.side)
              /\ Q.board = After(P.board, m, P.side)
              /\ Q.hands[Opposite(P.side)] = P.hands[Opposite(P.side)]
<1> DEFINE enemy == Opposite(P.side)
           Q == MakeMove(P, m)
<1>1. P.side \in Colors /\ enemy \in Colors /\ enemy # P.side /\ P.hands \in Hands /\ P.board \in Boards
  BY ExactIs, OppositeFacts
<1>2. Fits(P, m) /\ m.promote \in BOOLEAN /\ m.drop \in BOOLEAN
  BY DEF WellFormed
<1>3. CASE m.drop
  <2>1. /\ Shape(Q) /\ Exact(Q) /\ Q.side = enemy
        /\ Q.board = [P.board EXCEPT ![m.to] = Piece(P.side, m.piece)]
        /\ Q.hands = [P.hands EXCEPT ![P.side][m.piece] = @ - 1]
    BY <1>2, <1>3, MakeDrop
  <2> HIDE DEF Q
  <2>2. After(P.board, m, P.side) = [P.board EXCEPT ![m.to] = Piece(P.side, m.piece)]
    BY <1>2, <1>3 DEF After
  <2>3. Q.hands[enemy] = P.hands[enemy]
    BY <1>1, <2>1 DEF Hands
  <2> QED BY <2>1, <2>2, <2>3 DEF Q
<1>4. CASE ~m.drop
  <2>1. After(P.board, m, P.side)
          = [P.board EXCEPT ![m.from] = NoPiece, ![m.to] = Piece(P.side, Landing(P, m))]
    BY <1>4 DEF After, Landing
  <2>2. \A t : [P.hands EXCEPT ![P.side][t] = @ + 1][enemy] = P.hands[enemy]
    BY <1>1 DEF Hands
  <2>3. /\ Shape(Q) /\ Exact(Q) /\ Q.side = enemy
        /\ Q.board = [P.board EXCEPT ![m.from] = NoPiece, ![m.to] = Piece(P.side, Landing(P, m))]
        /\ Q.hands = IF P.board[m.to] = NoPiece THEN P.hands
                     ELSE [P.hands EXCEPT ![P.side][Unpromote(P.board[m.to].type)] = @ + 1]
    BY <1>2, <1>4, MakeBoardMove
  <2> HIDE DEF Q
  <2>4. Q.hands[enemy] = P.hands[enemy]
    BY <2>2, <2>3
  <2> QED BY <2>1, <2>3, <2>4 DEF Q
<1> QED BY <1>3, <1>4

(* A dropped pawn gives check by its own step alone, to a king that was not in
   check, and nothing can be put in its way. *)
LEMMA PawnCheck ==
    ASSUME NEW P, Shape(P), Exact(P), NEW m \in Drops(P.board, P.hands, P.side), m.piece = "Pawn",
           ~InCheck(P, Opposite(P.side))
    PROVE  LET enemy == Opposite(P.side)
               king == P.king[enemy]
               Q == MakeMove(P, m)
           IN /\ InCheck(Q, enemy) <=> king # NoSquare /\ m.to \in StepTo[P.side]["Pawn"][king]
              /\ InCheck(Q, enemy) => /\ Q.king[enemy] = king
                                      /\ Safe(Q.board, Drops(Q.board, P.hands, enemy), enemy) = {}
<1> DEFINE enemy == Opposite(P.side)
           king == P.king[enemy]
           Q == MakeMove(P, m)
<1>1. WellFormed(P, m) /\ m.drop
  BY RulesFit
<1>2. m.to \in Squares /\ m.promote = FALSE /\ P.board[m.to] = NoPiece
  BY <1>1, DropsAre, DropFields DEF WellFormed, Fits
<1>3. /\ Shape(Q) /\ Exact(Q) /\ Q.side = enemy
      /\ Q.board = After(P.board, m, P.side) /\ Q.hands[enemy] = P.hands[enemy]
  BY <1>1, <1>2, MakeMoveIs
<1>4. /\ P.side \in Colors /\ enemy \in Colors /\ enemy # P.side /\ Opposite(enemy) = P.side
      /\ king \in Squares \cup {NoSquare} /\ NoSquare \notin Squares /\ "Pawn" \in Types
      /\ Q.king \in [Colors -> Squares \cup {NoSquare}] /\ P.board \in Boards
  <2>1. P.side \in Colors /\ P.king \in [Colors -> Squares \cup {NoSquare}] /\ P.board \in Boards
    BY ExactIs
  <2>2. Q.king \in [Colors -> Squares \cup {NoSquare}]
    BY <1>3, ExactIs
  <2> HIDE DEF Q
  <2> QED BY <2>1, <2>2, OppositeFacts, PieceFacts DEF Types, HandTypes
<1>5. Q.board = [P.board EXCEPT ![m.to] = Piece(P.side, "Pawn")]
  BY <1>1, <1>2, <1>3 DEF After
<1>6. /\ Q.board[m.to] = Piece(P.side, "Pawn")
      /\ \A s \in Squares : s # m.to => Q.board[s] = P.board[s]
  BY <1>2, <1>4, <1>5 DEF Boards
<1>7. Q.occupied = P.occupied \cup {m.to} /\ m.to \notin P.occupied
  <2>1. P.occupied = {s \in Squares : P.board[s] # NoPiece} /\ Q.occupied = {s \in Squares : Q.board[s] # NoPiece}
    BY <1>3, ExactIs
  <2>2. Piece(P.side, "Pawn") # NoPiece
    BY <1>4, PieceFacts
  <2> HIDE DEF Q
  <2> QED BY <1>2, <1>6, <2>1, <2>2
<1>8. Q.king[enemy] = king
  <2>1. /\ \A s \in Squares : P.board[s] = Piece(enemy, "King") <=> king = s
        /\ \A s \in Squares : Q.board[s] = Piece(enemy, "King") <=> Q.king[enemy] = s
    BY <1>3, <1>4 DEF Exact
  <2>2. Piece(P.side, "Pawn") # Piece(enemy, "King") /\ NoPiece # Piece(enemy, "King")
    BY <1>4, PieceFacts DEF Types
  <2> HIDE DEF Q, king
  <2>3. \A s \in Squares : Q.king[enemy] = s <=> king = s
    BY <1>2, <1>6, <2>1, <2>2
  <2>4. Q.king[enemy] \in Squares \cup {NoSquare}
    BY <1>4
  <2> QED BY <1>4, <2>3, <2>4
<1> HIDE DEF Q, king, enemy
<1>9. ASSUME king \in Squares, NEW f
      PROVE  f \in AttackersTo(Q, king, P.side, Q.occupied)
               <=> f = m.to /\ m.to \in StepTo[P.side]["Pawn"][king]
  <2>1. f \in AttackersTo(Q, king, P.side, Q.occupied) <=>
          /\ f \in Squares /\ Q.board[f].color = P.side
          /\ Sees(Q.board[f].type, P.side, f, king) /\ Between[king][f] \cap Q.occupied = {}
    BY <1>3, <1>4, <1>9, AttackersIs
  <2>2. CASE f = m.to
    <3>1. Q.board[f].color = P.side /\ Q.board[f].type = "Pawn" /\ f \in Squares
      BY <1>2, <1>4, <1>6, <2>2, PieceFacts
    <3>2. Sees("Pawn", P.side, f, king) <=> king \in StepFrom[P.side]["Pawn"][f]
      BY DEF Sees, Slides
    <3>3. king \in StepFrom[P.side]["Pawn"][f] <=> f \in StepTo[P.side]["Pawn"][king]
      BY <1>4, <1>9, <3>1 DEF StepFrom, StepTo
    <3>4. king \in StepFrom[P.side]["Pawn"][f] => Between[king][f] = {}
      BY <1>4, <1>9, <3>1, NoneBetweenStep, BetweenSymmetric
    <3> QED BY <2>1, <2>2, <3>1, <3>2, <3>3, <3>4
  <2>3. CASE f # m.to
    <3> SUFFICES ASSUME f \in AttackersTo(Q, king, P.side, Q.occupied) PROVE FALSE
      BY <2>3
    <3>1. f \in AttackersTo(P, king, P.side, P.occupied)
      <4>1. f \in Squares /\ Q.board[f] = P.board[f]
        BY <1>6, <2>1, <2>3
      <4> QED BY <1>4, <1>7, <1>9, <2>1, <4>1, AttackersIs
    <3>2. InCheck(P, enemy)
      BY <1>4, <1>9, <3>1 DEF InCheck, king
    <3> QED BY <3>2 DEF enemy
  <2> QED BY <2>2, <2>3
<1>10. InCheck(Q, enemy) <=> king # NoSquare /\ AttackersTo(Q, king, P.side, Q.occupied) # {}
  BY <1>4, <1>8 DEF InCheck
<1>11. InCheck(Q, enemy) <=> king # NoSquare /\ m.to \in StepTo[P.side]["Pawn"][king]
  BY <1>4, <1>9, <1>10
<1>12. ASSUME InCheck(Q, enemy), NEW d \in Safe(Q.board, Drops(Q.board, P.hands, enemy), enemy)
       PROVE  FALSE
  <2> DEFINE state == GenState(Q, enemy)
  <2>1. king \in Squares /\ m.to \in StepTo[P.side]["Pawn"][king]
    BY <1>4, <1>11, <1>12
  <2>2. Drops(Q.board, P.hands, enemy) = Drops(Q.board, Q.hands, enemy)
    BY <1>3 DEF Drops
  <2>3. Checkers(Q) = {m.to}
    BY <1>3, <1>4, <1>8, <1>9, <2>1 DEF Checkers
  <2>4. state.checkers = {m.to}
    BY <1>3, <1>12, <2>3, CheckersAre
  <2>5. Cardinality({m.to}) = 1
    BY FS_Singleton
  <2>6. state.mask = Stops(king, m.to)
    <3>1. TheOne({m.to}) = m.to
      BY TheOneIs
    <3> QED BY <1>3, <1>8, <1>12, <2>3, <2>4, <2>5, <3>1, CheckersAre
  <2> HIDE DEF state
  <2>7. d \in Drops(Q.board, Q.hands, Q.side) /\ ~Checked(After(Q.board, d, Q.side), Q.side)
    BY <1>3, <1>12, <2>2 DEF Safe
  <2>8. WellFormed(Q, d) /\ d.drop
    BY <1>3, <2>7, RulesFit
  <2>9. Allowed(state, d)
    BY <1>3, <2>7, <2>8, AllowedMovesAreSafe DEF MovesKing, state
  <2>10. Between[king][m.to] = {}
    <3>1. king \in StepFrom[P.side]["Pawn"][m.to]
      BY <1>2, <1>4, <2>1 DEF StepFrom, StepTo
    <3> QED BY <1>2, <1>4, <2>1, <3>1, NoneBetweenStep, BetweenSymmetric
  <2>11. d.to = m.to
    BY <2>6, <2>9, <2>10 DEF Allowed, Stops
  <2>12. Q.board[d.to] = NoPiece
    BY <2>8 DEF WellFormed, Fits
  <2>13. Piece(P.side, "Pawn") # NoPiece
    BY <1>4, PieceFacts
  <2> QED BY <1>6, <2>11, <2>12, <2>13
<1> QED BY <1>8, <1>11, <1>12 DEF Q, king, enemy

(* is_pawn_drop_mate against the rule, wherever the opponent is not in check. *)
LEMMA PawnDropMates ==
    ASSUME NEW P, Shape(P), Exact(P), NEW m \in Drops(P.board, P.hands, P.side), m.piece = "Pawn",
           ~InCheck(P, Opposite(P.side))
    PROVE  IsPawnDropMate(P, m) <=> PawnDropMate(P.board, P.hands, m, P.side)
<1> DEFINE enemy == Opposite(P.side)
           king == P.king[enemy]
           Q == MakeMove(P, m)
           next == After(P.board, m, P.side)
<1>1. WellFormed(P, m) /\ m.drop
  BY RulesFit
<1>2. ~m.promote
  BY DropsAre, DropFields
<1>3. /\ Shape(Q) /\ Exact(Q) /\ Q.side = enemy /\ Q.board = next
  BY <1>1, <1>2, MakeMoveIs
<1>4. P.side \in Colors /\ enemy \in Colors /\ Opposite(enemy) = P.side
  BY ExactIs, OppositeFacts
<1>5. /\ InCheck(Q, enemy) <=> king # NoSquare /\ m.to \in StepTo[P.side]["Pawn"][king]
      /\ InCheck(Q, enemy) => /\ Q.king[enemy] = king
                              /\ Safe(Q.board, Drops(Q.board, P.hands, enemy), enemy) = {}
  BY PawnCheck
<1>6. InCheck(Q, enemy) <=> Checked(next, enemy)
  BY <1>3, <1>4, InCheckIsChecked
<1>7. king # NoSquare => AttackersTo(P, king, P.side, P.occupied) = {}
  BY <1>4 DEF InCheck
<1>8. IsPawnDropMate(P, m) <=>
         /\ king # NoSquare
         /\ m.to \in StepTo[P.side]["Pawn"][king] \/ AttackersTo(P, king, P.side, P.occupied) # {}
         /\ ~HasEvasionOnBoard(Q, king)
  BY DEF IsPawnDropMate
<1>9. PawnDropMate(P.board, P.hands, m, P.side) <=>
         Checked(next, enemy) /\ Safe(next, BoardMoves(next, enemy) \cup Drops(next, P.hands, enemy), enemy) = {}
  BY <1>1 DEF PawnDropMate
<1> HIDE DEF Q, next, king
<1>10. InCheck(Q, enemy) => (HasEvasionOnBoard(Q, king) <=> Safe(next, BoardMoves(next, enemy), enemy) # {})
  BY <1>3, <1>5, EvasionsOnBoard
<1>11. Safe(next, BoardMoves(next, enemy) \cup Drops(next, P.hands, enemy), enemy)
          = Safe(next, BoardMoves(next, enemy), enemy) \cup Safe(next, Drops(next, P.hands, enemy), enemy)
  BY DEF Safe
<1> QED BY <1>3, <1>5, <1>6, <1>7, <1>8, <1>9, <1>10, <1>11

-----------------------------------------------------------------------------
(* A position of a game: exact, and the side that has moved is not in check. *)
Sound(P) == Shape(P) /\ Exact(P) /\ ~InCheck(P, Opposite(P.side))

LEMMA ChecksOfState ==
    ASSUME NEW P, Exact(P)
    PROVE  GenState(P, P.side).checkers # {} <=> InCheck(P, P.side)
BY DEF GenState, InCheck

(* generate_moves lists the legal moves of the rules, and its tactical selection
   those of them that are made in check, capture or promote. *)
THEOREM GeneratedMovesAreLawful ==
    ASSUME NEW P, Sound(P)
    PROVE  /\ LegalMoves(P) = LawfulMoves(P.board, P.hands, P.side)
           /\ QuiescenceMoves(P) = {m \in LegalMoves(P) :
                  InCheck(P, P.side) \/ m.promote \/ P.board[m.to] # NoPiece}
<1> DEFINE candidates == BoardMoves(P.board, P.side) \cup Drops(P.board, P.hands, P.side)
           safe == Safe(P.board, candidates, P.side)
           Mates(m) == PawnDropMate(P.board, P.hands, m, P.side)
<1>1. Shape(P) /\ Exact(P) /\ ~InCheck(P, Opposite(P.side))
  BY DEF Sound
<1>2. ASSUME NEW m \in safe
      PROVE  m.drop /\ m.piece = "Pawn" /\ IsPawnDropMate(P, m) <=> Mates(m)
  <2>1. m \in candidates
    BY DEF Safe
  <2>2. CASE m.drop /\ m.piece = "Pawn"
    <3>1. m \in Drops(P.board, P.hands, P.side)
      BY <1>1, <2>1, <2>2, RulesFit
    <3> QED BY <1>1, <2>2, <3>1, PawnDropMates
  <2>3. CASE ~(m.drop /\ m.piece = "Pawn")
    BY <2>3 DEF PawnDropMate
  <2> QED BY <2>2, <2>3
<1>3. ASSUME NEW m, NEW selection \in {"All", "Tactical"}
      PROVE  m \in Generate(P, TRUE, TRUE, selection) <=>
               /\ m \in safe /\ ~Mates(m)
               /\ ShouldKeep(P, m, selection, GenState(P, P.side).checkers # {})
  <2>1. m \in Generate(P, TRUE, TRUE, selection) <=>
             /\ m \in safe
             /\ ~(TRUE /\ m.drop /\ m.piece = "Pawn" /\ IsPawnDropMate(P, m))
             /\ ShouldKeep(P, m, selection, GenState(P, P.side).checkers # {})
    BY <1>1, GenerateIs
  <2> HIDE DEF safe, Mates
  <2> QED BY <1>2, <2>1
<1>4. \A m : m \in LegalMoves(P) <=> m \in safe /\ ~Mates(m)
  BY <1>3 DEF LegalMoves, ShouldKeep
<1>5. LegalMoves(P) = {m \in safe : ~Mates(m)}
  <2> HIDE DEF safe, Mates
  <2> QED BY <1>4
<1>6. \A m : m \in QuiescenceMoves(P) <=>
               m \in safe /\ ~Mates(m) /\ (InCheck(P, P.side) \/ P.board[m.to] # NoPiece \/ m.promote)
  <2>1. \A m : ShouldKeep(P, m, "Tactical", GenState(P, P.side).checkers # {})
                 <=> InCheck(P, P.side) \/ P.board[m.to] # NoPiece \/ m.promote
    BY <1>1, ChecksOfState DEF ShouldKeep
  <2> HIDE DEF safe, Mates
  <2> QED BY <1>3, <2>1 DEF QuiescenceMoves
<1>7. QuiescenceMoves(P) = {m \in LegalMoves(P) :
                  InCheck(P, P.side) \/ m.promote \/ P.board[m.to] # NoPiece}
  <2> HIDE DEF safe, Mates
  <2> QED BY <1>4, <1>6
<1> QED BY <1>5, <1>7 DEF LawfulMoves

(* A safe drop in check stands between the checker and the king. *)
LEMMA DropsInCheck ==
    ASSUME NEW P, Exact(P), InCheck(P, P.side), NEW m
    PROVE  m \in Safe(P.board, Drops(P.board, P.hands, P.side), P.side) <=>
             /\ Cardinality(Checkers(P)) = 1
             /\ m = Drop(m.to, m.piece) /\ m.piece \in HandTypes /\ P.hands[P.side][m.piece] > 0
             /\ m.to \in DropTargets(P, P.side, m.piece) \cap Between[P.king[P.side]][TheOne(Checkers(P))]
<1> DEFINE king == P.king[P.side]
           state == GenState(P, P.side)
           checker == TheOne(Checkers(P))
           safe == Safe(P.board, Drops(P.board, P.hands, P.side), P.side)
<1>1. /\ king \in Squares /\ Checkers(P) = state.checkers
      /\ state.checkers = {f \in Watchers(P, king, Opposite(P.side)) : Screen(P, king, f) = {}}
      /\ Cardinality(state.checkers) <= 1 <=> Cardinality(state.checkers) = 1
      /\ Cardinality(state.checkers) = 1 =>
            state.checkers = {checker} /\ state.mask = Stops(king, checker)
  BY CheckersAre
<1>2. P.side \in Colors /\ Opposite(P.side) \in Colors
  BY ExactIs, OppositeFacts
<1>3. \A f \in Watchers(P, king, Opposite(P.side)) : f \in P.occupied
  BY <1>1, <1>2, WatcherFacts
<1>4. m \in safe => Cardinality(state.checkers) = 1
  <2> SUFFICES ASSUME m \in safe PROVE Cardinality(state.checkers) = 1
    OBVIOUS
  <2>1. m \in Drops(P.board, P.hands, P.side) /\ ~Checked(After(P.board, m, P.side), P.side)
    BY DEF Safe
  <2>2. WellFormed(P, m) /\ m.drop
    BY <2>1, RulesFit
  <2>3. Allowed(state, m)
    BY <2>1, <2>2, AllowedMovesAreSafe DEF MovesKing
  <2> HIDE DEF state
  <2> QED BY <1>1, <2>3 DEF Allowed
<1>5. Cardinality(state.checkers) = 1 =>
         (m \in safe <=> /\ m = Drop(m.to, m.piece) /\ m.piece \in HandTypes /\ P.hands[P.side][m.piece] > 0
                         /\ m.to \in DropTargets(P, P.side, m.piece) \cap state.mask)
  BY <1>1, DropsOnMask
<1>6. \A t \in HandTypes : DropTargets(P, P.side, t) \cap P.occupied = {}
  BY DEF DropTargets
<1> HIDE DEF king, state, checker, safe
<1>7. Cardinality(state.checkers) = 1 => checker \in P.occupied
  BY <1>1, <1>3
<1>8. Cardinality(state.checkers) = 1 =>
         \A t \in HandTypes : DropTargets(P, P.side, t) \cap state.mask
                              = DropTargets(P, P.side, t) \cap Between[king][checker]
  BY <1>1, <1>6, <1>7 DEF Stops
<1> QED BY <1>1, <1>4, <1>5, <1>8 DEF king, checker, safe

(* has_legal_move, which lists none, knows whether there is one. *)
THEOREM HasLegalMoveIsRight ==
    ASSUME NEW P, Sound(P)
    PROVE  HasLegalMove(P) <=> LegalMoves(P) # {}
<1>1. Shape(P) /\ Exact(P) /\ ~InCheck(P, Opposite(P.side))
  BY DEF Sound
<1>2. CASE ~InCheck(P, P.side)
  BY <1>2 DEF HasLegalMove
<1>3. CASE InCheck(P, P.side)
  <2> DEFINE king == P.king[P.side]
             moves == Safe(P.board, BoardMoves(P.board, P.side), P.side)
             drops == Safe(P.board, Drops(P.board, P.hands, P.side), P.side)
             Mates(m) == PawnDropMate(P.board, P.hands, m, P.side)
             Targets(t) == DropTargets(P, P.side, t) \cap Between[king][TheOne(Checkers(P))]
  <2>1. HasLegalMove(P) <=> HasEvasion(P, king)
    BY <1>3 DEF HasLegalMove
  <2>2. HasEvasion(P, king) <=>
          \/ moves # {}
          \/ /\ Cardinality(Checkers(P)) = 1
             /\ \E t \in HandTypes : P.hands[P.side][t] > 0 /\
                   \E s \in Targets(t) : t = "Pawn" => ~IsPawnDropMate(P, Drop(s, t))
    BY <1>1, <1>3, EvasionsOnBoard DEF HasEvasion
  <2>3. LegalMoves(P) = {m \in moves \cup drops : ~Mates(m)}
    <3>1. LegalMoves(P) = LawfulMoves(P.board, P.hands, P.side)
      BY GeneratedMovesAreLawful
    <3>2. Safe(P.board, BoardMoves(P.board, P.side) \cup Drops(P.board, P.hands, P.side), P.side) = moves \cup drops
      BY DEF Safe
    <3> HIDE DEF moves, drops
    <3> QED BY <3>1, <3>2 DEF LawfulMoves
  <2>4. \A m \in moves : ~Mates(m)
    <3> SUFFICES ASSUME NEW m \in moves PROVE ~Mates(m)
      OBVIOUS
    <3>1. m \in BoardMoves(P.board, P.side)
      BY DEF Safe
    <3>2. ~m.drop
      BY <1>1, <3>1, RulesFit
    <3> QED BY <3>2 DEF PawnDropMate
  <2>5. \A m : m \in drops <=>
             /\ Cardinality(Checkers(P)) = 1
             /\ m = Drop(m.to, m.piece) /\ m.piece \in HandTypes /\ P.hands[P.side][m.piece] > 0
             /\ m.to \in Targets(m.piece)
    BY <1>1, <1>3, DropsInCheck
  <2>6. \A m \in drops : Mates(m) <=> m.piece = "Pawn" /\ IsPawnDropMate(P, m)
    <3> SUFFICES ASSUME NEW m \in drops PROVE Mates(m) <=> m.piece = "Pawn" /\ IsPawnDropMate(P, m)
      OBVIOUS
    <3>1. m \in Drops(P.board, P.hands, P.side)
      BY DEF Safe
    <3>2. CASE m.piece = "Pawn"
      BY <1>1, <3>1, <3>2, PawnDropMates
    <3>3. CASE m.piece # "Pawn"
      BY <3>3 DEF PawnDropMate
    <3> QED BY <3>2, <3>3
  <2> HIDE DEF king, moves, drops, Mates, Targets
  <2>7. (\E m \in drops : ~Mates(m)) <=>
           /\ Cardinality(Checkers(P)) = 1
           /\ \E t \in HandTypes : P.hands[P.side][t] > 0 /\
                 \E s \in Targets(t) : t = "Pawn" => ~IsPawnDropMate(P, Drop(s, t))
    <3>1. ASSUME NEW m \in drops, ~Mates(m)
          PROVE  /\ Cardinality(Checkers(P)) = 1
                 /\ \E t \in HandTypes : P.hands[P.side][t] > 0 /\
                       \E s \in Targets(t) : t = "Pawn" => ~IsPawnDropMate(P, Drop(s, t))
      BY <2>5, <2>6, <3>1
    <3>2. ASSUME Cardinality(Checkers(P)) = 1, NEW t \in HandTypes, P.hands[P.side][t] > 0,
                 NEW s \in Targets(t), t = "Pawn" => ~IsPawnDropMate(P, Drop(s, t))
          PROVE  \E m \in drops : ~Mates(m)
      <4>1. Drop(s, t).to = s /\ Drop(s, t).piece = t
        BY DropFields
      <4>2. Drop(s, t) \in drops
        BY <2>5, <3>2, <4>1
      <4> QED BY <2>6, <3>2, <4>1, <4>2
    <3> QED BY <3>1, <3>2
  <2> QED BY <2>1, <2>2, <2>3, <2>4, <2>7
<1> QED BY <1>2, <1>3

(* A legal move leaves a position of a game. *)
THEOREM LegalMovesKeepPositionsSound ==
    ASSUME NEW P, Sound(P), NEW m \in LegalMoves(P)
    PROVE  Sound(MakeMove(P, m))
<1> DEFINE Q == MakeMove(P, m)
<1>1. Shape(P) /\ Exact(P)
  BY DEF Sound
<1>2. /\ m \in BoardMoves(P.board, P.side) \cup Drops(P.board, P.hands, P.side)
      /\ ~Checked(After(P.board, m, P.side), P.side)
  BY GeneratedMovesAreLawful DEF LawfulMoves, Safe
<1>3. WellFormed(P, m) /\ (m.drop => ~m.promote)
  BY <1>1, <1>2, RulesFit, DropsAre, DropFields
<1>4. /\ Shape(Q) /\ Exact(Q) /\ Q.side = Opposite(P.side)
      /\ Q.board = After(P.board, m, P.side)
  BY <1>1, <1>3, MakeMoveIs
<1>5. P.side \in Colors /\ Opposite(Opposite(P.side)) = P.side
  BY <1>1, ExactIs, OppositeFacts
<1> HIDE DEF Q
<1>6. ~InCheck(Q, P.side)
  BY <1>2, <1>4, <1>5, InCheckIsChecked
<1> QED BY <1>4, <1>5, <1>6 DEF Sound, Q

-----------------------------------------------------------------------------
(* Moves that give check. *)

(* What the mover's pieces attack when the move has been made: the piece from its
   new square, and the others past the square it has left. *)
Lands(P, m) ==
    LET type == IF m.drop THEN m.piece ELSE P.board[m.from].type
    IN IF m.promote THEN Promote(type) ELSE type
Strikes(P, m, s) ==
    Sees(Lands(P, m), P.side, m.to, s) /\ Between[s][m.to] \cap (P.occupied \ Lifted(m)) = {}
Uncovers(P, m, s) ==
    \E f \in Watchers(P, s, P.side) :
        f \notin Lifted(m) /\ Between[s][f] \cap ((P.occupied \ Lifted(m)) \cup {m.to}) = {}

LEMMA AttackersAfter ==
    ASSUME NEW P, Exact(P), NEW m, WellFormed(P, m), NEW s \in Squares
    PROVE  LET next == After(P.board, m, P.side)
           IN Attackers(next, s, P.side) # {} <=> Strikes(P, m, s) \/ Uncovers(P, m, s)
<1> DEFINE next == After(P.board, m, P.side)
           taken == (P.occupied \ Lifted(m)) \cup {m.to}
<1>1. /\ m.to \in Squares /\ m.to \notin Lifted(m) /\ P.side \in Colors /\ Lands(P, m) \in Types
      /\ next[m.to] = Piece(P.side, Lands(P, m))
      /\ \A x \in Lifted(m) : next[x] = NoPiece
      /\ \A x \in Squares : x # m.to /\ x \notin Lifted(m) => next[x] = P.board[x]
  BY AfterIs DEF Lands
<1>2. Full(next) = taken
  BY AfterMove
<1>3. next[m.to].color = P.side /\ next[m.to].type = Lands(P, m)
  BY <1>1, PieceFacts
<1>4. NoPiece.color # P.side
  BY <1>1, PieceFacts
<1>5. P.board[m.to].color # P.side
  <2>1. m.drop => P.board[m.to] = NoPiece
    BY DEF WellFormed, Fits
  <2> QED BY <1>4, <2>1 DEF WellFormed, Fits
<1> HIDE DEF next
<1>6. \A f : f \in Attackers(next, s, P.side) <=>
         /\ f \in Squares /\ next[f].color = P.side
         /\ Sees(next[f].type, P.side, f, s) /\ Between[s][f] \cap taken = {}
  BY <1>2 DEF Attackers
<1>7. m.to \in Attackers(next, s, P.side) <=> Strikes(P, m, s)
  <2>1. m.to \notin Between[s][m.to]
    BY <1>1, BetweenFacts
  <2> QED BY <1>1, <1>3, <1>6, <2>1 DEF Strikes
<1>8. ASSUME NEW f, f # m.to
      PROVE  f \in Attackers(next, s, P.side) <=>
                f \in Watchers(P, s, P.side) /\ f \notin Lifted(m) /\ Between[s][f] \cap taken = {}
  BY <1>1, <1>4, <1>6, <1>8 DEF Watchers
<1>9. m.to \notin Watchers(P, s, P.side)
  BY <1>5 DEF Watchers
<1>10. (\E f : f \in Attackers(next, s, P.side)) <=> Strikes(P, m, s) \/ Uncovers(P, m, s)
  BY <1>7, <1>8, <1>9 DEF Uncovers
<1> QED BY <1>10 DEF next

LEMMA GivesCheckIs ==
    ASSUME NEW P, Exact(P), NEW m, WellFormed(P, m)
    PROVE  Checked(After(P.board, m, P.side), Opposite(P.side)) <=>
             LET king == P.king[Opposite(P.side)]
             IN king \in Squares /\ (Strikes(P, m, king) \/ Uncovers(P, m, king))
<1> DEFINE next == After(P.board, m, P.side)
           enemy == Opposite(P.side)
           king == P.king[enemy]
<1>1. P.side \in Colors /\ enemy \in Colors /\ Opposite(enemy) = P.side
  BY ExactIs, OppositeFacts
<1>2. next \in Boards
  BY AfterIs
<1>3. \A s \in Squares : next[s] = Piece(enemy, "King") <=> king = s
  BY AfterMove
<1>4. \A s \in Squares : Attackers(next, s, P.side) # {} <=> Strikes(P, m, s) \/ Uncovers(P, m, s)
  BY AttackersAfter
<1> HIDE DEF next
<1>5. Checked(next, enemy) <=> \E s \in Squares : next[s] = Piece(enemy, "King") /\ Attackers(next, s, P.side) # {}
  BY <1>1, <1>2, CheckedIs
<1> QED BY <1>3, <1>4, <1>5 DEF next

(* A line is opened by the only piece that stood on it. *)
LEMMA UncoversIs ==
    ASSUME NEW P, Sound(P), NEW m, WellFormed(P, m), P.king[Opposite(P.side)] \in Squares
    PROVE  LET info == CheckInfo(P, P.side)
           IN /\ info.king = P.king[Opposite(P.side)] /\ info.filter = FALSE
              /\ Uncovers(P, m, info.king) <=> ~m.drop /\ Opens(m.from, m.to, info)
<1> DEFINE enemy == Opposite(P.side)
           king == P.king[enemy]
           info == CheckInfo(P, P.side)
           pins == LinePins(P, king, P.side, P.side)
           W == Watchers(P, king, P.side)
<1>1. Shape(P) /\ Exact(P) /\ ~InCheck(P, enemy)
  BY DEF Sound
<1>2. P.side \in Colors /\ enemy \in Colors /\ Opposite(enemy) = P.side /\ king \in Squares /\ NoSquare \notin Squares
  BY <1>1, ExactIs, OppositeFacts, PieceFacts
<1>3. king # NoSquare /\ AttackersTo(P, king, P.side, P.occupied) = {}
  BY <1>1, <1>2 DEF InCheck
<1>4. info.king = king /\ info.filter = FALSE /\ info.line = [b \in DOMAIN pins |-> Between[king][pins[b]]]
  BY <1>3 DEF CheckInfo
<1>5. /\ \A b : b \in DOMAIN pins <=> P.board[b].color = P.side /\ \E f \in W : Screen(P, king, f) = {b}
      /\ \A b \in DOMAIN pins : \A f \in W : Screen(P, king, f) = {b} => pins[b] = f
  <2>0. Exact(P) /\ king \in Squares /\ P.side \in Colors
    BY <1>1, <1>2
  <2> HIDE DEF king, enemy
  <2>1. ASSUME NEW color \in Colors
        PROVE  LET xs == LinePins(P, king, color, color)
               IN /\ \A b : b \in DOMAIN xs <=>
                        P.board[b].color = color /\ \E f \in Watchers(P, king, color) : Screen(P, king, f) = {b}
                  /\ \A b \in DOMAIN xs : \A f \in Watchers(P, king, color) : Screen(P, king, f) = {b} => xs[b] = f
    BY <2>0, PinsAre
  <2>2. pins = LinePins(P, king, P.side, P.side) /\ W = Watchers(P, king, P.side)
    OBVIOUS
  <2> HIDE DEF pins, W
  <2> QED BY <2>0, <2>1, <2>2
<1>6. \A f \in W : Screen(P, king, f) # {}
  <2>1. AttackersTo(P, king, P.side, P.occupied) = {f \in W : Between[king][f] \cap P.occupied = {}}
    BY <1>1, <1>2, AttackersWatch
  <2> HIDE DEF W, king
  <2> QED BY <1>3, <2>1 DEF Screen
<1>7. \A f \in W : f \in Squares /\ f \notin Between[king][f]
  BY <1>1, <1>2, BetweenFacts DEF Watchers
<1>8. ~m.drop => P.board[m.from].color = P.side
  BY DEF WellFormed, Fits
<1> HIDE DEF W, pins, king, info
<1>9. ASSUME NEW f \in W
      PROVE  f \notin Lifted(m) /\ Between[king][f] \cap ((P.occupied \ Lifted(m)) \cup {m.to}) = {}
               <=> ~m.drop /\ Screen(P, king, f) = {m.from} /\ m.to \notin Between[king][f]
  <2>1. CASE m.drop
    BY <1>6, <2>1 DEF Lifted, Screen
  <2>2. CASE ~m.drop
    BY <1>6, <1>7, <2>2 DEF Lifted, Screen
  <2> QED BY <2>1, <2>2
<1>10. Uncovers(P, m, king) <=> ~m.drop /\ \E f \in W : Screen(P, king, f) = {m.from} /\ m.to \notin Between[king][f]
  BY <1>9 DEF Uncovers, W
<1>11. ASSUME ~m.drop
       PROVE  (\E f \in W : Screen(P, king, f) = {m.from} /\ m.to \notin Between[king][f])
                 <=> m.from \in DOMAIN info.line /\ m.to \notin info.line[m.from]
  <2>1. CASE m.from \notin DOMAIN pins
    BY <1>4, <1>5, <1>8, <1>11, <2>1
  <2>2. CASE m.from \in DOMAIN pins
    <3>1. PICK g \in W : Screen(P, king, g) = {m.from}
      BY <1>5, <2>2
    <3>2. \A f \in W : Screen(P, king, f) = {m.from} => f = pins[m.from]
      BY <1>5, <2>2
    <3>3. m.from \in DOMAIN info.line /\ info.line[m.from] = Between[king][pins[m.from]]
      BY <1>4, <2>2
    <3> QED BY <3>1, <3>2, <3>3
  <2> QED BY <2>1, <2>2
<1> QED BY <1>4, <1>10, <1>11 DEF info, king, Opens

LEMMA CheckTargetsAre ==
    ASSUME NEW type \in Types, NEW color \in Colors, NEW s \in Squares, NEW t \in Squares, NEW occupied
    PROVE  t \in CheckTargets(type, color, s, occupied) <=>
             /\ type # "King" /\ Sees(type, color, t, s) /\ Between[s][t] \cap occupied = {}
<1>1. t \in StepTo[color][type][s] <=> s \in StepFrom[color][type][t]
  BY DEF StepTo, StepFrom
<1>2. s \in StepFrom[color][type][t] => Between[s][t] = {}
  BY NoneBetweenStep, BetweenSymmetric
<1>3. Slides(type, color, t, s) <=>
             \/ type = "Lance" /\ t \in LanceLines[Opposite(color)][s]
             \/ type \in {"Bishop", "Horse"} /\ t \in BishopLines[s]
             \/ type \in {"Rook", "Dragon"} /\ t \in RookLines[s]
  BY SlidesBack
<1>4. Opposite(color) \in Colors
  BY OppositeFacts
<1>5. /\ t \in LanceAttacks(s, Opposite(color), occupied)
           <=> t \in LanceLines[Opposite(color)][s] /\ Between[s][t] \cap occupied = {}
      /\ t \in BishopAttacks(s, occupied) <=> t \in BishopLines[s] /\ Between[s][t] \cap occupied = {}
      /\ t \in RookAttacks(s, occupied) <=> t \in RookLines[s] /\ Between[s][t] \cap occupied = {}
  BY DEF LanceAttacks, BishopAttacks, RookAttacks, LineAttacks
<1>6. t \in CheckTargets(type, color, s, occupied) <=>
         /\ type # "King"
         /\ \/ t \in StepTo[color][type][s]
            \/ type = "Lance" /\ t \in LanceAttacks(s, Opposite(color), occupied)
            \/ type \in {"Bishop", "Horse"} /\ t \in BishopAttacks(s, occupied)
            \/ type \in {"Rook", "Dragon"} /\ t \in RookAttacks(s, occupied)
  <2>1. CASE type = "King"
    BY <2>1 DEF CheckTargets
  <2>2. CASE type = "Lance"
    BY <2>2 DEF CheckTargets
  <2>3. CASE type \in {"Bishop", "Horse"}
    BY <2>3 DEF CheckTargets
  <2>4. CASE type \in {"Rook", "Dragon"}
    BY <2>4 DEF CheckTargets
  <2>5. CASE type \notin {"King", "Lance", "Bishop", "Horse", "Rook", "Dragon"}
    BY <2>5 DEF CheckTargets
  <2> QED BY <2>1, <2>2, <2>3, <2>4, <2>5
<1> QED BY <1>1, <1>2, <1>3, <1>5, <1>6 DEF Sees

(* Where a king gives check, it would stand in check itself. *)
LEMMA KingsDoNotCheck ==
    ASSUME NEW P, Sound(P), NEW m \in LegalMoves(P), MovesKing(P, m), P.king[Opposite(P.side)] \in Squares
    PROVE  ~Sees("King", P.side, m.to, P.king[Opposite(P.side)])
<1> DEFINE enemy == Opposite(P.side)
           king == P.king[enemy]
<1>1. Exact(P) /\ P.side \in Colors /\ enemy \in Colors /\ enemy # P.side /\ king \in Squares
  BY ExactIs, OppositeFacts DEF Sound
<1>2. /\ m \in BoardMoves(P.board, P.side) \cup Drops(P.board, P.hands, P.side)
      /\ ~Checked(After(P.board, m, P.side), P.side)
  BY GeneratedMovesAreLawful DEF LawfulMoves, Safe
<1>3. WellFormed(P, m) /\ m.to \in Squares
  BY <1>1, <1>2, RulesFit DEF WellFormed, Fits
<1>4. AttackersTo(P, m.to, enemy, P.occupied \ {m.from}) = {}
  BY <1>1, <1>2, <1>3, KingMoveChecked
<1>5. P.board[king] = Piece(enemy, "King") /\ "King" \in Types
  BY <1>1 DEF Exact, Types
<1>6. P.board[king].color = enemy /\ P.board[king].type = "King"
  BY <1>1, <1>5, PieceFacts
<1> HIDE DEF king
<1> SUFFICES ASSUME Sees("King", P.side, m.to, king) PROVE FALSE
  BY DEF king
<1>7. king \in StepFrom[P.side]["King"][m.to]
  BY DEF Sees, Slides
<1>8. m.to \in StepFrom[enemy]["King"][king]
  <2>1. Offset(P.side, m.to, king) \in Steps("King")
    BY <1>1, <1>3, <1>5, <1>7 DEF StepFrom
  <2>2. Offset(P.side, m.to, king) = Offset(enemy, king, m.to)
    <3>1. Row(m.to) \in Int /\ Col(m.to) \in Int /\ Row(king) \in Int /\ Col(king) \in Int
      BY <1>1, <1>3, Coordinates
    <3> HIDE DEF enemy
    <3>2. CASE P.side = "black" /\ enemy = "white"
      BY <3>1, <3>2 DEF Offset
    <3>3. CASE P.side = "white" /\ enemy = "black"
      BY <3>1, <3>3 DEF Offset
    <3> QED BY <1>1, <3>2, <3>3 DEF Colors
  <2> QED BY <1>1, <1>3, <1>5, <2>1, <2>2 DEF StepFrom
<1>9. Sees("King", enemy, king, m.to) /\ Between[king][m.to] = {}
  BY <1>1, <1>5, <1>8, NoneBetweenStep DEF Sees
<1>10. king \in AttackersTo(P, m.to, enemy, P.occupied \ {m.from})
  BY <1>1, <1>3, <1>6, <1>9, BetweenSymmetric, AttackersIs
<1> QED BY <1>4, <1>10

(* What the direct generation of checks looks at. *)
Finds(P, m, info) ==
    IF m.drop THEN m.to \in CheckTargets(m.piece, P.side, info.king, P.occupied)
    ELSE IF MovesKing(P, m) THEN Opens(m.from, m.to, info) ELSE PieceChecks(P, m, info)

LEMMA FindsAre ==
    ASSUME NEW P, Sound(P), NEW m \in LegalMoves(P), P.king[Opposite(P.side)] \in Squares
    PROVE  Finds(P, m, CheckInfo(P, P.side)) <=> Checked(After(P.board, m, P.side), Opposite(P.side))
<1> DEFINE enemy == Opposite(P.side)
           king == P.king[enemy]
           info == CheckInfo(P, P.side)
<1>1. Exact(P) /\ P.side \in Colors /\ enemy \in Colors /\ king \in Squares
  BY ExactIs, OppositeFacts DEF Sound
<1>2. m \in BoardMoves(P.board, P.side) \cup Drops(P.board, P.hands, P.side)
  BY GeneratedMovesAreLawful DEF LawfulMoves, Safe
<1>3. /\ WellFormed(P, m) /\ m.to \in Squares
      /\ m \in BoardMoves(P.board, P.side) <=> ~m.drop
      /\ m \in Drops(P.board, P.hands, P.side) <=> m.drop
  BY <1>1, <1>2, RulesFit DEF WellFormed, Fits
<1>4. Checked(After(P.board, m, P.side), enemy) <=> Strikes(P, m, king) \/ Uncovers(P, m, king)
  BY <1>1, <1>3, GivesCheckIs
<1>5. info.king = king /\ (Uncovers(P, m, king) <=> ~m.drop /\ Opens(m.from, m.to, info))
  BY <1>1, <1>3, UncoversIs
<1>6. ASSUME NEW type \in Types, NEW occupied
      PROVE  m.to \in CheckTargets(type, P.side, king, occupied) <=>
                /\ type # "King" /\ Sees(type, P.side, m.to, king) /\ Between[king][m.to] \cap occupied = {}
  BY <1>1, <1>3, CheckTargetsAre
<1>7. Lands(P, m) \in Types /\ (Lands(P, m) = "King" <=> MovesKing(P, m))
  BY <1>1, <1>3, AfterIs DEF Lands
<1>8. CASE m.drop
  <2>1. m.piece = Lands(P, m) /\ m.promote = FALSE
    BY <1>1, <1>3, <1>8, DropsAre, DropFields DEF Lands
  <2>2. ~MovesKing(P, m) /\ Lifted(m) = {}
    BY <1>8 DEF MovesKing, Lifted
  <2>3. Strikes(P, m, king) <=> m.to \in CheckTargets(m.piece, P.side, king, P.occupied)
    BY <1>6, <1>7, <2>1, <2>2 DEF Strikes
  <2> HIDE DEF info, king
  <2> QED BY <1>4, <1>5, <1>8, <2>3 DEF Finds, info
<1>9. CASE ~m.drop /\ MovesKing(P, m)
  <2>1. ~Strikes(P, m, king)
    BY <1>1, <1>7, <1>9, KingsDoNotCheck DEF Strikes
  <2> HIDE DEF info, king
  <2> QED BY <1>4, <1>5, <1>9, <2>1 DEF Finds, info
<1>10. CASE ~m.drop /\ ~MovesKing(P, m)
  <2>1. Lifted(m) = {m.from}
    BY <1>10 DEF Lifted
  <2>2. m.piece = P.board[m.from].type
    BY <1>1, <1>3, <1>10, BoardMovesAre, MoveFields
  <2>3. (IF m.promote THEN Promote(m.piece) ELSE m.piece) = Lands(P, m)
    BY <1>10, <2>2 DEF Lands
  <2>4. Strikes(P, m, king) <=> m.to \in CheckTargets(Lands(P, m), P.side, king, P.occupied \ {m.from})
    BY <1>6, <1>7, <1>10, <2>1 DEF Strikes
  <2> HIDE DEF info, king
  <2>5. PieceChecks(P, m, info) <=> Strikes(P, m, king) \/ Opens(m.from, m.to, info)
    BY <1>5, <2>3, <2>4 DEF PieceChecks
  <2> QED BY <1>4, <1>5, <1>10, <2>5 DEF Finds, info
<1> QED BY <1>8, <1>9, <1>10

(* The checking moves are the legal moves that the direct generation finds. *)
LEMMA CheckingMovesAre ==
    ASSUME NEW P, Sound(P), NEW m
    PROVE  LET info == CheckInfo(P, P.side)
           IN m \in CheckingMoves(P) <=>
                 /\ P.king[Opposite(P.side)] \in Squares
                 /\ m \in LegalMoves(P) /\ Finds(P, m, info)
<1> DEFINE state == GenState(P, P.side)
           info == CheckInfo(P, P.side)
           king == P.king[Opposite(P.side)]
           Kings(selection) == KingMoves(P, state, selection, info)
           Men(t, selection) == PieceMoves(P, state, t, selection, info)
           Fresh(selection) == DropMoves(P, state, TRUE, selection, info)
           many == Cardinality(state.checkers) > 1
<1>1. Exact(P) /\ P.side \in Colors /\ king \in Squares \cup {NoSquare} /\ NoSquare \notin Squares
  BY ExactIs, OppositeFacts, PieceFacts DEF Sound
<1>2. state.color = P.side /\ info.king = king /\ (king \in Squares => info.filter = FALSE)
  <2>1. AttackersTo(P, king, P.side, P.occupied) = {} \/ king = NoSquare
    BY <1>1, OppositeFacts DEF Sound, InCheck
  <2> QED BY <1>1, <2>1 DEF CheckInfo, GenState
<1>3. /\ m \in LegalMoves(P) <=>
            m \in Kings("All") \/ (~many /\ ((\E t \in Types \ {"King"} : m \in Men(t, "All")) \/ m \in Fresh("All")))
  BY DEF LegalMoves, Generate, GenerateFrom
<1>4. m \in CheckingMoves(P) <=>
            /\ king # NoSquare
            /\ \/ m \in Kings("Checking")
               \/ ~many /\ ((\E t \in Types \ {"King"} : m \in Men(t, "Checking")) \/ m \in Fresh("Checking"))
  BY <1>2 DEF CheckingMoves, Generate, GenerateFrom
<1>5. ASSUME king \in Squares
      PROVE  /\ m \in Kings("Checking") <=> m \in Kings("All") /\ Opens(m.from, m.to, info)
             /\ \A t \in Types \ {"King"} : m \in Men(t, "Checking") <=> m \in Men(t, "All") /\ PieceChecks(P, m, info)
             /\ m \in Fresh("Checking")
                  <=> m \in Fresh("All") /\ m.to \in CheckTargets(m.piece, P.side, king, P.occupied)
  <2>1. Direct("Checking", info) /\ ~Direct("All", info)
    BY <1>2, <1>5 DEF Direct
  <2>2. \A x, b : ShouldKeep(P, x, "All", b)
    BY DEF ShouldKeep
  <2>3. m \in Kings("Checking") <=> m \in Kings("All") /\ Opens(m.from, m.to, info)
    <3>1. king # NoSquare
      BY <1>1, <1>5
    <3>2. \A to : Move(P.king[P.side], to, "King", FALSE).from = P.king[P.side]
      BY DEF Move
    <3> HIDE DEF state, info
    <3> QED BY <1>2, <2>1, <2>2, <3>2 DEF KingMoves, Opens
  <2>4. ASSUME NEW t \in Types \ {"King"}
        PROVE m \in Men(t, "Checking") <=> m \in Men(t, "All") /\ PieceChecks(P, m, info)
    <3> DEFINE all == UNION {UNION {Variants(P, from, to, t) : to \in PieceTargets(P, state, from, t)} :
                                from \in P.pieces[P.side][t]}
    <3>1. Men(t, "Checking") = {x \in all : PieceChecks(P, x, info)}
      BY <1>2, <2>1 DEF PieceMoves
    <3>2. Men(t, "All") = {x \in all : ShouldKeep(P, x, "All", state.checkers # {})}
      BY <1>2, <2>1 DEF PieceMoves
    <3> HIDE DEF all, state, info
    <3> QED BY <2>2, <3>1, <3>2
  <2>5. m \in Fresh("Checking")
                  <=> m \in Fresh("All") /\ m.to \in CheckTargets(m.piece, P.side, king, P.occupied)
    <3> DEFINE all == UNION {{Drop(to, t) : to \in DropTargets(P, P.side, t) \cap state.mask} :
                               t \in {x \in HandTypes : P.hands[P.side][x] > 0}}
    <3>1. Fresh("Checking") = {x \in all : /\ ~(TRUE /\ x.piece = "Pawn" /\ IsPawnDropMate(P, x))
                                           /\ x.to \in CheckTargets(x.piece, P.side, king, P.occupied)}
      BY <1>2, <2>1 DEF DropMoves
    <3>2. Fresh("All") = {x \in all : /\ ~(TRUE /\ x.piece = "Pawn" /\ IsPawnDropMate(P, x))
                                      /\ ShouldKeep(P, x, "All", state.checkers # {})}
      BY <1>2, <2>1 DEF DropMoves
    <3> HIDE DEF all, state, info
    <3> QED BY <2>2, <3>1, <3>2
  <2> QED BY <2>3, <2>4, <2>5
<1>6. m \in Kings("All") => MovesKing(P, m) /\ ~m.drop
  BY <1>1, KingMovesAre DEF MovesKing
<1>7. ~many /\ (\E t \in Types \ {"King"} : m \in Men(t, "All")) => ~MovesKing(P, m) /\ ~m.drop
  <2>1. Cardinality(state.checkers) \in Nat
    <3>1. state.checkers \subseteq Squares
      <4>1. P.king[P.side] \in Squares => state.checkers \subseteq Squares
        BY <1>1, StateIs DEF Watchers
      <4>2. P.king[P.side] \notin Squares => state.checkers \subseteq Squares
        BY <1>1, StateIs
      <4> QED BY <4>1, <4>2
    <3> QED BY <3>1, OneElement
  <2>2. ~many => Cardinality(state.checkers) <= 1
    <3> HIDE DEF state
    <3> QED BY <2>1
  <2>3. ASSUME ~many, NEW t \in Types \ {"King"}, m \in Men(t, "All")
        PROVE  ~MovesKing(P, m) /\ m \in BoardMoves(P.board, P.side)
    <3>1. m \in UNION {PieceMoves(P, state, x, "All", info) : x \in Types \ {"King"}}
      BY <2>3
    <3> QED BY <1>1, <2>2, <2>3, <3>1, PieceMovesAre DEF Safe
  <2> HIDE DEF many, Men
  <2> QED BY <1>1, <2>3, RulesFit
<1>8. m \in Fresh("All") => m.drop
  <2> DEFINE all == UNION {{Drop(to, t) : to \in DropTargets(P, P.side, t) \cap state.mask} :
                             t \in {x \in HandTypes : P.hands[P.side][x] > 0}}
  <2>1. Fresh("All") \subseteq all
    BY <1>2 DEF DropMoves
  <2>2. \A x \in all : x.drop = TRUE
    BY DropFields
  <2> HIDE DEF all
  <2> QED BY <2>1, <2>2
<1> HIDE DEF state, info, Kings, Men, Fresh, many, king
<1>9. CASE king \in Squares
  <2>1. king # NoSquare
    BY <1>1, <1>9
  <2> DEFINE man == ~many /\ \E t \in Types \ {"King"} : m \in Men(t, "All")
  <2>2. m \in Kings("All") => (Finds(P, m, info) <=> Opens(m.from, m.to, info))
    BY <1>6 DEF Finds
  <2>3. man => (Finds(P, m, info) <=> PieceChecks(P, m, info))
    BY <1>7 DEF Finds
  <2>4. m \in Fresh("All") => (Finds(P, m, info) <=> m.to \in CheckTargets(m.piece, P.side, king, P.occupied))
    BY <1>2, <1>8 DEF Finds
  <2>5. m \in LegalMoves(P) <=> m \in Kings("All") \/ man \/ (~many /\ m \in Fresh("All"))
    BY <1>3
  <2>6. (~many /\ \E t \in Types \ {"King"} : m \in Men(t, "Checking")) <=> man /\ PieceChecks(P, m, info)
    BY <1>5, <1>9
  <2>7. m \in CheckingMoves(P) <=>
            \/ m \in Kings("All") /\ Opens(m.from, m.to, info)
            \/ man /\ PieceChecks(P, m, info)
            \/ ~many /\ m \in Fresh("All") /\ m.to \in CheckTargets(m.piece, P.side, king, P.occupied)
    BY <1>4, <1>5, <1>9, <2>1, <2>6
  <2> HIDE DEF man
  <2>8. m \in CheckingMoves(P) <=> m \in LegalMoves(P) /\ Finds(P, m, info)
    BY <2>2, <2>3, <2>4, <2>5, <2>7, Zenon
  <2> QED BY <1>9, <2>8 DEF info, king
<1>10. CASE king \notin Squares
  BY <1>1, <1>4, <1>10 DEF king
<1> QED BY <1>9, <1>10 DEF info, king

(* gives_check counts the attackers of the board after the move, kind by kind. *)
LEMMA AttackedAfter ==
    ASSUME NEW P, Exact(P), NEW m, WellFormed(P, m), NEW s \in Squares
    PROVE  AttackedAfterMove(P, s, P.side, m, Lands(P, m))
             <=> Attackers(After(P.board, m, P.side), s, P.side) # {}
<1> DEFINE by == P.side
           moved == Lands(P, m)
           next == After(P.board, m, P.side)
           occupied == (P.occupied \cup {m.to}) \ Lifted(m)
           Of(type) == (P.pieces[by][type] \ Lifted(m)) \cup (IF type = moved THEN {m.to} ELSE {})
<1>1. /\ m.to \in Squares /\ m.to \notin Lifted(m) /\ by \in Colors /\ moved \in Types
      /\ next[m.to] = Piece(by, moved)
      /\ \A x \in Lifted(m) : next[x] = NoPiece
      /\ \A x \in Squares : x # m.to /\ x \notin Lifted(m) => next[x] = P.board[x]
      /\ next \in Boards
  BY AfterIs DEF Lands
<1>2. Full(next) = occupied
  <2>1. Full(next) = (P.occupied \ Lifted(m)) \cup {m.to}
    BY AfterMove
  <2> HIDE DEF next
  <2> QED BY <1>1, <2>1
<1>3. P.board[m.to].color # by
  <2>1. m.drop => P.board[m.to] = NoPiece
    BY DEF WellFormed, Fits
  <2> QED BY <1>1, <2>1, PieceFacts DEF WellFormed, Fits
<1>4. P.pieces = PiecesOf(P.board)
  BY ExactIs
<1>5. AttackedAfterMove(P, s, by, m, moved) <=>
         \/ \E type \in Types : Of(type) \cap StepTo[by][type][s] # {}
         \/ (Of("Rook") \cup Of("Dragon")) \cap RookAttacks(s, occupied) # {}
         \/ (Of("Bishop") \cup Of("Horse")) \cap BishopAttacks(s, occupied) # {}
         \/ Of("Lance") \cap LanceAttacks(s, Opposite(by), occupied) # {}
  BY DEF AttackedAfterMove, Lifted
<1> HIDE DEF next, occupied, moved, by
<1>6. ASSUME NEW type \in Types, NEW f
      PROVE  f \in Of(type) <=> f \in Squares /\ next[f] = Piece(by, type)
  <2>1. P.pieces[by][type] = {x \in Squares : P.board[x] = Piece(by, type)}
    BY <1>1, <1>4 DEF PiecesOf
  <2>2. Piece(by, type).color = by /\ Piece(by, type).type = type /\ Piece(by, type) # NoPiece
    BY <1>1, PieceFacts
  <2>3. CASE f = m.to
    <3>1. f \notin P.pieces[by][type]
      BY <1>3, <2>1, <2>2, <2>3
    <3>2. next[f] = Piece(by, type) <=> type = moved
      BY <1>1, <2>2, <2>3, PieceFacts
    <3> QED BY <1>1, <2>3, <3>1, <3>2
  <2>4. CASE f # m.to
    BY <1>1, <2>1, <2>2, <2>4
  <2> QED BY <2>3, <2>4
<1> HIDE DEF Of
<1>7. {"Rook", "Dragon", "Bishop", "Horse", "Lance"} \subseteq Types
  BY DEF Types, HandTypes
<1>8. Opposite(by) \in Colors
  BY <1>1, OppositeFacts
<1>9. ASSUME NEW f \in Squares, NEW type \in Types
      PROVE  Sees(type, by, f, s) /\ Between[s][f] \cap occupied = {} <=>
               \/ f \in StepTo[by][type][s]
               \/ type \in {"Rook", "Dragon"} /\ f \in RookAttacks(s, occupied)
               \/ type \in {"Bishop", "Horse"} /\ f \in BishopAttacks(s, occupied)
               \/ type = "Lance" /\ f \in LanceAttacks(s, Opposite(by), occupied)
  <2>1. f \in StepTo[by][type][s] <=> s \in StepFrom[by][type][f]
    BY <1>1 DEF StepTo, StepFrom
  <2>2. s \in StepFrom[by][type][f] => Between[s][f] = {}
    BY <1>1, NoneBetweenStep, BetweenSymmetric
  <2>3. Slides(type, by, f, s) <=>
               \/ type = "Lance" /\ f \in LanceLines[Opposite(by)][s]
               \/ type \in {"Bishop", "Horse"} /\ f \in BishopLines[s]
               \/ type \in {"Rook", "Dragon"} /\ f \in RookLines[s]
    BY <1>1, SlidesBack
  <2>4. /\ f \in LanceAttacks(s, Opposite(by), occupied)
             <=> f \in LanceLines[Opposite(by)][s] /\ Between[s][f] \cap occupied = {}
        /\ f \in BishopAttacks(s, occupied) <=> f \in BishopLines[s] /\ Between[s][f] \cap occupied = {}
        /\ f \in RookAttacks(s, occupied) <=> f \in RookLines[s] /\ Between[s][f] \cap occupied = {}
    BY DEF LanceAttacks, BishopAttacks, RookAttacks, LineAttacks
  <2> QED BY <2>1, <2>2, <2>3, <2>4 DEF Sees
<1>10. ASSUME NEW f
       PROVE  f \in Attackers(next, s, by) <=>
                \E type \in Types : f \in Of(type) /\ Sees(type, by, f, s) /\ Between[s][f] \cap occupied = {}
  <2>1. f \in Attackers(next, s, by) <=>
          /\ f \in Squares /\ next[f].color = by
          /\ Sees(next[f].type, by, f, s) /\ Between[s][f] \cap occupied = {}
    BY <1>2 DEF Attackers
  <2>2. f \in Squares /\ next[f].color = by => next[f].type \in Types /\ next[f] = Piece(by, next[f].type)
    BY <1>1, PieceFacts DEF Boards
  <2>3. \A type \in Types : Piece(by, type).color = by /\ Piece(by, type).type = type
    BY <1>1, PieceFacts
  <2> QED BY <1>6, <2>1, <2>2, <2>3
<1>11. (\E f : f \in Attackers(next, s, by)) <=>
          \E type \in Types : \E f \in Of(type) :
               \/ f \in StepTo[by][type][s]
               \/ type \in {"Rook", "Dragon"} /\ f \in RookAttacks(s, occupied)
               \/ type \in {"Bishop", "Horse"} /\ f \in BishopAttacks(s, occupied)
               \/ type = "Lance" /\ f \in LanceAttacks(s, Opposite(by), occupied)
  BY <1>6, <1>9, <1>10
<1>12. AttackedAfterMove(P, s, by, m, moved) <=>
          \E type \in Types : \E f \in Of(type) :
               \/ f \in StepTo[by][type][s]
               \/ type \in {"Rook", "Dragon"} /\ f \in RookAttacks(s, occupied)
               \/ type \in {"Bishop", "Horse"} /\ f \in BishopAttacks(s, occupied)
               \/ type = "Lance" /\ f \in LanceAttacks(s, Opposite(by), occupied)
  BY <1>5, <1>7
<1> QED BY <1>11, <1>12 DEF by, moved, next

(* generate_moves lists, as checking moves, the legal moves after which the enemy
   king is in check, and gives_check tells them from the others. *)
THEOREM GeneratedChecksAreChecks ==
    ASSUME NEW P, Sound(P)
    PROVE  /\ CheckingMoves(P) = {m \in LegalMoves(P) :
                                     Checked(After(P.board, m, P.side), Opposite(P.side))}
           /\ \A m \in LegalMoves(P) :
                 GivesCheck(P, m) <=> Checked(After(P.board, m, P.side), Opposite(P.side))
<1> DEFINE enemy == Opposite(P.side)
           king == P.king[enemy]
           Checks(m) == Checked(After(P.board, m, P.side), enemy)
<1>1. Exact(P) /\ P.side \in Colors /\ enemy \in Colors /\ Opposite(enemy) = P.side
      /\ king \in Squares \cup {NoSquare} /\ NoSquare \notin Squares
  BY ExactIs, OppositeFacts, PieceFacts DEF Sound
<1>2. ASSUME NEW m \in LegalMoves(P)
      PROVE  WellFormed(P, m) /\ (m.drop => m.promote = FALSE)
  <2>1. m \in BoardMoves(P.board, P.side) \cup Drops(P.board, P.hands, P.side)
    BY GeneratedMovesAreLawful DEF LawfulMoves, Safe
  <2> QED BY <1>1, <2>1, RulesFit, DropsAre, DropFields
<1>3. ASSUME NEW m \in LegalMoves(P)
      PROVE  Checks(m) <=> king \in Squares /\ AttackedAfterMove(P, king, P.side, m, Lands(P, m))
  <2>1. WellFormed(P, m)
    BY <1>2
  <2>2. Checks(m) <=> king \in Squares /\ (Strikes(P, m, king) \/ Uncovers(P, m, king))
    BY <1>1, <2>1, GivesCheckIs
  <2>3. king \in Squares => (Attackers(After(P.board, m, P.side), king, P.side) # {}
                               <=> Strikes(P, m, king) \/ Uncovers(P, m, king))
    BY <1>1, <2>1, AttackersAfter
  <2>4. king \in Squares => (AttackedAfterMove(P, king, P.side, m, Lands(P, m))
                               <=> Attackers(After(P.board, m, P.side), king, P.side) # {})
    BY <1>1, <2>1, AttackedAfter
  <2> QED BY <2>2, <2>3, <2>4
<1>4. ASSUME NEW m \in LegalMoves(P)
      PROVE  GivesCheck(P, m) <=> king # NoSquare /\ AttackedAfterMove(P, king, P.side, m, Lands(P, m))
  <2>1. m.drop => m.promote = FALSE
    BY <1>2
  <2>2. (IF m.drop THEN m.piece
         ELSE IF m.promote THEN Promote(P.board[m.from].type) ELSE P.board[m.from].type) = Lands(P, m)
    BY <2>1 DEF Lands
  <2> QED BY <2>2 DEF GivesCheck
<1>5. \A m \in LegalMoves(P) : GivesCheck(P, m) <=> Checks(m)
  BY <1>1, <1>3, <1>4
<1>6. ASSUME NEW m
      PROVE  m \in CheckingMoves(P) <=> m \in LegalMoves(P) /\ Checks(m)
  <2>1. m \in CheckingMoves(P) <=> king \in Squares /\ m \in LegalMoves(P) /\ Finds(P, m, CheckInfo(P, P.side))
    BY CheckingMovesAre
  <2>2. king \in Squares /\ m \in LegalMoves(P) => (Finds(P, m, CheckInfo(P, P.side)) <=> Checks(m))
    BY FindsAre
  <2>3. m \in LegalMoves(P) /\ Checks(m) => king \in Squares
    BY <1>3
  <2> HIDE DEF king, Checks
  <2> QED BY <2>1, <2>2, <2>3
<1>7. CheckingMoves(P) = {m \in LegalMoves(P) : Checks(m)}
  <2> HIDE DEF Checks
  <2> QED BY <1>6
<1> QED BY <1>5, <1>7

-----------------------------------------------------------------------------
(* Part 3.  Games. *)

(* The folds of the model: sums over sets, and the texts that are read. *)
AddTo(sum, n) == n + sum
AddTwo(P, piece) == AddHandPiece(P, piece[1], piece[2])

Sums == INSTANCE FoldTheorems WITH Step <- AddTo
BoardTexts == INSTANCE FoldTheorems WITH Step <- ReadBoard
HandTexts == INSTANCE FoldTheorems WITH Step <- ReadHand
Gifts == INSTANCE FoldTheorems WITH Step <- AddTwo

(* The library's finite sets are those of the instances. *)
LEMMA FiniteInSums ==
    ASSUME NEW S, IsFiniteSet(S)
    PROVE  Sums!IsFiniteSet(S)
BY DEF IsFiniteSet, Sums!IsFiniteSet

LEMMA SubsetInduction ==
    ASSUME NEW S, IsFiniteSet(S), NEW A, {} \in A,
           \A s \in SUBSET S : s # {} /\ (\A x \in s : s \ {x} \in A) => s \in A
    PROVE  SUBSET S \subseteq A
BY FiniteInSums, Sums!SubsetInduction

(* A sum over a set takes its members one after another. *)
IsSum(g, S, fun) ==
    g = [s \in SUBSET S |-> IF s = {} THEN 0
                            ELSE fun[CHOOSE x \in s : TRUE] + g[s \ {CHOOSE x \in s : TRUE}]]

LEMMA SumExists ==
    ASSUME NEW S, IsFiniteSet(S), NEW fun
    PROVE  \E g : IsSum(g, S, fun)
<1> DEFINE choice == [s \in SUBSET S |-> CHOOSE x \in s : TRUE]
<1>1. \A s \in SUBSET S : s # {} => choice[s] \in s
  OBVIOUS
<1>2. \A s \in SUBSET S : choice[s] = CHOOSE x \in s : TRUE
  OBVIOUS
<1> HIDE DEF choice
<1>4. PICK g : Sums!IsFold(g, S, 0, choice, fun)
  BY <1>1, FiniteInSums, Sums!FoldExists
<1>5. ASSUME NEW s \in SUBSET S
      PROVE  AddTo(g[s \ {choice[s]}], fun[choice[s]])
             = fun[CHOOSE x \in s : TRUE] + g[s \ {CHOOSE x \in s : TRUE}]
  BY <1>2 DEF AddTo
<1>6. IsSum(g, S, fun)
  BY <1>4, <1>5 DEF Sums!IsFold, IsSum
<1> QED BY <1>6

LEMMA SumIs ==
    ASSUME NEW S, IsFiniteSet(S), NEW fun
    PROVE  \E g : IsSum(g, S, fun) /\ SumFunctionOnSet(fun, S) = g[S]
<1> DEFINE it == CHOOSE g : IsSum(g, S, fun)
<1>1. IsSum(it, S, fun)
  BY SumExists
<1>2. SumFunctionOnSet(fun, S) = it[S]
  BY DEF SumFunctionOnSet, FoldFunctionOnSet, MapThenFoldSet, IsSum
<1> HIDE DEF it
<1> QED BY <1>1, <1>2

(* One function holds the sums of all subsets of a set. *)
LEMMA SumsAgree ==
    ASSUME NEW S, IsFiniteSet(S), NEW T \in SUBSET S, NEW fun, NEW g, NEW h,
           IsSum(g, S, fun), IsSum(h, T, fun)
    PROVE  \A s \in SUBSET T : g[s] = h[s]
<1> DEFINE A == {s \in SUBSET T : g[s] = h[s]}
<1>1. {} \in A
  BY DEF IsSum
<1>2. ASSUME NEW s \in SUBSET T, s # {}, \A x \in s : s \ {x} \in A PROVE s \in A
  <2>1. PICK c : c = CHOOSE x \in s : TRUE
    OBVIOUS
  <2>2. c \in s
    BY <1>2, <2>1
  <2>3. g[s] = fun[c] + g[s \ {c}] /\ h[s] = fun[c] + h[s \ {c}]
    BY <1>2, <2>1 DEF IsSum
  <2> QED BY <1>2, <2>2, <2>3
<1> HIDE DEF A
<1>3. SUBSET T \subseteq A
  BY <1>1, <1>2, SubsetInduction, FS_Subset
<1> QED BY <1>3 DEF A

LEMMA SumOfAll ==
    ASSUME NEW S, IsFiniteSet(S), NEW fun
    PROVE  \E g : IsSum(g, S, fun) /\ \A T \in SUBSET S : SumFunctionOnSet(fun, T) = g[T]
<1>1. PICK g : IsSum(g, S, fun)
  BY SumExists
<1>2. ASSUME NEW T \in SUBSET S PROVE SumFunctionOnSet(fun, T) = g[T]
  <2>1. IsFiniteSet(T)
    BY FS_Subset
  <2>2. PICK h : IsSum(h, T, fun) /\ SumFunctionOnSet(fun, T) = h[T]
    BY <2>1, SumIs
  <2> QED BY <1>1, <2>2, SumsAgree
<1> QED BY <1>1, <1>2

(* A sum of counts is a count, and grows with the set. *)
LEMMA SumsGrow ==
    ASSUME NEW S, IsFiniteSet(S), NEW fun, \A x \in S : fun[x] \in Nat
    PROVE  /\ \A T \in SUBSET S : SumFunctionOnSet(fun, T) \in Nat
           /\ \A T \in SUBSET S : \A U \in SUBSET T : SumFunctionOnSet(fun, U) <= SumFunctionOnSet(fun, T)
<1>1. PICK g : IsSum(g, S, fun) /\ \A T \in SUBSET S : SumFunctionOnSet(fun, T) = g[T]
  BY SumOfAll
<1>2. /\ g[{}] = 0
      /\ \A T \in SUBSET S : T # {} => \E c \in T : g[T] = fun[c] + g[T \ {c}]
  <2>1. g[{}] = 0
    BY <1>1 DEF IsSum
  <2>2. ASSUME NEW T \in SUBSET S, T # {} PROVE \E c \in T : g[T] = fun[c] + g[T \ {c}]
    <3>1. PICK c : c = CHOOSE x \in T : TRUE
      OBVIOUS
    <3> QED BY <1>1, <2>2, <3>1 DEF IsSum
  <2> QED BY <2>1, <2>2
<1> DEFINE A == {T \in SUBSET S : g[T] \in Nat}
<1>3. {} \in A
  BY <1>2
<1>4. ASSUME NEW T \in SUBSET S, T # {}, \A x \in T : T \ {x} \in A PROVE T \in A
  <2>1. PICK c \in T : g[T] = fun[c] + g[T \ {c}]
    BY <1>2, <1>4
  <2> QED BY <1>4, <2>1
<1> HIDE DEF A
<1>5. SUBSET S \subseteq A
  BY <1>3, <1>4, SubsetInduction
<1>6. \A T \in SUBSET S : g[T] \in Nat
  BY <1>5 DEF A
<1> HIDE DEF A
<1> DEFINE B == {T \in SUBSET S : \A x \in T : g[T] = fun[x] + g[T \ {x}]}
<1>7. {} \in B
  OBVIOUS
<1>8. ASSUME NEW T \in SUBSET S, T # {}, \A x \in T : T \ {x} \in B PROVE T \in B
  <2>1. PICK c \in T : g[T] = fun[c] + g[T \ {c}]
    BY <1>2, <1>8
  <2>2. ASSUME NEW x \in T, x # c PROVE g[T] = fun[x] + g[T \ {x}]
    <3>1. T \ {c} \in B /\ T \ {x} \in B /\ x \in T \ {c} /\ c \in T \ {x}
      BY <1>8, <2>2
    <3>2. g[T \ {c}] = fun[x] + g[(T \ {c}) \ {x}] /\ g[T \ {x}] = fun[c] + g[(T \ {x}) \ {c}]
      BY <3>1
    <3>3. (T \ {c}) \ {x} = (T \ {x}) \ {c}
      OBVIOUS
    <3>4. fun[c] \in Nat /\ fun[x] \in Nat /\ g[(T \ {c}) \ {x}] \in Nat
      BY <1>6
    <3>5. g[(T \ {x}) \ {c}] = g[(T \ {c}) \ {x}]
      BY <3>3
    <3> HIDE <3>3
    <3>6. g[T \ {x}] = fun[c] + g[(T \ {c}) \ {x}]
      BY <3>2, <3>5
    <3>7. \A a, b, k \in Nat : a + (b + k) = b + (a + k)
      OBVIOUS
    <3> QED BY <2>1, <3>2, <3>4, <3>6, <3>7
  <2> QED BY <2>1, <2>2
<1> HIDE DEF B
<1>9. SUBSET S \subseteq B
  BY <1>7, <1>8, SubsetInduction
<1>10. ASSUME NEW T \in SUBSET S PROVE \A U \in SUBSET T : g[U] <= g[T]
  <2> DEFINE C == {V \in SUBSET T : g[T \ V] <= g[T]}
  <2>1. {} \in C
    <3>1. T \ {} = T
      OBVIOUS
    <3> QED BY <1>6, <3>1
  <2>2. ASSUME NEW V \in SUBSET T, V # {}, \A x \in V : V \ {x} \in C PROVE V \in C
    <3>1. PICK x : x \in V
      BY <2>2
    <3>2. g[T \ (V \ {x})] <= g[T]
      BY <2>2, <3>1
    <3>3. x \in T \ (V \ {x}) /\ (T \ (V \ {x})) \ {x} = T \ V
      BY <3>1
    <3>4. g[T \ (V \ {x})] = fun[x] + g[T \ V]
      BY <1>9, <3>3 DEF B
    <3>5. fun[x] \in Nat /\ g[T \ V] \in Nat /\ g[T] \in Nat
      BY <1>6, <3>1
    <3> QED BY <3>2, <3>4, <3>5
  <2> HIDE DEF C
  <2>3. SUBSET T \subseteq C
    BY <2>1, <2>2, SubsetInduction, FS_Subset
  <2>4. ASSUME NEW U \in SUBSET T PROVE g[U] <= g[T]
    <3>1. T \ (T \ U) = U /\ T \ U \in SUBSET T
      OBVIOUS
    <3> QED BY <2>3, <3>1 DEF C
  <2> QED BY <2>4
<1>11. \A T \in SUBSET S : SumFunctionOnSet(fun, T) \in Nat
  BY <1>1, <1>6
<1>12. ASSUME NEW T \in SUBSET S, NEW U \in SUBSET T PROVE SumFunctionOnSet(fun, U) <= SumFunctionOnSet(fun, T)
  <2>1. U \in SUBSET S
    OBVIOUS
  <2> QED BY <1>1, <1>10, <2>1
<1> QED BY <1>11, <1>12

-----------------------------------------------------------------------------
(* A text is read from its first character to its last. *)
LEMMA BoardRun ==
    ASSUME NEW seq, NEW n \in Nat, DOMAIN seq = 1 .. n, NEW base
    PROVE  \E r : BoardTexts!IsRun(r, n, base, seq) /\ r[n] = FoldLeft(ReadBoard, base, seq)
<1>1. FoldLeft(ReadBoard, base, seq) = BoardTexts!Fold(base, seq)
  BY DEF BoardTexts!Fold, BoardTexts!Greatest, FoldLeft, MapThenFoldSet, Max
<1> QED BY <1>1, BoardTexts!FoldRuns

LEMMA HandRun ==
    ASSUME NEW seq, NEW n \in Nat, DOMAIN seq = 1 .. n, NEW base
    PROVE  \E r : HandTexts!IsRun(r, n, base, seq) /\ r[n] = FoldLeft(ReadHand, base, seq)
<1>1. FoldLeft(ReadHand, base, seq) = HandTexts!Fold(base, seq)
  BY DEF HandTexts!Fold, HandTexts!Greatest, FoldLeft, MapThenFoldSet, Max
<1> QED BY <1>1, HandTexts!FoldRuns

LEMMA GiveRun ==
    ASSUME NEW P, NEW c, NEW t, NEW n \in Nat
    PROVE  \E r : Gifts!IsRun(r, n, P, [i \in 1 .. n |-> <<c, t>>]) /\ r[n] = Give(P, c, t, n)
<1> DEFINE of == [i \in 1 .. n |-> <<c, t>>]
           seq == [i \in 1 .. n |-> i]
           IsIt(g) == g = [s \in SUBSET DOMAIN seq |-> IF s = {} THEN P
                                                   ELSE AddHandPiece(g[s \ {Max(s)}], c, t)]
           it == CHOOSE g : IsIt(g)
<1>1. \A s \in SUBSET (1 .. n) : s # {} => of[Gifts!Greatest(s)] = <<c, t>>
  BY Gifts!LargestElement
<1>2. ASSUME NEW g PROVE Gifts!IsLeftFold(g, n, P, of) <=> IsIt(g)
  <2>1. \A s \in SUBSET (1 .. n) : s # {} =>
            AddTwo(g[s \ {Gifts!Greatest(s)}], of[Gifts!Greatest(s)])
            = AddHandPiece(g[s \ {Gifts!Greatest(s)}], c, t)
    <3>1. \A R : AddTwo(R, <<c, t>>) = AddHandPiece(R, c, t)
      BY DEF AddTwo
    <3> HIDE DEF of
    <3> QED BY <1>1, <3>1
  <2>2. \A s : Gifts!Greatest(s) = Max(s)
    BY DEF Gifts!Greatest, Max
  <2>3. DOMAIN seq = 1 .. n
    OBVIOUS
  <2> HIDE DEF of, seq
  <2> QED BY <2>1, <2>2, <2>3 DEF Gifts!IsLeftFold
<1>3. Give(P, c, t, n) = it[DOMAIN seq]
  BY DEF Give, FoldLeft, MapThenFoldSet
<1>4. DOMAIN seq = 1 .. n
  OBVIOUS
<1> HIDE DEF IsIt, of
<1>5. Gifts!IsLeftFold(it, n, P, of)
  BY <1>2, Gifts!LeftFoldExists
<1> HIDE DEF it, seq
<1>6. PICK r : Gifts!IsRun(r, n, P, of) /\ r[n] = it[1 .. n]
  BY <1>5, Gifts!LeftFoldRuns
<1> QED BY <1>3, <1>4, <1>6 DEF of

-----------------------------------------------------------------------------
(* What set_sfen reads. *)
ReaderFields == {"P", "ok", "row", "col", "promoted", "count", "totals"}
Reader(r) == r = [f \in ReaderFields |-> r[f]]
Upright(P) == Shape(P) /\ Exact(P)

(* While the board is read: the squares to come are empty. *)
Reads(r) ==
    /\ Reader(r) /\ Upright(r.P)
    /\ r.row \in 0 .. (Rows - 1) /\ r.col \in 0 .. Cols /\ r.promoted \in BOOLEAN /\ r.count = 0
    /\ \A s \in Squares : s >= r.row * Cols + r.col => r.P.board[s] = NoPiece

LEMMA EmptyIsUpright == Upright(EmptyPosition)
<1> DEFINE P == EmptyPosition
<1>1. Shape(P)
  BY DEF Shape, Fields, EmptyPosition
<1>2. /\ P.board = [s \in Squares |-> NoPiece]
      /\ P.hands = [color \in Colors |-> [type \in HandTypes |-> 0]]
      /\ P.pieces = [color \in Colors |-> [type \in Types |-> {}]]
      /\ P.own = [color \in Colors |-> {}]
      /\ P.occupied = {} /\ P.king = [color \in Colors |-> NoSquare]
      /\ P.side = "black" /\ P.ply = 0 /\ P.key = {}
  BY DEF EmptyPosition
<1> HIDE DEF P
<1>3. P.board \in Boards /\ P.hands \in Hands
  BY <1>2 DEF Boards, Hands
<1>4. \A s \in Squares, c \in Colors, t \in Types : P.board[s] # Piece(c, t) /\ P.board[s].color # c
  BY <1>2, PieceFacts
<1>5. P.pieces = PiecesOf(P.board)
  <2>1. \A c \in Colors, t \in Types : {s \in Squares : P.board[s] = Piece(c, t)} = {}
    BY <1>4
  <2> QED BY <1>2, <2>1 DEF PiecesOf
<1>6. P.own = OwnOf(P.board)
  <2>1. \A c \in Colors : {s \in Squares : P.board[s].color = c} = {}
    BY <1>2, PieceFacts
  <2> QED BY <1>2, <2>1 DEF OwnOf
<1>7. P.occupied = {s \in Squares : P.board[s] # NoPiece}
  BY <1>2
<1>8. KingsAgree(P.board, P.king)
  <2>1. "King" \in Types
    BY PieceFacts
  <2>2. \A c \in Colors, s \in Squares : P.king[c] # s
    BY <1>2, PieceFacts
  <2> QED BY <1>4, <2>1, <2>2 DEF KingsAgree
<1>9. P.key = BoardKey(P.board) \cup HandKey(P.hands) \cup SideKey(P.side)
  <2>1. BoardKey(P.board) = {}
    BY <1>2 DEF BoardKey
  <2>2. HandKey(P.hands) = {}
    <3>1. \A h \in Colors \X HandTypes : 0 .. (P.hands[h[1]][h[2]] - 1) = {}
      BY <1>2
    <3> QED BY <3>1 DEF HandKey
  <2>3. SideKey(P.side) = {}
    BY <1>2 DEF SideKey
  <2> QED BY <1>2, <2>1, <2>2, <2>3
<1>10. Exact(P)
  <2>1. P.king \in [Colors -> Squares \cup {NoSquare}] /\ P.side \in Colors /\ P.ply \in Int
    BY <1>2 DEF Colors
  <2> QED BY <1>3, <1>5, <1>6, <1>7, <1>8, <1>9, <2>1, ExactIs
<1> QED BY <1>1, <1>10 DEF Upright, P

LEMMA LetterTypes ==
    /\ \A t \in Bases : t \in Types /\ Promote(t) \in Types
    /\ \A t \in Bases : CanPromote(t) => Promote(t) # "King"
    /\ ~CanPromote("King")
BY DEF Bases, HandTypes, Types, Golds, Promote, CanPromote, PromotedForm

(* A letter puts its piece on the square that is next. *)
LEMMA LetterReads ==
    ASSUME NEW r, Reads(r), NEW c \in Colors, NEW t \in Bases
    PROVE  Reads(ReadLetter(r, Letter(c, t)))
<1> DEFINE ch == Letter(c, t)
           type == IF r.promoted THEN Promote(t) ELSE t
           at == r.row * Cols + r.col
           q == [Counted(r, t, 1) EXCEPT !.P = AddPiece(@, at, c, type), !.col = @ + 1, !.promoted = FALSE]
           refuse == \/ r.col >= Cols \/ r.row >= Rows
                     \/ TooMany(r, t, 1)
                     \/ r.promoted /\ ~CanPromote(t)
                     \/ t = "King" /\ r.P.king[c] # NoSquare
<1>1. ReadLetter(r, ch) = IF refuse THEN Refused(r) ELSE q
  BY DEF ReadLetter, Letter, Character, Piece
<1>2. CASE refuse
  <2>1. Reads(Refused(r))
    BY DEF Reads, Refused, Reader, ReaderFields
  <2> QED BY <1>1, <1>2, <2>1
<1>3. CASE ~refuse
  <2>1. at \in Squares /\ r.P.board[at] = NoPiece /\ at \in Nat
    <3>1. Cols \in Nat /\ Rows \in Nat /\ r.row \in Nat /\ r.col \in Nat /\ r.row <= Rows - 1 /\ r.col < Cols
      BY <1>3, BoardAssumption DEF Reads
    <3>2. r.row * Cols + r.col \in Nat /\ r.row * Cols + r.col < (r.row + 1) * Cols
      BY <3>1
    <3>3. (r.row + 1) * Cols <= Rows * Cols
      BY <3>1
    <3>4. Rows * Cols \in Nat /\ (r.row + 1) * Cols \in Nat
      BY <3>1
    <3>5. at \in Squares
      BY <3>2, <3>3, <3>4 DEF Squares
    <3> QED BY <3>2, <3>5 DEF Reads
  <2>2. type \in Types /\ (type = "King" => r.P.king[c] = NoSquare)
    BY <1>3, LetterTypes DEF Reads
  <2> DEFINE Q == AddPiece(r.P, at, c, type)
  <2>3. Upright(Q)
    BY <2>1, <2>2, AddPieceExact DEF Upright, Reads
  <2>4. Q.board = [r.P.board EXCEPT ![at] = Piece(c, type)]
    <3>1. PieceAdded(r.P, Q, at, c, type)
      BY AddPieceFields DEF Upright, Reads
    <3> QED BY <3>1 DEF PieceAdded
  <2> HIDE DEF Q, at, type, refuse
  <2>5. /\ Reader(q) /\ q.P = Q /\ q.row = r.row /\ q.col = r.col + 1 /\ q.promoted = FALSE /\ q.count = r.count
    BY DEF Reads, Counted, Reader, ReaderFields, Q
  <2> HIDE DEF q
  <2>6. ASSUME NEW s \in Squares, s >= q.row * Cols + q.col PROVE q.P.board[s] = NoPiece
    <3>1. Cols \in Nat /\ r.row \in Nat /\ r.col \in Nat /\ s \in Int
      BY BoardAssumption DEF Reads, Squares
    <3>2. r.row * Cols \in Nat
      BY <3>1
    <3>3. s >= r.row * Cols + r.col /\ s # at
      BY <2>5, <2>6, <3>1, <3>2 DEF at
    <3>4. r.P.board[s] = NoPiece
      BY <3>3 DEF Reads
    <3>5. r.P.board \in Boards
      BY ExactIs DEF Reads, Upright
    <3> QED BY <2>4, <2>5, <3>3, <3>4, <3>5 DEF Boards
  <2>7. q.col \in 0 .. Cols
    BY <1>3, <2>5, BoardAssumption DEF Reads, refuse
  <2>8. Reads(q)
    BY <2>3, <2>5, <2>6, <2>7 DEF Reads
  <2> QED BY <1>1, <1>3, <2>8
<1> QED BY <1>2, <1>3

(* Every character leaves a position that is exact, and the squares to come empty. *)
LEMMA BoardReads ==
    ASSUME NEW r, Reads(r), NEW ch \in Characters
    PROVE  Reads(ReadBoard(r, ch))
<1>0. /\ Rows \in Nat /\ Cols \in Nat /\ Cols > 0 /\ r.row \in 0 .. (Rows - 1) /\ r.col \in 0 .. Cols
      /\ Reader(r) /\ r.ok = r.ok
  BY BoardAssumption DEF Reads
<1>1. CASE ~r.ok
  BY <1>1 DEF ReadBoard
<1>2. Reads(Refused(r))
  BY DEF Reads, Refused, Reader, ReaderFields
<1>3. CASE r.ok /\ ch = Slash
  <2> DEFINE q == [r EXCEPT !.row = @ + 1, !.col = 0]
  <2>1. ReadBoard(r, ch) = IF r.col # Cols \/ r.promoted \/ r.row >= Rows - 1 THEN Refused(r) ELSE q
    BY <1>3 DEF ReadBoard, Slash, Character
  <2>2. ASSUME r.col = Cols, r.row < Rows - 1 PROVE Reads(q)
    <3>1. Reader(q) /\ q.P = r.P /\ q.row = r.row + 1 /\ q.col = 0 /\ q.promoted = r.promoted /\ q.count = r.count
      BY <1>0 DEF Reader, ReaderFields
    <3> HIDE DEF q
    <3>2. q.row * Cols + q.col = r.row * Cols + r.col
      BY <1>0, <2>2, <3>1
    <3>3. q.row \in 0 .. (Rows - 1) /\ q.col \in 0 .. Cols
      BY <1>0, <2>2, <3>1
    <3> QED BY <3>1, <3>2, <3>3 DEF Reads
  <2> HIDE DEF q
  <2> QED BY <1>0, <1>2, <2>1, <2>2
<1>4. CASE r.ok /\ ch = Plus
  <2> DEFINE q == [r EXCEPT !.promoted = TRUE]
  <2>1. ReadBoard(r, ch) = IF r.promoted THEN Refused(r) ELSE q
    BY <1>4 DEF ReadBoard, Plus, Character
  <2>2. Reads(q)
    BY <1>0 DEF Reads, Reader, ReaderFields
  <2> QED BY <1>2, <2>1, <2>2
<1>5. CASE r.ok /\ \E n \in 0 .. 9 : ch = Digit(n)
  <2>1. PICK n \in 0 .. 9 : ch = Digit(n)
    BY <1>5
  <2> DEFINE q == [r EXCEPT !.col = @ + n]
  <2>2. ReadBoard(r, ch) = IF r.promoted \/ n = 0 \/ r.col + n > Cols THEN Refused(r) ELSE q
    BY <1>5, <2>1 DEF ReadBoard, Digit, Character
  <2>3. ASSUME r.col + n <= Cols PROVE Reads(q)
    <3>1. Reader(q) /\ q.P = r.P /\ q.row = r.row /\ q.col = r.col + n /\ q.promoted = r.promoted /\ q.count = r.count
      BY <1>0 DEF Reader, ReaderFields
    <3> HIDE DEF q
    <3>2. r.row * Cols \in Nat
      BY <1>0
    <3>3. q.col \in 0 .. Cols
      BY <1>0, <2>3, <3>1
    <3>4. \A s \in Squares : s >= q.row * Cols + q.col => s >= r.row * Cols + r.col
      BY <1>0, <3>1, <3>2 DEF Squares
    <3> QED BY <3>1, <3>3, <3>4 DEF Reads
  <2> HIDE DEF q
  <2> QED BY <1>0, <1>2, <2>2, <2>3
<1>6. CASE r.ok /\ \E c \in Colors, t \in Bases : ch = Letter(c, t)
  <2>1. PICK c \in Colors, t \in Bases : ch = Letter(c, t)
    BY <1>6
  <2>2. ReadBoard(r, ch) = ReadLetter(r, ch)
    BY <1>6, <2>1 DEF ReadBoard, Letter, Character
  <2> QED BY <2>1, <2>2, LetterReads
<1>7. ch = Slash \/ ch = Plus \/ (\E n \in 0 .. 9 : ch = Digit(n))
      \/ \E c \in Colors, t \in Bases : ch = Letter(c, t)
  BY DEF Characters
<1> QED BY <1>1, <1>3, <1>4, <1>5, <1>6, <1>7

(* Whatever is given to a hand. *)
LEMMA GiveIsUpright ==
    ASSUME NEW P, Upright(P), NEW c \in Colors, NEW t \in HandTypes, NEW n \in Nat
    PROVE  Upright(Give(P, c, t, n))
<1> DEFINE of == [i \in 1 .. n |-> <<c, t>>]
<1>1. PICK r : Gifts!IsRun(r, n, P, of) /\ r[n] = Give(P, c, t, n)
  BY GiveRun
<1>2. \A i \in 1 .. n : \A R : AddTwo(R, of[i]) = AddHandPiece(R, c, t)
  <2>1. \A i \in 1 .. n : of[i] = <<c, t>>
    OBVIOUS
  <2> HIDE DEF of
  <2> QED BY <2>1 DEF AddTwo
<1> HIDE DEF of
<1> DEFINE A == {i \in Nat : i <= n => Upright(r[i])}
<1>3. 0 \in A
  BY <1>1 DEF Gifts!IsRun
<1>4. ASSUME NEW i \in Nat, i \in A PROVE i + 1 \in A
  <2> SUFFICES ASSUME i + 1 <= n PROVE Upright(r[i + 1])
    OBVIOUS
  <2>1. i + 1 \in 1 .. n /\ (i + 1) - 1 = i
    OBVIOUS
  <2>2. r[i + 1] = AddHandPiece(r[i], c, t)
    BY <1>1, <1>2, <2>1 DEF Gifts!IsRun
  <2>3. Upright(r[i])
    BY <1>4
  <2> QED BY <2>2, <2>3, AddHandExact DEF Upright
<1> HIDE DEF A
<1>5. Nat \subseteq A
  BY <1>3, <1>4, Sums!Induction
<1>6. Upright(r[n])
  BY <1>5 DEF A
<1> QED BY <1>1, <1>6

(* While the hands are read. *)
Holds(r) == Reader(r) /\ Upright(r.P) /\ r.count \in Nat

LEMMA HandReads ==
    ASSUME NEW r, Holds(r), NEW ch \in Characters
    PROVE  Holds(ReadHand(r, ch))
<1>1. Holds(Refused(r))
  BY DEF Holds, Refused, Reader, ReaderFields
<1>2. CASE ch = Slash \/ ch = Plus
  BY <1>1, <1>2 DEF ReadHand, Slash, Plus, Character
<1>3. CASE \E n \in 0 .. 9 : ch = Digit(n)
  <2>1. PICK n \in 0 .. 9 : ch = Digit(n)
    BY <1>3
  <2> DEFINE q == [r EXCEPT !.count = @ * 10 + n]
  <2>2. ReadHand(r, ch) \in {r, Refused(r), q}
    BY <2>1 DEF ReadHand, Digit, Character
  <2>3. Reader(q) /\ q.P = r.P /\ q.count = r.count * 10 + n
    BY DEF Holds, Reader, ReaderFields
  <2> HIDE DEF q
  <2>4. q.count \in Nat
    BY <2>3 DEF Holds
  <2>5. Holds(q)
    BY <2>3, <2>4 DEF Holds
  <2> QED BY <1>1, <2>2, <2>5
<1>4. CASE \E c \in Colors, t \in Bases : ch = Letter(c, t)
  <2>1. PICK c \in Colors, t \in Bases : ch = Letter(c, t)
    BY <1>4
  <2> DEFINE n == IF r.count > 1 THEN r.count ELSE 1
             q == [Counted(r, t, n) EXCEPT !.P = Give(@, c, t, n), !.count = 0]
  <2>2. n \in Nat
    BY DEF Holds
  <2>3. ReadHand(r, ch) \in {r, Refused(r)} \/ (ReadHand(r, ch) = q /\ t # "King")
    BY <2>1 DEF ReadHand, Letter, Character, Piece
  <2> HIDE DEF n
  <2>4. Reader(q) /\ q.P = Give(r.P, c, t, n) /\ q.count = 0
    BY DEF Holds, Counted, Reader, ReaderFields
  <2> HIDE DEF q
  <2>5. ASSUME t # "King" PROVE Holds(q)
    <3>1. Upright(Give(r.P, c, t, n))
      BY <2>2, <2>5, GiveIsUpright DEF Holds, Bases
    <3> QED BY <2>4, <3>1 DEF Holds
  <2> QED BY <1>1, <2>3, <2>5
<1>5. ch = Slash \/ ch = Plus \/ (\E n \in 0 .. 9 : ch = Digit(n))
      \/ \E c \in Colors, t \in Bases : ch = Letter(c, t)
  BY DEF Characters
<1> QED BY <1>2, <1>3, <1>4, <1>5

LEMMA BoardIsRead ==
    ASSUME NEW text, text \in Seq(Characters), NEW start, Reads(start)
    PROVE  Reads(FoldLeft(ReadBoard, start, text))
<1> DEFINE n == Len(text)
<1>1. n \in Nat /\ DOMAIN text = 1 .. n /\ \A i \in 1 .. n : text[i] \in Characters
  OBVIOUS
<1>2. PICK r : BoardTexts!IsRun(r, n, start, text) /\ r[n] = FoldLeft(ReadBoard, start, text)
  BY <1>1, BoardRun
<1> HIDE DEF n
<1> DEFINE A == {i \in Nat : i <= n => Reads(r[i])}
<1>4. 0 \in A
  BY <1>2 DEF BoardTexts!IsRun
<1>5. ASSUME NEW i \in Nat, i \in A PROVE i + 1 \in A
  <2> SUFFICES ASSUME i + 1 <= n PROVE Reads(r[i + 1])
    OBVIOUS
  <2>1. i + 1 \in 1 .. n /\ (i + 1) - 1 = i
    BY <1>1
  <2>2. r[i + 1] = ReadBoard(r[i], text[i + 1])
    BY <1>2, <2>1 DEF BoardTexts!IsRun
  <2>3. Reads(r[i])
    BY <1>1, <1>5
  <2> QED BY <1>1, <2>1, <2>2, <2>3, BoardReads
<1> HIDE DEF A
<1>6. Nat \subseteq A
  BY <1>4, <1>5, Sums!Induction
<1>7. Reads(r[n])
  BY <1>1, <1>6 DEF A
<1> QED BY <1>2, <1>7

LEMMA HandsAreRead ==
    ASSUME NEW text, text \in Seq(Characters), NEW start, Holds(start)
    PROVE  Holds(FoldLeft(ReadHand, start, text))
<1> DEFINE n == Len(text)
<1>1. n \in Nat /\ DOMAIN text = 1 .. n /\ \A i \in 1 .. n : text[i] \in Characters
  OBVIOUS
<1>2. PICK r : HandTexts!IsRun(r, n, start, text) /\ r[n] = FoldLeft(ReadHand, start, text)
  BY <1>1, HandRun
<1> HIDE DEF n
<1> DEFINE A == {i \in Nat : i <= n => Holds(r[i])}
<1>4. 0 \in A
  BY <1>2 DEF HandTexts!IsRun
<1>5. ASSUME NEW i \in Nat, i \in A PROVE i + 1 \in A
  <2> SUFFICES ASSUME i + 1 <= n PROVE Holds(r[i + 1])
    OBVIOUS
  <2>1. i + 1 \in 1 .. n /\ (i + 1) - 1 = i
    BY <1>1
  <2>2. r[i + 1] = ReadHand(r[i], text[i + 1])
    BY <1>2, <2>1 DEF HandTexts!IsRun
  <2>3. Holds(r[i])
    BY <1>1, <1>5
  <2> QED BY <1>1, <2>1, <2>2, <2>3, HandReads
<1> HIDE DEF A
<1>6. Nat \subseteq A
  BY <1>4, <1>5, Sums!Induction
<1>7. Holds(r[n])
  BY <1>1, <1>6 DEF A
<1> QED BY <1>2, <1>7

LEMMA PlySet ==
    ASSUME NEW P, Upright(P), NEW n \in Int
    PROVE  Upright([P EXCEPT !.ply = n])
<1> DEFINE Q == [P EXCEPT !.ply = n]
<1>1. /\ Shape(Q)
      /\ Q.board = P.board /\ Q.hands = P.hands /\ Q.pieces = P.pieces /\ Q.own = P.own
      /\ Q.occupied = P.occupied /\ Q.king = P.king /\ Q.side = P.side /\ Q.ply = n /\ Q.key = P.key
  BY DEF Upright, Shape, Fields
<1> HIDE DEF Q
<1>2. Exact(Q)
  BY <1>1, ExactIs DEF Upright
<1> QED BY <1>1, <1>2 DEF Upright, Q

(* set_sfen: whatever text it accepts, in the position it sets up board, bitboards,
   kings, hands and key agree; so it is with all that it has built before a text is
   refused. *)
THEOREM SetUpsAreExact ==
    ASSUME NEW text, IsText(text), NEW tsume
    PROVE  Shape(SetSfen(text, tsume).P) /\ Exact(SetSfen(text, tsume).P)
<1> DEFINE start == [P |-> EmptyPosition, ok |-> TRUE, row |-> 0, col |-> 0, promoted |-> FALSE,
                     count |-> 0, totals |-> [type \in Bases |-> 0]]
           board == FoldLeft(ReadBoard, start, text.board)
           turned == IF text.side = "white" THEN [board EXCEPT !.P = PassTurn(@)] ELSE board
           hands == FoldLeft(ReadHand, turned, text.hands)
<1>1. Reads(start)
  <2>1. /\ Reader(start) /\ start.P = EmptyPosition /\ start.row = 0 /\ start.col = 0
        /\ start.promoted = FALSE /\ start.count = 0
    BY DEF Reader, ReaderFields
  <2> HIDE DEF start
  <2>2. start.row \in 0 .. (Rows - 1) /\ start.col \in 0 .. Cols
    BY <2>1, BoardAssumption
  <2>3. \A s \in Squares : start.P.board[s] = NoPiece
    BY <2>1 DEF EmptyPosition
  <2> QED BY <2>1, <2>2, <2>3, EmptyIsUpright DEF Reads
<1> HIDE DEF start
<1>2. Reads(board)
  BY <1>1, BoardIsRead DEF IsText
<1> HIDE DEF board
<1>3. Holds(turned)
  <2>1. Upright(PassTurn(board.P))
    BY <1>2, NullMoveKeepsPositions DEF Reads, Upright
  <2>2. Reader([board EXCEPT !.P = PassTurn(@)]) /\ [board EXCEPT !.P = PassTurn(@)].P = PassTurn(board.P)
        /\ [board EXCEPT !.P = PassTurn(@)].count = board.count
    BY <1>2 DEF Reads, Reader, ReaderFields
  <2> QED BY <1>2, <2>1, <2>2 DEF Reads, Holds
<1> HIDE DEF turned
<1>4. Holds(hands)
  BY <1>3, HandsAreRead DEF IsText
<1>5. SetSfen(text, tsume).P \in {hands.P, [hands.P EXCEPT !.ply = text.number - 1]}
  <2> HIDE DEF hands
  <2> QED BY DEF SetSfen, hands, turned, board, start
<1> HIDE DEF hands
<1>6. text.number - 1 \in Int
  BY DEF IsText
<1> QED BY <1>4, <1>5, <1>6, PlySet DEF Holds, Upright

-----------------------------------------------------------------------------
(* The history says of every sight what it takes to know it again. *)
Sights == Boards \X Hands \X Colors
KeyOf(sight) == BoardKey(sight[1]) \cup HandKey(sight[2]) \cup SideKey(sight[3])
NodeOf(sight) == [key |-> KeyOf(sight), side |-> sight[3], check |-> Checked(sight[1], sight[3])]

Remembered ==
    /\ past \in Seq(Sights) /\ Len(past) >= 1
    /\ history = [i \in 1 .. Len(past) |-> NodeOf(past[i])]

(* After a null move the newest sight is still that of the position before it; a
   null move is made only while nothing has been repeated. *)
OnSight ==
    /\ pos.board = past[Len(past)][1] /\ pos.hands = past[Len(past)][2]
    /\ pos.side = past[Len(past)][3] \/ ~IsRepetitionDraw

GameInv == Sound(pos) /\ Remembered /\ OnSight

LEMMA NodeOfSight ==
    ASSUME NEW P, Exact(P)
    PROVE  /\ Sight(P) \in Sights /\ HistoryNode(P) = NodeOf(Sight(P))
           /\ Sight(P)[1] = P.board /\ Sight(P)[2] = P.hands /\ Sight(P)[3] = P.side
<1>1. /\ P.board \in Boards /\ P.hands \in Hands /\ P.side \in Colors
      /\ P.key = BoardKey(P.board) \cup HandKey(P.hands) \cup SideKey(P.side)
  BY ExactIs
<1>2. Sight(P) \in Sights /\ Sight(P)[1] = P.board /\ Sight(P)[2] = P.hands /\ Sight(P)[3] = P.side
  BY <1>1 DEF Sight, Sights
<1>3. KeyOf(Sight(P)) = P.key
  BY <1>1, <1>2 DEF KeyOf
<1>4. InCheck(P, P.side) = Checked(P.board, P.side)
  <2>1. InCheck(P, P.side) <=> Checked(P.board, P.side)
    BY <1>1, InCheckIsChecked
  <2>2. InCheck(P, P.side) \in BOOLEAN /\ Checked(P.board, P.side) \in BOOLEAN
    BY DEF InCheck, Checked
  <2> QED BY <2>1, <2>2
<1> QED BY <1>2, <1>3, <1>4 DEF HistoryNode, NodeOf

LEMMA GameStarts == Init => GameInv
<1> SUFFICES ASSUME Init PROVE GameInv
  OBVIOUS
<1>1. PICK sfen \in Sfens : SetSfen(sfen.text, sfen.tsume).ok /\ pos = SetSfen(sfen.text, sfen.tsume).P
  BY DEF Init
<1>2. IsText(sfen.text) /\ ~InCheck(pos, Opposite(pos.side))
  BY <1>1, GameAssumption
<1>3. Shape(pos) /\ Exact(pos)
  BY <1>1, <1>2, SetUpsAreExact
<1>4. history = <<NodeOf(Sight(pos))>> /\ past = <<Sight(pos)>> /\ Sight(pos) \in Sights
      /\ Sight(pos)[1] = pos.board /\ Sight(pos)[2] = pos.hands /\ Sight(pos)[3] = pos.side
  BY <1>3, NodeOfSight DEF Init
<1>5. Remembered
  <2>1. past \in Seq(Sights) /\ Len(past) = 1 /\ past[1] = Sight(pos)
    BY <1>4
  <2>2. history = [i \in 1 .. 1 |-> NodeOf(Sight(pos))]
    BY <1>4
  <2> QED BY <2>1, <2>2 DEF Remembered
<1> QED BY <1>2, <1>3, <1>4, <1>5 DEF GameInv, Sound, OnSight

LEMMA MoveRemembered ==
    ASSUME GameInv, NEW m \in LegalMoves(pos), DoMove(m)
    PROVE  GameInv'
<1>1. Sound(pos') /\ pos' = MakeMove(pos, m)
  BY LegalMovesKeepPositionsSound DEF GameInv, DoMove
<1>2. Exact(pos')
  BY <1>1 DEF Sound
<1>3. /\ history' = Append(history, NodeOf(Sight(pos'))) /\ past' = Append(past, Sight(pos'))
      /\ Sight(pos') \in Sights
      /\ Sight(pos')[1] = pos'.board /\ Sight(pos')[2] = pos'.hands /\ Sight(pos')[3] = pos'.side
  BY <1>2, NodeOfSight DEF DoMove
<1> DEFINE n == Len(past)
           sight == Sight(pos')
<1>4. /\ past' \in Seq(Sights) /\ Len(past') = n + 1 /\ past'[n + 1] = sight /\ n \in Nat
      /\ \A i \in 1 .. n : past'[i] = past[i]
  <2> HIDE DEF sight
  <2> QED BY <1>3 DEF GameInv, Remembered, sight
<1>5. history' = [i \in 1 .. (n + 1) |-> NodeOf(past'[i])]
  <2> DEFINE Nodes == {NodeOf(x) : x \in Sights}
  <2>1. history = [i \in 1 .. n |-> NodeOf(past[i])] /\ \A i \in 1 .. n : past[i] \in Sights
    BY DEF GameInv, Remembered
  <2>2. history \in Seq(Nodes) /\ Len(history) = n
    <3>1. \A i \in 1 .. n : NodeOf(past[i]) \in Nodes
      BY <2>1
    <3> HIDE DEF Nodes, n
    <3> QED BY <1>4, <2>1, <3>1
  <2>3. NodeOf(sight) \in Nodes
    BY <1>3
  <2> HIDE DEF Nodes, sight, n
  <2>4. /\ history' \in Seq(Nodes) /\ Len(history') = n + 1 /\ history'[n + 1] = NodeOf(sight)
        /\ \A i \in 1 .. n : history'[i] = history[i]
    BY <1>3, <1>4, <2>2, <2>3 DEF sight
  <2>5. DOMAIN history' = 1 .. (n + 1) /\ \A i \in 1 .. (n + 1) : history'[i] = NodeOf(past'[i])
    BY <1>4, <2>1, <2>4
  <2>6. history' = [i \in DOMAIN history' |-> history'[i]]
    BY <2>4
  <2> QED BY <2>5, <2>6
<1> HIDE DEF n, sight
<1>6. Remembered'
  BY <1>4, <1>5 DEF Remembered
<1>7. OnSight'
  BY <1>3, <1>4 DEF OnSight, sight
<1> QED BY <1>1, <1>6, <1>7 DEF GameInv

LEMMA NullMoveRemembered ==
    ASSUME GameInv, NullMove
    PROVE  GameInv'
<1>1. /\ Shape(pos) /\ Exact(pos) /\ pos' = PassTurn(pos) /\ past' = past /\ history' = history
      /\ ~InCheck(pos, pos.side)
  BY DEF GameInv, Sound, NullMove
<1>2. Shape(pos') /\ Exact(pos')
  BY <1>1, NullMoveKeepsPositions
<1>3. /\ pos'.board = pos.board /\ pos'.hands = pos.hands /\ pos'.side = Opposite(pos.side)
      /\ pos'.king = pos.king /\ pos'.own = pos.own /\ pos'.pieces = pos.pieces /\ pos'.occupied = pos.occupied
  BY <1>1 DEF PassTurn, Shape, Fields
<1>4. ~InCheck(pos', Opposite(pos'.side))
  <2>1. Opposite(pos'.side) = pos.side
    BY <1>1, <1>3, ExactIs, OppositeFacts
  <2>2. PICK Q : Q = pos'
    OBVIOUS
  <2>3. PICK c : c = pos.side
    OBVIOUS
  <2>4. \A s : AlignedSliders(Q, s, Opposite(c)) = AlignedSliders(pos, s, Opposite(c))
    BY <1>3, <2>2 DEF AlignedSliders
  <2>5. \A s : AttackersTo(Q, s, Opposite(c), Q.occupied) = AttackersTo(pos, s, Opposite(c), pos.occupied)
    BY <1>3, <2>2, <2>4 DEF AttackersTo
  <2>6. ~InCheck(Q, c)
    BY <1>1, <1>3, <2>2, <2>3, <2>5 DEF InCheck
  <2> QED BY <2>1, <2>2, <2>3, <2>6
<1>5. ~IsRepetitionDraw'
  <2>1. TerminalStatus(pos).outcome = "None"
    BY DEF NullMove
  <2>2. ~IsRepetitionDraw
    BY <2>1 DEF TerminalStatus, Status, IsPerpetualCheckLossForOpponent
  <2> QED BY <1>1, <2>2 DEF IsRepetitionDraw, Occurrences, Now
<1> QED BY <1>1, <1>2, <1>3, <1>4, <1>5 DEF GameInv, Sound, Remembered, OnSight

(* In every game the position is sound, the history is that of the positions that
   have been on the board, and the newest of them is the one that is there. *)
THEOREM GamesAreSound == Spec => []GameInv
<1>1. ASSUME GameInv, [Next]_vars PROVE GameInv'
  <2>1. CASE \E m \in LegalMoves(pos) : DoMove(m)
    BY <1>1, <2>1, MoveRemembered
  <2>2. CASE NullMove
    BY <1>1, <2>2, NullMoveRemembered
  <2>3. CASE UNCHANGED vars
    BY <1>1, <2>3 DEF vars, GameInv, Remembered, OnSight, IsRepetitionDraw, Occurrences, Now
  <2> QED BY <1>1, <2>1, <2>2, <2>3 DEF Next
<1> QED BY <1>1, GameStarts, PTL DEF Spec

-----------------------------------------------------------------------------
(* What holds of every position of every game. *)

LEMMA PositionsAreExact == GameInv => PositionIsExact
<1> SUFFICES ASSUME GameInv PROVE PositionIsExact
  OBVIOUS
<1>1. Shape(pos) /\ Exact(pos)
  BY DEF GameInv, Sound
<1>2. ASSUME NEW m \in LegalMoves(pos) PROVE UnmakeMove(MakeMove(pos, m), m, Captured(pos, m)) = pos
  <2>1. m \in Generate(pos, TRUE, TRUE, "All")
    BY DEF LegalMoves
  <2> QED BY <1>1, <2>1, GeneratedMovesKeepPositions
<1> QED BY <1>1, <1>2 DEF PositionIsExact

(* Through all the moves of a game board, bitboards, kings and key agree, and every
   legal move can be taken back. *)
THEOREM GamesKeepPositionsExact == Spec => []PositionIsExact
BY GamesAreSound, PositionsAreExact, PTL

LEMMA MovesAreLegal == GameInv => GeneratesLegalMoves
BY GeneratedMovesAreLawful, HasLegalMoveIsRight DEF GameInv, GeneratesLegalMoves

(* In every position of a game the generated moves are those of the rules. *)
THEOREM GamesGenerateLegalMoves == Spec => []GeneratesLegalMoves
BY GamesAreSound, MovesAreLegal, PTL

LEMMA ChecksAreFound == GameInv => GeneratesChecks
<1> SUFFICES ASSUME GameInv PROVE GeneratesChecks
  OBVIOUS
<1>1. Sound(pos)
  BY DEF GameInv
<1> QED BY <1>1, GeneratedChecksAreChecks DEF GeneratesChecks

(* In every position of a game the checking moves are those that give check. *)
THEOREM GamesGenerateChecks == Spec => []GeneratesChecks
BY GamesAreSound, ChecksAreFound, PTL

-----------------------------------------------------------------------------
(* Repetition. *)

LEMMA BoardOfKey ==
    ASSUME NEW a \in Boards, NEW b \in Boards, NEW h, NEW g, NEW c, NEW d,
           BoardKey(a) \cup HandKey(h) \cup SideKey(c) = BoardKey(b) \cup HandKey(g) \cup SideKey(d)
    PROVE  a = b
<1>1. \A x, y, s : OnBoard(x, y, s) \in BoardKey(a) <=> OnBoard(x, y, s) \in BoardKey(b)
  BY KeysApart
<1>2. ASSUME NEW s \in Squares PROVE a[s] = b[s]
  <2>1. \A x \in Colors, y \in Types : a[s] = Piece(x, y) <=> b[s] = Piece(x, y)
    BY <1>1, InBoardKey
  <2>2. a[s] \in {NoPiece} \cup PieceSet /\ b[s] \in {NoPiece} \cup PieceSet
    BY DEF Boards
  <2> QED BY <2>1, <2>2, PieceFacts
<1> QED BY <1>2 DEF Boards

LEMMA HandsOfKey ==
    ASSUME NEW h \in Hands, NEW g \in Hands, NEW a, NEW b, NEW c, NEW d,
           BoardKey(a) \cup HandKey(h) \cup SideKey(c) = BoardKey(b) \cup HandKey(g) \cup SideKey(d)
    PROVE  h = g
<1>1. \A x, t, n : InHand(x, t, n) \in HandKey(h) <=> InHand(x, t, n) \in HandKey(g)
  BY KeysApart
<1>2. ASSUME NEW x \in Colors, NEW t \in HandTypes PROVE h[x][t] = g[x][t]
  <2>1. h[x][t] \in Nat /\ g[x][t] \in Nat
    BY DEF Hands
  <2>2. \A n : n \in 0 .. (h[x][t] - 1) <=> n \in 0 .. (g[x][t] - 1)
    BY <1>1, InHandKey
  <2>3. ~(h[x][t] < g[x][t])
    <3> SUFFICES ASSUME h[x][t] < g[x][t] PROVE FALSE
      OBVIOUS
    <3>1. h[x][t] \in 0 .. (g[x][t] - 1) /\ h[x][t] \notin 0 .. (h[x][t] - 1)
      BY <2>1
    <3> QED BY <2>2, <3>1
  <2>4. ~(g[x][t] < h[x][t])
    <3> SUFFICES ASSUME g[x][t] < h[x][t] PROVE FALSE
      OBVIOUS
    <3>1. g[x][t] \in 0 .. (h[x][t] - 1) /\ g[x][t] \notin 0 .. (g[x][t] - 1)
      BY <2>1
    <3> QED BY <2>2, <3>1
  <2> QED BY <2>1, <2>3, <2>4
<1>3. \A x \in Colors : h[x] = g[x]
  BY <1>2 DEF Hands
<1> QED BY <1>3 DEF Hands

LEMMA SideOfKey ==
    ASSUME NEW c \in Colors, NEW d \in Colors, NEW a, NEW b, NEW h, NEW g,
           BoardKey(a) \cup HandKey(h) \cup SideKey(c) = BoardKey(b) \cup HandKey(g) \cup SideKey(d)
    PROVE  c = d
<1>1. WhiteToMove \in SideKey(c) <=> WhiteToMove \in SideKey(d)
  BY KeysApart
<1> QED BY <1>1 DEF SideKey, Colors

LEMMA KeysTell ==
    ASSUME NEW x \in Sights, NEW y \in Sights
    PROVE  NodeOf(x).key = NodeOf(y).key <=> x = y
<1>1. /\ x = <<x[1], x[2], x[3]>> /\ x[1] \in Boards /\ x[2] \in Hands /\ x[3] \in Colors
      /\ y = <<y[1], y[2], y[3]>> /\ y[1] \in Boards /\ y[2] \in Hands /\ y[3] \in Colors
  BY DEF Sights
<1>2. NodeOf(x).key = KeyOf(x) /\ NodeOf(y).key = KeyOf(y)
  BY DEF NodeOf
<1>3. ASSUME KeyOf(x) = KeyOf(y) PROVE x = y
  <2>1. x[1] = y[1]
    BY <1>1, <1>3, BoardOfKey DEF KeyOf
  <2>2. x[2] = y[2]
    BY <1>1, <1>3, HandsOfKey DEF KeyOf
  <2>3. x[3] = y[3]
    BY <1>1, <1>3, SideOfKey DEF KeyOf
  <2> QED BY <1>1, <2>1, <2>2, <2>3
<1> QED BY <1>2, <1>3

LEMMA RepetitionsAreFound ==
    ASSUME GameInv
    PROVE  /\ Occurrences = Seen /\ Earliest = FourthLast /\ Len(history) = Len(past)
           /\ Now.check <=> Checked(pos.board, past[Len(past)][3])
           /\ \A i \in 1 .. Len(past) : /\ history[i].side = past[i][3]
                                        /\ history[i].check <=> Checked(past[i][1], past[i][3])
<1> DEFINE n == Len(past)
<1>1. /\ n \in Nat /\ n >= 1 /\ history = [i \in 1 .. n |-> NodeOf(past[i])]
      /\ \A i \in 1 .. n : past[i] \in Sights
  BY DEF GameInv, Remembered
<1>2. Len(history) = n /\ DOMAIN history = 1 .. n /\ \A i \in 1 .. n : history[i] = NodeOf(past[i])
  BY <1>1
<1>3. \A i \in 1 .. n : history[i].side = past[i][3] /\ history[i].check = Checked(past[i][1], past[i][3])
  BY <1>2 DEF NodeOf
<1> HIDE DEF n
<1>4. n \in 1 .. n /\ Now = history[n]
  BY <1>1, <1>2 DEF Now
<1>5. Occurrences = Seen
  <2>1. \A i \in 1 .. n : history[i].key = Now.key <=> past[i] = past[n]
    BY <1>1, <1>2, <1>4, KeysTell
  <2> QED BY <1>2, <2>1 DEF Occurrences, Seen, n
<1>6. Earliest = FourthLast
  BY <1>5 DEF Earliest, FourthLast
<1>7. Now.check <=> Checked(pos.board, past[n][3])
  BY <1>3, <1>4 DEF GameInv, OnSight, n
<1> QED BY <1>2, <1>3, <1>5, <1>6, <1>7 DEF n

From(S, i) == {j \in S : j >= i}

LEMMA FromTheEnd ==
    ASSUME NEW n \in Nat, NEW S \in SUBSET (1 .. n)
    PROVE  \A k \in Nat : 1 <= k /\ k <= Cardinality(S) => \E i \in S : Cardinality(From(S, i)) = k
<1> DEFINE A == {k \in Nat : 1 <= k /\ k <= Cardinality(S) => \E i \in S : Cardinality(From(S, i)) = k}
<1>0. IsFiniteSet(S) /\ Cardinality(S) \in Nat
  <2>1. IsFiniteSet(1 .. n)
    BY FS_Interval
  <2>2. IsFiniteSet(S)
    BY <2>1, FS_Subset
  <2> QED BY <2>2, FS_CardinalityType
<1>1. 0 \in A
  OBVIOUS
<1>2. ASSUME NEW k \in Nat, k \in A PROVE k + 1 \in A
  <2> SUFFICES ASSUME k + 1 <= Cardinality(S) PROVE \E i \in S : Cardinality(From(S, i)) = k + 1
    OBVIOUS
  <2>1. PICK T \in SUBSET S : Cardinality(S \ T) = k /\ \A x \in S, y \in T : x <= y => x \in T
    <3>1. CASE k = 0
      <4>1. S \ S = {} /\ Cardinality({}) = 0
        BY FS_EmptySet
      <4> QED BY <3>1, <4>1
    <3>2. CASE k > 0
      <4>1. PICK i \in S : Cardinality(From(S, i)) = k
        BY <1>0, <1>2, <3>2
      <4> DEFINE T == {j \in S : j < i}
      <4>2. S \subseteq Int
        OBVIOUS
      <4>3. S \ T = From(S, i)
        <5>1. \A j \in S : j >= i <=> ~(j < i)
          BY <4>2
        <5> QED BY <5>1 DEF From
      <4>4. \A x \in S, y \in T : x <= y => x \in T
        BY <4>2
      <4> QED BY <4>1, <4>3, <4>4
    <3> QED BY <3>1, <3>2
  <2>2. T # {}
    <3> SUFFICES ASSUME T = {} PROVE FALSE
      OBVIOUS
    <3>1. S \ T = S
      OBVIOUS
    <3> QED BY <1>0, <2>1, <3>1
  <2>3. T \in SUBSET (1 .. n)
    OBVIOUS
  <2>4. PICK i \in T : \A y \in T : i >= y
    <3> DEFINE U == {c \in 0 .. n : n - c \in T}
    <3>2. U \subseteq Nat /\ U # {}
      <4>1. PICK x : x \in T
        BY <2>2
      <4>2. n - x \in U
        BY <2>3, <4>1
      <4> QED BY <4>2
    <3>3. PICK c \in U : \A d \in U : c <= d
      <4> HIDE DEF U
      <4> QED BY <3>2, Sums!LeastElement
    <3>4. \A y \in T : n - y \in U
      BY <2>3
    <3>5. n - c \in T /\ \A y \in T : n - c >= y
      BY <2>3, <3>3, <3>4
    <3> QED BY <3>5
  <2>5. From(S, i) = (S \ T) \cup {i} /\ i \notin S \ T /\ i \in S
    <3>1. ASSUME NEW j \in S PROVE j >= i <=> j \in (S \ T) \cup {i}
      <4>1. i \in Int /\ j \in Int
        BY <2>3
      <4> QED BY <2>1, <2>4, <4>1
    <3> QED BY <3>1 DEF From
  <2>6. Cardinality((S \ T) \cup {i}) = Cardinality(S \ T) + 1
    <3>1. IsFiniteSet(S \ T)
      BY <1>0, FS_Subset
    <3> QED BY <2>5, <3>1, FS_AddElement
  <2> QED BY <2>1, <2>5, <2>6
<1> HIDE DEF A
<1>3. Nat \subseteq A
  BY <1>1, <1>2, Sums!Induction
<1> QED BY <1>3 DEF A

LEMMA RepetitionsAreJudged == GameInv => RepetitionIsReal
<1> SUFFICES ASSUME GameInv PROVE RepetitionIsReal
  OBVIOUS
<1> DEFINE status == TerminalStatus(pos)
           pressed == Checked(pos.board, pos.side) /\ Pressing(Opposite(pos.side))
<1>1. IsRepetitionDraw <=> Cardinality(Seen) >= 4
  BY RepetitionsAreFound DEF IsRepetitionDraw
<1>2. pos.side \in Colors /\ Opposite(Opposite(pos.side)) = pos.side
  BY ExactIs, OppositeFacts DEF GameInv, Sound
<1>3. ASSUME IsRepetitionDraw
      PROVE  IsPerpetualCheckLossForOpponent(pos) <=> pressed
  <2>1. past[Len(past)][3] = pos.side
    BY <1>3 DEF GameInv, OnSight
  <2>2. Now.check <=> Checked(pos.board, pos.side)
    BY <2>1, RepetitionsAreFound
  <2>3. Earliest \in 1 .. Len(past)
    <3>1. Len(past) \in Nat /\ Seen \in SUBSET (1 .. Len(past)) /\ Cardinality(Seen) >= 4
      BY <1>1, <1>3 DEF GameInv, Remembered, Seen
    <3>2. 4 <= Cardinality(Seen) /\ 4 \in Nat
      BY <3>1
    <3>5. \A k \in Nat : 1 <= k /\ k <= Cardinality(Seen) => \E i \in Seen : Cardinality(From(Seen, i)) = k
      BY <3>1, FromTheEnd
    <3>3. PICK i \in Seen : Cardinality(From(Seen, i)) = 4
      BY <3>2, <3>5
    <3>4. FourthLast \in Seen
      BY <3>3 DEF FourthLast, From
    <3> QED BY <3>1, <3>4, RepetitionsAreFound
  <2>4. ASSUME NEW i \in Earliest .. Len(history)
        PROVE  (history[i].side = pos.side => history[i].check)
                 <=> (past[i][3] = pos.side => Checked(past[i][1], pos.side))
    <3>1. Len(past) \in Nat /\ Len(history) = Len(past)
      BY RepetitionsAreFound DEF Remembered, GameInv
    <3>2. i \in 1 .. Len(past)
      BY <2>3, <3>1
    <3> QED BY <3>2, RepetitionsAreFound
  <2> QED BY <1>2, <1>3, <2>2, <2>4, RepetitionsAreFound DEF IsPerpetualCheckLossForOpponent, Pressing
<1>4. /\ IsPerpetualCheckLossForOpponent(pos) => IsRepetitionDraw /\ status = Status("Win", "PerpetualCheck")
      /\ IsRepetitionDraw /\ ~IsPerpetualCheckLossForOpponent(pos) =>
            status.reason = "TryRule" \/ status = Status("Draw", "Repetition")
      /\ status.reason \in {"Repetition", "PerpetualCheck"} => IsRepetitionDraw
  BY DEF TerminalStatus, Status, Impasse, IsPerpetualCheckLossForOpponent
<1> HIDE DEF status, pressed
<1>5. status.reason \in {"Repetition", "PerpetualCheck"} => Cardinality(Seen) >= 4
  BY <1>1, <1>4
<1>6. Cardinality(Seen) >= 4 =>
        \/ status.reason = "TryRule"
        \/ status = IF pressed THEN Status("Win", "PerpetualCheck") ELSE Status("Draw", "Repetition")
  BY <1>1, <1>3, <1>4
<1> QED BY <1>5, <1>6 DEF RepetitionIsReal, OnlyForReal, status, pressed

-----------------------------------------------------------------------------
(* Verdicts. *)

(* A null move leaves all that a verdict looks at, but for the side. *)
LEMMA PassLooksTheSame ==
    ASSUME NEW P, Shape(P), Exact(P), NEW color \in Colors
    PROVE  LET Q == PassTurn(P)
           IN /\ InCheck(Q, color) <=> InCheck(P, color)
              /\ IsTryRuleWin(Q, color) <=> IsTryRuleWin(P, color)
              /\ IsImpassePosition(Q) <=> IsImpassePosition(P)
              /\ EnoughPoints(Q, color) <=> EnoughPoints(P, color)
              /\ Q.side = Opposite(P.side) /\ Q.ply = P.ply
<1> DEFINE Q == PassTurn(P)
<1>1. /\ Q.board = P.board /\ Q.hands = P.hands /\ Q.side = Opposite(P.side) /\ Q.ply = P.ply
      /\ Q.king = P.king /\ Q.own = P.own /\ Q.pieces = P.pieces /\ Q.occupied = P.occupied
  BY DEF PassTurn, Shape, Fields
<1> HIDE DEF Q
<1>2. ASSUME NEW c \in Colors PROVE InCheck(Q, c) <=> InCheck(P, c)
  BY <1>1 DEF InCheck, AttackersTo, AlignedSliders
<1>3. IsTryRuleWin(Q, color) <=> IsTryRuleWin(P, color)
  BY <1>1 DEF IsTryRuleWin
<1>4. IsImpassePosition(Q) <=> IsImpassePosition(P)
  BY <1>1, <1>2 DEF IsImpassePosition
<1>5. EnoughPoints(Q, color) <=> EnoughPoints(P, color)
  <2>1. ImpassePoints(Q, color) = ImpassePoints(P, color)
    BY <1>1 DEF ImpassePoints, PointsOf, HandPoints
  <2>2. HandicapBonus(Q, color) = HandicapBonus(P, color)
    BY <1>1 DEF HandicapBonus
  <2> QED BY <2>1, <2>2 DEF EnoughPoints
<1> QED BY <1>1, <1>2, <1>3, <1>4, <1>5 DEF Q

LEMMA SquaresAreFinite == IsFiniteSet(Squares)
<1>1. Rows * Cols - 1 \in Int
  BY BoardAssumption
<1> QED BY <1>1, FS_Interval DEF Squares

LEMMA HandTypesAreFinite == IsFiniteSet(HandTypes)
<1>1. HandTypes = {"Pawn"} \cup {"Lance"} \cup {"Knight"} \cup {"Silver"} \cup {"Gold"} \cup {"Bishop"} \cup {"Rook"}
  BY DEF HandTypes
<1>2. \A x : IsFiniteSet({x})
  BY FS_Singleton
<1> QED BY <1>1, <1>2, FS_Union

LEMMA HandTypeSum ==
    ASSUME NEW fun, fun \in [HandTypes -> Nat]
    PROVE  SumFunction(fun) \in Nat
<1>1. \A x \in HandTypes : fun[x] \in Nat
  OBVIOUS
<1>2. SumFunctionOnSet(fun, HandTypes) \in Nat
  BY <1>1, HandTypesAreFinite, SumsGrow
<1>3. DOMAIN fun = HandTypes
  OBVIOUS
<1> QED BY <1>2, <1>3 DEF SumFunction

LEMMA ImpassePointsAre == \A type : ImpassePointValue(type) \in Nat
BY DEF ImpassePointValue

(* Whoever may declare a win has the points for an impasse. *)
LEMMA DeclarersHaveEnough ==
    ASSUME NEW P, Exact(P), CanDeclareWin(P)
    PROVE  EnoughPoints(P, P.side)
<1> DEFINE c == P.side
           fun == [s \in Squares |-> ImpassePointValue(P.board[s].type)]
<1>1. /\ P.hands \in Hands /\ c \in Colors /\ P.own = OwnOf(P.board)
  BY ExactIs
<1>2. P.own[c] \in SUBSET Squares /\ InCamp(P, c) \in SUBSET P.own[c]
  BY <1>1 DEF OwnOf, InCamp
<1>3. \A s \in Squares : fun[s] \in Nat
  BY ImpassePointsAre
<1> HIDE DEF fun, c
<1>4. /\ \A T \in SUBSET Squares : SumFunctionOnSet(fun, T) \in Nat
      /\ \A T \in SUBSET Squares : \A U \in SUBSET T : SumFunctionOnSet(fun, U) <= SumFunctionOnSet(fun, T)
  BY <1>3, SquaresAreFinite, SumsGrow
<1>5. /\ PointsOf(InCamp(P, c), P) <= PointsOf(P.own[c], P)
      /\ PointsOf(InCamp(P, c), P) \in Nat /\ PointsOf(P.own[c], P) \in Nat
  <2>1. InCamp(P, c) \in SUBSET Squares
    BY <1>2
  <2>2. PointsOf(InCamp(P, c), P) = SumFunctionOnSet(fun, InCamp(P, c))
        /\ PointsOf(P.own[c], P) = SumFunctionOnSet(fun, P.own[c])
    BY DEF PointsOf, fun
  <2> QED BY <1>2, <1>4, <2>1, <2>2
<1>6. HandPoints(P, c) \in Nat
  <2> DEFINE hand == [t \in HandTypes |-> P.hands[c][t] * ImpassePointValue(t)]
  <2>1. \A t \in HandTypes : P.hands[c][t] * ImpassePointValue(t) \in Nat
    <3>1. \A t \in HandTypes : P.hands[c][t] \in Nat /\ ImpassePointValue(t) \in Nat
      BY <1>1, ImpassePointsAre DEF Hands
    <3>2. \A a, b \in Nat : a * b \in Nat
      OBVIOUS
    <3> QED BY <3>1, <3>2
  <2>2. hand \in [HandTypes -> Nat]
    BY <2>1
  <2> HIDE DEF hand
  <2>3. SumFunction(hand) \in Nat
    BY <2>2, HandTypeSum
  <2> QED BY <2>3 DEF HandPoints, hand
<1>7. HandicapBonus(P, c) \in Nat
  <2> DEFINE Total(type) == Cardinality({s \in P.occupied : Unpromote(P.board[s].type) = type})
                            + P.hands["black"][type] + P.hands["white"][type]
             Missing(type) == IF Total(type) < FullCounts[type] THEN FullCounts[type] - Total(type)
                              ELSE 0
             bonus == [t \in HandTypes |-> Missing(t) * ImpassePointValue(t)]
  <2>1. ASSUME NEW t \in HandTypes PROVE Missing(t) * ImpassePointValue(t) \in Nat
    <3>1. Total(t) \in Nat
      <4>1. Cardinality({s \in P.occupied : Unpromote(P.board[s].type) = t}) \in Nat
        <5>1. P.occupied \in SUBSET Squares
          BY ExactIs
        <5>2. IsFiniteSet({s \in P.occupied : Unpromote(P.board[s].type) = t})
          BY <5>1, SquaresAreFinite, FS_Subset
        <5> QED BY <5>2, FS_CardinalityType
      <4>2. P.hands["black"][t] \in Nat /\ P.hands["white"][t] \in Nat
        BY <1>1 DEF Hands, Colors
      <4> QED BY <4>1, <4>2
    <3>2. FullCounts[t] \in Nat /\ ImpassePointValue(t) \in Nat
      BY GameAssumption, ImpassePointsAre
    <3> HIDE DEF Total
    <3>3. Missing(t) \in Nat
      BY <3>1, <3>2
    <3> HIDE DEF Missing
    <3> QED BY <3>2, <3>3
  <2>2. bonus \in [HandTypes -> Nat]
    <3> HIDE DEF Missing
    <3> QED BY <2>1
  <2> HIDE DEF bonus
  <2>3. SumFunction(bonus) \in Nat
    BY <2>2, HandTypeSum
  <2>4. HandicapBonus(P, c) \in {0, SumFunction(bonus)}
    BY DEF HandicapBonus, bonus
  <2> QED BY <2>3, <2>4
<1>8. /\ DeclarationThreshold(c) \in Nat /\ ImpasseThreshold(c) \in Nat
      /\ DeclarationThreshold(c) >= ImpasseThreshold(c)
  <2>1. /\ Thresholds.declare24 \in Nat /\ Thresholds.draw24 \in Nat
        /\ Thresholds.black27 \in Nat /\ Thresholds.white27 \in Nat
        /\ Thresholds.declare24 >= Thresholds.draw24
    BY GameAssumption
  <2> QED BY <2>1 DEF DeclarationThreshold, ImpasseThreshold, Points27
<1>9. DeclarationPoints(P, c) + HandicapBonus(P, c) >= DeclarationThreshold(c)
  BY DEF CanDeclareWin, c
<1>10. DeclarationPoints(P, c) = PointsOf(InCamp(P, c), P) + HandPoints(P, c)
       /\ ImpassePoints(P, c) = PointsOf(P.own[c], P) + HandPoints(P, c)
  BY DEF DeclarationPoints, ImpassePoints
<1>11. ImpassePoints(P, c) + HandicapBonus(P, c) >= ImpasseThreshold(c)
  BY <1>5, <1>6, <1>7, <1>8, <1>9, <1>10
<1> QED BY <1>11 DEF EnoughPoints, c

LEMMA VerdictsAreMirrored == GameInv => VerdictsMirror
<1> SUFFICES ASSUME GameInv, ~IsRepetitionDraw
             PROVE  Mirrored(TerminalStatus(pos), TerminalStatus(PassTurn(pos)))
  BY DEF VerdictsMirror
<1> DEFINE Q == PassTurn(pos)
           mine == TerminalStatus(pos)
           theirs == TerminalStatus(Q)
           other == Opposite(pos.side)
<1>1. /\ Shape(pos) /\ Exact(pos) /\ pos.side \in Colors /\ other \in Colors /\ Opposite(other) = pos.side
      /\ other # pos.side
  BY ExactIs, OppositeFacts DEF GameInv, Sound
<1>2. Shape(Q) /\ Exact(Q)
  BY <1>1, NullMoveKeepsPositions
<1>3. /\ \A c \in Colors : /\ InCheck(Q, c) <=> InCheck(pos, c)
                           /\ IsTryRuleWin(Q, c) <=> IsTryRuleWin(pos, c)
                           /\ EnoughPoints(Q, c) <=> EnoughPoints(pos, c)
      /\ IsImpassePosition(Q) <=> IsImpassePosition(pos)
      /\ Q.side = other /\ Q.ply = pos.ply
  BY <1>1, PassLooksTheSame
<1>4. ~IsPerpetualCheckLossForOpponent(pos) /\ ~IsPerpetualCheckLossForOpponent(Q)
  BY DEF IsPerpetualCheckLossForOpponent
<1> HIDE DEF Q, mine, theirs, other
<1>5. CASE rules.entering = "TryRule" /\ \E c \in Colors : IsTryRuleWin(pos, c)
  <2>1. mine = Status(IF IsTryRuleWin(pos, "black") <=> pos.side = "black" THEN "Win" ELSE "Loss", "TryRule")
    BY <1>4, <1>5 DEF TerminalStatus, mine
  <2>2. theirs = Status(IF IsTryRuleWin(Q, "black") <=> Q.side = "black" THEN "Win" ELSE "Loss", "TryRule")
    BY <1>3, <1>4, <1>5 DEF TerminalStatus, theirs
  <2>3. (IsTryRuleWin(Q, "black") <=> Q.side = "black") <=> ~(IsTryRuleWin(pos, "black") <=> pos.side = "black")
    <3>1. pos.side = "black" <=> Q.side # "black"
      BY <1>1, <1>3 DEF Colors
    <3>2. "black" \in Colors
      BY DEF Colors
    <3> QED BY <1>3, <3>1, <3>2
  <2> QED BY <2>1, <2>2, <2>3 DEF Mirrored, Status, mine, theirs, Q
<1>6. CASE ~(rules.entering = "TryRule" /\ \E c \in Colors : IsTryRuleWin(pos, c))
  <2> DEFINE limit(P) == rules.maxMoves > 0 /\ P.ply >= rules.maxMoves /\ ~InCheck(P, P.side)
  <2>1. /\ mine.reason # "TryRule"
        /\ mine.reason = "Impasse" =>
             /\ ~limit(pos) /\ IsImpassePosition(pos) /\ CountsPoints
             /\ mine = Impasse(EnoughPoints(pos, pos.side), EnoughPoints(pos, other))
    BY <1>4, <1>6 DEF TerminalStatus, Status, Impasse, mine, other
  <2> SUFFICES ASSUME mine.reason = "Impasse"
               PROVE  /\ mine.outcome = "Loss" => theirs.outcome = "Win"
                      /\ mine.outcome = "Win" => theirs.outcome = "Loss"
    BY <2>1 DEF Mirrored, mine, theirs, Q
  <2>2. ~limit(Q) /\ IsImpassePosition(Q)
    <3>1. ~InCheck(pos, pos.side) /\ IsImpassePosition(Q)
      BY <1>1, <1>3, <2>1 DEF IsImpassePosition
    <3> QED BY <1>3, <2>1, <3>1
  <2>3. theirs = IF CanDeclareWin(Q) THEN Status("Win", "DeclarationWin")
                 ELSE Impasse(EnoughPoints(pos, other), EnoughPoints(pos, pos.side))
    <3>1. ~(rules.entering = "TryRule" /\ \E c \in Colors : IsTryRuleWin(Q, c))
      BY <1>3, <1>6
    <3>2. EnoughPoints(Q, Q.side) <=> EnoughPoints(pos, other)
      BY <1>1, <1>3
    <3>3. EnoughPoints(Q, Opposite(Q.side)) <=> EnoughPoints(pos, pos.side)
      BY <1>1, <1>3
    <3>4. theirs = IF CanDeclareWin(Q) THEN Status("Win", "DeclarationWin")
                   ELSE Impasse(EnoughPoints(Q, Q.side), EnoughPoints(Q, Opposite(Q.side)))
      BY <1>4, <2>1, <2>2, <3>1 DEF TerminalStatus, theirs
    <3> QED BY <3>2, <3>3, <3>4 DEF Impasse
  <2>4. CanDeclareWin(Q) => EnoughPoints(pos, other)
    BY <1>1, <1>2, <1>3, DeclarersHaveEnough
  <2> QED BY <2>1, <2>3, <2>4 DEF Impasse, Status
<1> QED BY <1>5, <1>6

(* In every game, a repetition is found and judged as the sights say. *)
THEOREM GamesJudgeRepetitions == Spec => []RepetitionIsReal
BY GamesAreSound, RepetitionsAreJudged, PTL

(* In every game, an impasse or a try that is won for one side is lost for the other. *)
THEOREM GamesMirrorVerdicts == Spec => []VerdictsMirror
BY GamesAreSound, VerdictsAreMirrored, PTL

-----------------------------------------------------------------------------
(* Part 4.  Texts. *)

-----------------------------------------------------------------------------
(* Pieces in play.  No move adds one to the game or takes one from it. *)

(* On the board, promoted or not, and in the hands. *)
Standing(board, b) == {s \in Squares : board[s] # NoPiece /\ Unpromote(board[s].type) = b}
Held(hands, b) == IF b = "King" THEN 0 ELSE hands["black"][b] + hands["white"][b]
InPlay(board, hands, b) == Cardinality(Standing(board, b)) + Held(hands, b)
WithinLimits(P) == \A b \in Bases : InPlay(P.board, P.hands, b) <= PieceLimits[b]

(* What a piece of type t adds to the count of b. *)
One(t, b) == IF Unpromote(t) = b THEN 1 ELSE 0

LEMMA CountsAreNumbers ==
    ASSUME NEW board, NEW hands \in Hands, NEW b \in Bases
    PROVE  /\ IsFiniteSet(Standing(board, b)) /\ Cardinality(Standing(board, b)) \in Nat
           /\ Held(hands, b) \in Nat /\ InPlay(board, hands, b) \in Nat
<1>1. IsFiniteSet(Standing(board, b)) /\ Cardinality(Standing(board, b)) \in Nat
  BY SquaresFinite, FS_CardinalityType DEF Standing
<1>2. Held(hands, b) \in Nat
  BY DEF Held, Hands, Colors, Bases
<1> QED BY <1>1, <1>2 DEF InPlay

LEMMA StandingAdd ==
    ASSUME NEW board \in Boards, NEW s \in Squares, board[s] = NoPiece, NEW c \in Colors, NEW t \in Types,
           NEW b \in Bases, NEW B, B = [board EXCEPT ![s] = Piece(c, t)]
    PROVE  /\ Standing(B, b) = IF Unpromote(t) = b THEN Standing(board, b) \cup {s} ELSE Standing(board, b)
           /\ Cardinality(Standing(B, b)) = Cardinality(Standing(board, b)) + One(t, b)
<1>1. B[s] = Piece(c, t) /\ B[s] # NoPiece /\ B[s].type = t /\ \A x \in Squares : x # s => B[x] = board[x]
  BY PieceFacts DEF Boards
<1>2. Standing(B, b) = IF Unpromote(t) = b THEN Standing(board, b) \cup {s} ELSE Standing(board, b)
  BY <1>1 DEF Standing
<1>3. s \notin Standing(board, b) /\ IsFiniteSet(Standing(board, b)) /\ Cardinality(Standing(board, b)) \in Nat
  BY SquaresFinite, FS_CardinalityType DEF Standing
<1>4. Cardinality(Standing(board, b) \cup {s}) = Cardinality(Standing(board, b)) + 1
  BY <1>3, FS_AddElement
<1> QED BY <1>2, <1>3, <1>4 DEF One

LEMMA StandingRemove ==
    ASSUME NEW board \in Boards, NEW s \in Squares, board[s] # NoPiece, NEW b \in Bases,
           NEW B, B = [board EXCEPT ![s] = NoPiece]
    PROVE  Cardinality(Standing(B, b)) = Cardinality(Standing(board, b)) - One(board[s].type, b)
<1>1. B[s] = NoPiece /\ \A x \in Squares : x # s => B[x] = board[x]
  BY DEF Boards
<1>2. Standing(B, b) = IF Unpromote(board[s].type) = b THEN Standing(board, b) \ {s} ELSE Standing(board, b)
  BY <1>1 DEF Standing
<1>3. IsFiniteSet(Standing(board, b)) /\ Cardinality(Standing(board, b)) \in Nat
  BY SquaresFinite, FS_CardinalityType DEF Standing
<1>4. Unpromote(board[s].type) = b => s \in Standing(board, b)
  BY DEF Standing
<1>5. s \in Standing(board, b) => Cardinality(Standing(board, b) \ {s}) = Cardinality(Standing(board, b)) - 1
  BY <1>3, FS_RemoveElement
<1> QED BY <1>2, <1>3, <1>4, <1>5 DEF One

LEMMA HeldChanges ==
    ASSUME NEW hands \in Hands, NEW c \in Colors, NEW t \in HandTypes, NEW b \in Bases, NEW n \in Int,
           NEW more, more = [hands EXCEPT ![c][t] = @ + n]
    PROVE  Held(more, b) = Held(hands, b) + (IF t = b THEN n ELSE 0)
<1>1. "black" \in Colors /\ "white" \in Colors /\ t # "King" /\ Colors = {"black", "white"}
  BY DEF Colors, HandTypes
<1>2. CASE b = "King"
  BY <1>1, <1>2 DEF Held
<1>3. CASE b # "King"
  <2>1. b \in HandTypes
    BY <1>3 DEF Bases
  <2>2. hands["black"][b] \in Nat /\ hands["white"][b] \in Nat /\ hands[c][t] \in Nat
    BY <1>1, <2>1 DEF Hands
  <2>3. \A d \in Colors : more[d][b] = IF d = c /\ b = t THEN hands[d][b] + n ELSE hands[d][b]
    BY <2>1 DEF Hands
  <2> QED BY <1>1, <1>3, <2>2, <2>3 DEF Held
<1> QED BY <1>2, <1>3

LEMMA UnpromotedTypes ==
    /\ \A t \in Bases : Unpromote(t) = t /\ t \in Types
    /\ \A t \in Types : Unpromote(t) \in Bases
    /\ \A t \in Types : CanPromote(t) => t \in HandTypes /\ Unpromote(Promote(t)) = Unpromote(t)
<1>1. ASSUME NEW t \in Bases PROVE Unpromote(t) = t /\ t \in Types
  <2>1. ~\E u \in DOMAIN PromotedForm : PromotedForm[u] = t
    BY DEF PromotedForm, HandTypes, Bases
  <2> QED BY <2>1 DEF Unpromote, Types, Bases
<1>2. ASSUME NEW t \in Types, CanPromote(t) PROVE t \in HandTypes
  BY <1>2 DEF CanPromote, PromotedForm, HandTypes
<1>3. \A t \in Types : CanPromote(t) => Unpromote(Promote(t)) = Unpromote(t)
  BY <1>1, <1>2, PromotionFacts DEF Bases
<1> QED BY <1>1, <1>2, <1>3, PromotionFacts DEF Bases

(* A move takes no piece out of play and brings none in. *)
LEMMA MovesKeepPiecesInPlay ==
    ASSUME NEW P, Upright(P), NEW m, WellFormed(P, m), NEW Q, Q = MakeMove(P, m), NEW b \in Bases
    PROVE  InPlay(Q.board, Q.hands, b) = InPlay(P.board, P.hands, b)
<1>1. Shape(P) /\ Exact(P) /\ Fits(P, m) /\ m.drop \in BOOLEAN
  BY DEF Upright, WellFormed
<1>2. P.board \in Boards /\ P.hands \in Hands /\ P.side \in Colors
  BY <1>1, ExactIs
<1>3. /\ Cardinality(Standing(P.board, b)) \in Nat /\ Held(P.hands, b) \in Nat
      /\ \A t : One(t, b) \in Nat
  BY <1>2, CountsAreNumbers DEF One
<1>4. CASE m.drop
  <2>1. /\ Q.board = [P.board EXCEPT ![m.to] = Piece(P.side, m.piece)]
        /\ Q.hands = [P.hands EXCEPT ![P.side][m.piece] = @ - 1]
    BY <1>1, <1>4, MakeDrop
  <2>2. m.to \in Squares /\ m.piece \in HandTypes /\ P.board[m.to] = NoPiece
    BY <1>1, <1>4 DEF Fits
  <2>3. PICK t \in HandTypes : t = m.piece
    BY <2>2
  <2>4. t \in Types /\ Unpromote(t) = t
    BY UnpromotedTypes DEF Bases
  <2>5. Cardinality(Standing(Q.board, b)) = Cardinality(Standing(P.board, b)) + One(t, b)
    <3>1. Q.board = [P.board EXCEPT ![m.to] = Piece(P.side, t)]
      BY <2>1, <2>3
    <3> QED BY <1>2, <2>2, <2>4, <3>1, StandingAdd
  <2>6. [P.hands EXCEPT ![P.side][t] = @ - 1] = [P.hands EXCEPT ![P.side][t] = @ + (-1)]
    <3>1. P.hands[P.side][t] \in Nat
      BY <1>2 DEF Hands
    <3> QED BY <3>1
  <2>7. Held(Q.hands, b) = Held(P.hands, b) + (IF t = b THEN -1 ELSE 0)
    BY <1>2, <2>1, <2>3, <2>6, HeldChanges
  <2> QED BY <1>3, <2>4, <2>5, <2>7 DEF InPlay, One
<1>5. CASE ~m.drop
  <2>1. /\ Q.board = [P.board EXCEPT ![m.from] = NoPiece, ![m.to] = Piece(P.side, Landing(P, m))]
        /\ Q.hands = IF P.board[m.to] = NoPiece THEN P.hands
                     ELSE [P.hands EXCEPT ![P.side][Unpromote(P.board[m.to].type)] = @ + 1]
    BY <1>1, <1>5, MakeBoardMove
  <2>2. /\ m.to \in Squares /\ m.from \in Squares /\ P.board[m.from].color = P.side
        /\ P.board[m.to].color # P.side /\ P.board[m.to].type # "King"
        /\ m.promote => CanPromote(P.board[m.from].type)
    BY <1>1, <1>5 DEF Fits
  <2>3. m.from # m.to /\ P.board[m.from] # NoPiece /\ P.board[m.from].type \in Types
    BY <1>2, <2>2, PieceFacts DEF Boards
  <2>4. PICK t \in Types, u \in Types : t = P.board[m.from].type /\ u = Landing(P, m)
    BY <2>3, PromotionFacts DEF Landing
  <2>5. One(u, b) = One(t, b)
    BY <2>2, <2>4, UnpromotedTypes DEF One, Landing
  <2> DEFINE B == [P.board EXCEPT ![m.to] = NoPiece]
             C == [B EXCEPT ![m.from] = NoPiece]
             taken == IF P.board[m.to] = NoPiece THEN 0 ELSE One(P.board[m.to].type, b)
  <2>6. B \in Boards /\ B[m.from] = P.board[m.from] /\ B[m.to] = NoPiece
    BY <1>2, <2>2, <2>3 DEF Boards
  <2>7. Cardinality(Standing(B, b)) = Cardinality(Standing(P.board, b)) - taken
    <3>1. CASE P.board[m.to] = NoPiece
      <4>1. B = P.board
        BY <1>2, <3>1 DEF Boards
      <4> QED BY <1>3, <3>1, <4>1
    <3>2. CASE P.board[m.to] # NoPiece
      BY <1>2, <2>2, <3>2, StandingRemove
    <3> QED BY <3>1, <3>2
  <2>8. Q.board = [C EXCEPT ![m.to] = Piece(P.side, u)]
    BY <1>2, <2>1, <2>2, <2>3, <2>4 DEF Boards
  <2> HIDE DEF B
  <2>9. Cardinality(Standing(C, b)) = Cardinality(Standing(B, b)) - One(t, b)
    BY <2>2, <2>3, <2>4, <2>6, StandingRemove
  <2>10. C \in Boards /\ C[m.to] = NoPiece
    BY <2>2, <2>3, <2>6 DEF Boards
  <2> HIDE DEF C
  <2>11. Cardinality(Standing(Q.board, b)) = Cardinality(Standing(C, b)) + One(u, b)
    BY <1>2, <2>2, <2>8, <2>10, StandingAdd
  <2>12. Held(Q.hands, b) = Held(P.hands, b) + taken
    <3>1. CASE P.board[m.to] = NoPiece
      BY <1>3, <2>1, <3>1
    <3>2. CASE P.board[m.to] # NoPiece
      <4>1. P.board[m.to].type \in Types \ {"King"}
        BY <1>2, <2>2, <3>2, PieceFacts DEF Boards
      <4>2. PICK h \in HandTypes : h = Unpromote(P.board[m.to].type)
        BY <4>1, PromotionFacts
      <4>3. Held([P.hands EXCEPT ![P.side][h] = @ + 1], b) = Held(P.hands, b) + (IF h = b THEN 1 ELSE 0)
        BY <1>2, HeldChanges
      <4> QED BY <2>1, <3>2, <4>2, <4>3 DEF One
    <3> QED BY <3>1, <3>2
  <2>13. taken \in Nat
    BY <1>3
  <2> HIDE DEF taken
  <2> QED BY <1>3, <2>5, <2>7, <2>9, <2>11, <2>12, <2>13 DEF InPlay
<1> QED BY <1>1, <1>4, <1>5

(* Nor a king from the board. *)
KingStands(board) == \E c \in Colors, s \in Squares : board[s] = Piece(c, "King")

LEMMA MovesKeepKings ==
    ASSUME NEW P, Upright(P), NEW m, WellFormed(P, m), NEW Q, Q = MakeMove(P, m), KingStands(P.board)
    PROVE  KingStands(Q.board)
<1>1. Shape(P) /\ Exact(P) /\ Fits(P, m) /\ m.drop \in BOOLEAN
  BY DEF Upright, WellFormed
<1>2. P.board \in Boards /\ P.side \in Colors
  BY <1>1, ExactIs
<1>3. PICK c \in Colors, s \in Squares : P.board[s] = Piece(c, "King")
  BY DEF KingStands
<1>4. P.board[s] # NoPiece /\ P.board[s].type = "King" /\ P.board[s].color = c
  BY <1>3, PieceFacts
<1>5. CASE m.drop
  <2>1. Q.board = [P.board EXCEPT ![m.to] = Piece(P.side, m.piece)] /\ P.board[m.to] = NoPiece
    BY <1>1, <1>5, MakeDrop DEF Fits
  <2>2. Q.board[s] = Piece(c, "King")
    BY <1>2, <1>3, <1>4, <2>1 DEF Boards
  <2> QED BY <2>2 DEF KingStands
<1>6. CASE ~m.drop
  <2>1. /\ Q.board = [P.board EXCEPT ![m.from] = NoPiece, ![m.to] = Piece(P.side, Landing(P, m))]
        /\ m.to \in Squares /\ m.from \in Squares /\ P.board[m.from].color = P.side
        /\ P.board[m.to].type # "King" /\ (m.promote => CanPromote(P.board[m.from].type))
    BY <1>1, <1>6, MakeBoardMove DEF Fits
  <2>2. CASE s = m.from
    <3>1. Landing(P, m) = "King" /\ P.side = c
      BY <1>4, <2>1, <2>2, LetterTypes DEF Landing
    <3>2. Q.board[m.to] = Piece(c, "King")
      BY <1>2, <2>1, <3>1 DEF Boards
    <3> QED BY <2>1, <3>2 DEF KingStands
  <2>3. CASE s # m.from
    <3>1. Q.board[s] = Piece(c, "King")
      BY <1>2, <1>3, <1>4, <2>1, <2>3 DEF Boards
    <3> QED BY <3>1 DEF KingStands
  <2> QED BY <2>2, <2>3
<1> QED BY <1>1, <1>5, <1>6

-----------------------------------------------------------------------------
(* What set_sfen counts while it reads. *)

(* Every piece read is counted, and never more of a kind than there may be. *)
Counts(r) ==
    /\ r.totals \in [Bases -> Nat]
    /\ \A b \in Bases : r.totals[b] = InPlay(r.P.board, r.P.hands, b) /\ r.totals[b] <= PieceLimits[b]

(* The square and the type that a letter stands for, and when it is refused. *)
NextSquare(r) == r.row * Cols + r.col
ReadType(r, t) == IF r.promoted THEN Promote(t) ELSE t
Refuses(r, c, t) ==
    \/ r.col >= Cols \/ r.row >= Rows
    \/ TooMany(r, t, 1)
    \/ r.promoted /\ ~CanPromote(t)
    \/ t = "King" /\ r.P.king[c] # NoSquare

(* What a letter of the board does. *)
Placed(r, q, c, t) ==
    /\ NextSquare(r) \in Squares /\ r.P.board[NextSquare(r)] = NoPiece
    /\ ReadType(r, t) \in Types /\ Unpromote(ReadType(r, t)) = t
    /\ q.P.board = [r.P.board EXCEPT ![NextSquare(r)] = Piece(c, ReadType(r, t))]
    /\ q.P.hands = r.P.hands /\ q.P.side = r.P.side /\ q.P.ply = r.P.ply
    /\ q.totals = [r.totals EXCEPT ![t] = @ + 1]
    /\ q.ok = r.ok /\ q.row = r.row /\ q.col = r.col + 1 /\ q.promoted = FALSE /\ q.count = r.count

LEMMA RefusedKeeps ==
    ASSUME NEW r, Reader(r)
    PROVE  Refused(r).P = r.P /\ Refused(r).totals = r.totals /\ Refused(r).ok = FALSE
BY DEF Refused, Reader, ReaderFields

LEMMA NextIsEmpty ==
    ASSUME NEW r, Reads(r), r.col < Cols
    PROVE  NextSquare(r) \in Squares /\ r.P.board[NextSquare(r)] = NoPiece
<1>1. Cols \in Nat /\ Rows \in Nat /\ r.row \in Nat /\ r.col \in Nat /\ r.row <= Rows - 1 /\ r.col < Cols
  BY BoardAssumption DEF Reads
<1>2. r.row * Cols + r.col \in Nat /\ r.row * Cols + r.col < (r.row + 1) * Cols
  BY <1>1
<1>3. (r.row + 1) * Cols <= Rows * Cols
  BY <1>1
<1>4. Rows * Cols \in Nat /\ (r.row + 1) * Cols \in Nat
  BY <1>1
<1>5. NextSquare(r) \in Squares
  BY <1>2, <1>3, <1>4 DEF Squares, NextSquare
<1> QED BY <1>2, <1>5 DEF Reads, NextSquare

LEMMA LetterIs ==
    ASSUME NEW r, Reads(r), NEW c \in Colors, NEW t \in Bases, NEW q, q = ReadLetter(r, Letter(c, t))
    PROVE  IF Refuses(r, c, t) THEN q = Refused(r) ELSE Placed(r, q, c, t)
<1> DEFINE at == NextSquare(r)
           type == ReadType(r, t)
           p == [Counted(r, t, 1) EXCEPT !.P = AddPiece(@, at, c, type), !.col = @ + 1, !.promoted = FALSE]
<1>1. q = IF Refuses(r, c, t) THEN Refused(r) ELSE p
  BY DEF ReadLetter, Letter, Character, Piece, Refuses, NextSquare, ReadType
<1>2. ASSUME ~Refuses(r, c, t) PROVE Placed(r, p, c, t)
  <2>1. at \in Squares /\ r.P.board[at] = NoPiece
    <3>1. r.col < Cols
      BY <1>2, BoardAssumption DEF Refuses, Reads
    <3> QED BY <3>1, NextIsEmpty
  <2>2. type \in Types /\ Unpromote(type) = t
    BY <1>2, LetterTypes, UnpromotedTypes DEF Refuses, ReadType, Bases
  <2> DEFINE Q == AddPiece(r.P, at, c, type)
  <2>3. /\ Q.board = [r.P.board EXCEPT ![at] = Piece(c, type)]
        /\ Q.hands = r.P.hands /\ Q.side = r.P.side /\ Q.ply = r.P.ply
    <3>1. PieceAdded(r.P, Q, at, c, type)
      BY AddPieceFields DEF Upright, Reads
    <3> QED BY <3>1 DEF PieceAdded
  <2> HIDE DEF Q, at, type
  <2>4. /\ p.P = Q /\ p.row = r.row /\ p.col = r.col + 1 /\ p.promoted = FALSE /\ p.count = r.count
        /\ p.ok = r.ok /\ p.totals = [r.totals EXCEPT ![t] = @ + 1]
    BY DEF Reads, Counted, Reader, ReaderFields, Q
  <2> QED BY <2>1, <2>2, <2>3, <2>4 DEF Placed, at, type
<1> QED BY <1>1, <1>2

LEMMA PlacedCounts ==
    ASSUME NEW r, Reads(r), Counts(r), NEW c \in Colors, NEW t \in Bases, NEW q, Placed(r, q, c, t),
           ~TooMany(r, t, 1)
    PROVE  Counts(q)
<1>1. r.P.board \in Boards /\ r.P.hands \in Hands
  BY ExactIs DEF Reads, Upright
<1>2. q.totals \in [Bases -> Nat] /\ \A b \in Bases : q.totals[b] = r.totals[b] + (IF b = t THEN 1 ELSE 0)
  BY DEF Counts, Placed
<1>3. PICK u \in Types, s \in Squares : u = ReadType(r, t) /\ s = NextSquare(r)
  BY DEF Placed
<1>4. Unpromote(u) = t /\ r.P.board[s] = NoPiece /\ q.P.board = [r.P.board EXCEPT ![s] = Piece(c, u)]
      /\ q.P.hands = r.P.hands
  BY <1>3 DEF Placed
<1>5. ASSUME NEW b \in Bases PROVE q.totals[b] = InPlay(q.P.board, q.P.hands, b) /\ q.totals[b] <= PieceLimits[b]
  <2>1. Cardinality(Standing(q.P.board, b)) = Cardinality(Standing(r.P.board, b)) + One(u, b)
    BY <1>1, <1>4, StandingAdd
  <2>2. Cardinality(Standing(r.P.board, b)) \in Nat /\ Held(r.P.hands, b) \in Nat
    BY <1>1, CountsAreNumbers
  <2>3. r.totals[b] = InPlay(r.P.board, r.P.hands, b) /\ r.totals[b] <= PieceLimits[b] /\ r.totals[b] \in Nat
        /\ PieceLimits[b] \in Nat
    BY LimitsAssumption DEF Counts
  <2>4. b = t => r.totals[b] + 1 <= PieceLimits[b]
    BY <2>3, LimitsAssumption DEF TooMany
  <2> QED BY <1>2, <1>4, <2>1, <2>2, <2>3, <2>4 DEF InPlay, One
<1> QED BY <1>2, <1>5 DEF Counts

LEMMA BoardCounts ==
    ASSUME NEW r, Reads(r), Counts(r), NEW ch \in Characters
    PROVE  Counts(ReadBoard(r, ch))
<1> DEFINE q == ReadBoard(r, ch)
<1>0. Reader(r)
  BY DEF Reads
<1>1. CASE \E c \in Colors, t \in Bases : ch = Letter(c, t)
  <2>1. PICK c \in Colors, t \in Bases : ch = Letter(c, t)
    BY <1>1
  <2>2. q = IF r.ok THEN ReadLetter(r, ch) ELSE r
    BY <2>1 DEF ReadBoard, Letter, Character
  <2>3. PICK p : p = ReadLetter(r, Letter(c, t))
    OBVIOUS
  <2>4. IF Refuses(r, c, t) THEN p = Refused(r) ELSE Placed(r, p, c, t)
    BY <2>3, LetterIs
  <2>5. Counts(p)
    <3>1. CASE Refuses(r, c, t)
      BY <1>0, <2>4, <3>1, RefusedKeeps DEF Counts
    <3>2. CASE ~Refuses(r, c, t)
      BY <2>4, <3>2, PlacedCounts DEF Refuses
    <3> QED BY <3>1, <3>2
  <2> QED BY <2>1, <2>2, <2>3, <2>5
<1>2. CASE ch = Slash \/ ch = Plus \/ \E n \in 0 .. 9 : ch = Digit(n)
  <2>1. q.P = r.P /\ q.totals = r.totals
    <3>1. CASE ch = Slash
      BY <1>0, <3>1 DEF ReadBoard, Slash, Character, Refused, Reader, ReaderFields
    <3>2. CASE ch = Plus
      BY <1>0, <3>2 DEF ReadBoard, Plus, Character, Refused, Reader, ReaderFields
    <3>3. CASE \E n \in 0 .. 9 : ch = Digit(n)
      BY <1>0, <3>3 DEF ReadBoard, Digit, Character, Refused, Reader, ReaderFields
    <3> QED BY <1>2, <3>1, <3>2, <3>3
  <2> HIDE DEF q
  <2>2. Counts(q)
    BY <2>1 DEF Counts
  <2> QED BY <2>2 DEF q
<1> QED BY <1>1, <1>2 DEF Characters

(* What a gift changes: one count in one hand. *)
Gave(P, Q, c, t, n) ==
    /\ Q.board = P.board /\ Q.side = P.side /\ Q.ply = P.ply /\ Q.king = P.king
    /\ Q.hands = [P.hands EXCEPT ![c][t] = @ + n]

LEMMA GiveIs ==
    ASSUME NEW P, Upright(P), NEW c \in Colors, NEW t \in HandTypes, NEW n \in Nat, NEW Q, Q = Give(P, c, t, n)
    PROVE  Upright(Q) /\ Gave(P, Q, c, t, n)
<1> DEFINE of == [i \in 1 .. n |-> <<c, t>>]
<1>1. PICK r : Gifts!IsRun(r, n, P, of) /\ r[n] = Give(P, c, t, n)
  BY GiveRun
<1>2. \A i \in 1 .. n : \A R : AddTwo(R, of[i]) = AddHandPiece(R, c, t)
  <2>1. \A i \in 1 .. n : of[i] = <<c, t>>
    OBVIOUS
  <2> HIDE DEF of
  <2> QED BY <2>1 DEF AddTwo
<1> HIDE DEF of
<1> DEFINE A == {i \in Nat : i <= n => Upright(r[i]) /\ Gave(P, r[i], c, t, i)}
<1>3. 0 \in A
  <2>1. P.hands \in Hands
    BY ExactIs DEF Upright
  <2>2. P.hands[c][t] \in Nat /\ P.hands = [P.hands EXCEPT ![c][t] = @]
    BY <2>1 DEF Hands
  <2>3. [P.hands EXCEPT ![c][t] = @ + 0] = P.hands
    BY <2>2
  <2> QED BY <1>1, <2>3 DEF Gifts!IsRun, Gave
<1>4. ASSUME NEW i \in Nat, i \in A PROVE i + 1 \in A
  <2> SUFFICES ASSUME i + 1 <= n PROVE Upright(r[i + 1]) /\ Gave(P, r[i + 1], c, t, i + 1)
    OBVIOUS
  <2>1. i + 1 \in 1 .. n /\ (i + 1) - 1 = i
    OBVIOUS
  <2>2. r[i + 1] = AddHandPiece(r[i], c, t)
    BY <1>1, <1>2, <2>1 DEF Gifts!IsRun
  <2>3. Upright(r[i]) /\ Gave(P, r[i], c, t, i)
    BY <1>4
  <2>4. HandAdded(r[i], r[i + 1], c, t)
    BY <2>2, <2>3, AddHandFields DEF Upright
  <2>5. r[i + 1].hands = [P.hands EXCEPT ![c][t] = @ + (i + 1)]
    <3>1. P.hands \in Hands /\ r[i].hands = [P.hands EXCEPT ![c][t] = @ + i]
          /\ r[i + 1].hands = [r[i].hands EXCEPT ![c][t] = @ + 1]
      BY <2>3, <2>4, ExactIs DEF Upright, Gave, HandAdded
    <3>2. P.hands[c][t] \in Nat
      BY <3>1 DEF Hands
    <3>3. (P.hands[c][t] + i) + 1 = P.hands[c][t] + (i + 1)
      BY <3>2
    <3> QED BY <3>1, <3>3 DEF Hands
  <2> QED BY <2>2, <2>3, <2>4, <2>5, AddHandExact DEF Upright, Gave, HandAdded
<1> HIDE DEF A
<1>5. Nat \subseteq A
  BY <1>3, <1>4, Sums!Induction
<1>6. Upright(r[n]) /\ Gave(P, r[n], c, t, n)
  BY <1>5 DEF A
<1> QED BY <1>1, <1>6

(* How many pieces a letter of the hands stands for. *)
Copies(r) == IF r.count > 1 THEN r.count ELSE 1

(* What a letter of the hands does. *)
Handed(r, q, c, t) ==
    /\ Gave(r.P, q.P, c, t, Copies(r)) /\ Upright(q.P) /\ Reader(q)
    /\ q.totals = [r.totals EXCEPT ![t] = @ + Copies(r)]
    /\ q.ok = r.ok /\ q.row = r.row /\ q.col = r.col /\ q.promoted = r.promoted /\ q.count = 0

LEMMA HandLetterIs ==
    ASSUME NEW r, Holds(r), NEW c \in Colors, NEW t \in Bases, NEW q, q = ReadHand(r, Letter(c, t)), r.ok
    PROVE  IF t = "King" \/ TooMany(r, t, Copies(r)) THEN q = Refused(r) ELSE Handed(r, q, c, t)
<1> DEFINE n == Copies(r)
           p == [Counted(r, t, n) EXCEPT !.P = Give(@, c, t, n), !.count = 0]
<1>1. q = IF t = "King" \/ TooMany(r, t, n) THEN Refused(r) ELSE p
  BY DEF ReadHand, Letter, Character, Piece, Copies
<1>2. ASSUME t # "King" PROVE Handed(r, p, c, t)
  <2>1. n \in Nat /\ t \in HandTypes
    BY <1>2 DEF Holds, Copies, Bases
  <2> HIDE DEF n
  <2>2. PICK Q : Q = Give(r.P, c, t, n)
    OBVIOUS
  <2>3. Upright(Q) /\ Gave(r.P, Q, c, t, n)
    BY <2>1, <2>2, GiveIs DEF Holds
  <2>4. /\ Reader(p) /\ p.P = Q /\ p.row = r.row /\ p.col = r.col /\ p.promoted = r.promoted /\ p.count = 0
        /\ p.ok = r.ok /\ p.totals = [r.totals EXCEPT ![t] = @ + n]
    BY <2>2 DEF Holds, Counted, Reader, ReaderFields
  <2> HIDE DEF p
  <2> QED BY <2>3, <2>4 DEF Handed, n
<1> QED BY <1>1, <1>2

LEMMA HandedCounts ==
    ASSUME NEW r, Holds(r), Counts(r), NEW c \in Colors, NEW t \in HandTypes, NEW q, Handed(r, q, c, t),
           ~TooMany(r, t, Copies(r))
    PROVE  Counts(q)
<1>1. PICK n \in Nat : n = Copies(r)
  BY DEF Copies, Holds
<1>2. /\ r.P.hands \in Hands /\ q.P.board = r.P.board /\ q.P.hands = [r.P.hands EXCEPT ![c][t] = @ + n]
      /\ q.totals = [r.totals EXCEPT ![t] = @ + n] /\ t \in Bases
  BY <1>1, ExactIs DEF Holds, Upright, Handed, Gave, Bases
<1>3. q.totals \in [Bases -> Nat] /\ \A b \in Bases : q.totals[b] = r.totals[b] + (IF b = t THEN n ELSE 0)
  <2>1. r.totals \in [Bases -> Nat]
    BY DEF Counts
  <2>2. r.totals[t] + n \in Nat /\ \A b \in Bases : r.totals[b] \in Nat
    BY <1>2, <2>1
  <2> QED BY <1>2, <2>1, <2>2
<1>4. ASSUME NEW b \in Bases PROVE q.totals[b] = InPlay(q.P.board, q.P.hands, b) /\ q.totals[b] <= PieceLimits[b]
  <2>1. Held(q.P.hands, b) = Held(r.P.hands, b) + (IF t = b THEN n ELSE 0)
    BY <1>2, HeldChanges
  <2>2. Cardinality(Standing(r.P.board, b)) \in Nat /\ Held(r.P.hands, b) \in Nat
    BY <1>2, CountsAreNumbers
  <2>3. r.totals[b] = InPlay(r.P.board, r.P.hands, b) /\ r.totals[b] <= PieceLimits[b] /\ r.totals[b] \in Nat
        /\ PieceLimits[b] \in Nat
    BY LimitsAssumption DEF Counts
  <2>4. b = t => r.totals[b] + n <= PieceLimits[b]
    BY <1>1, <2>3, LimitsAssumption DEF TooMany
  <2> QED BY <1>2, <1>3, <2>1, <2>2, <2>3, <2>4 DEF InPlay
<1> QED BY <1>3, <1>4 DEF Counts

LEMMA HandCounts ==
    ASSUME NEW r, Holds(r), Counts(r), NEW ch \in Characters
    PROVE  Counts(ReadHand(r, ch))
<1> DEFINE q == ReadHand(r, ch)
<1>0. Reader(r)
  BY DEF Holds
<1>1. CASE r.ok /\ \E c \in Colors, t \in Bases : ch = Letter(c, t)
  <2>1. PICK c \in Colors, t \in Bases : ch = Letter(c, t)
    BY <1>1
  <2>2. PICK p : p = ReadHand(r, Letter(c, t))
    OBVIOUS
  <2>3. IF t = "King" \/ TooMany(r, t, Copies(r)) THEN p = Refused(r) ELSE Handed(r, p, c, t)
    BY <1>1, <2>2, HandLetterIs
  <2>4. Counts(p)
    <3>1. CASE t = "King" \/ TooMany(r, t, Copies(r))
      BY <1>0, <2>3, <3>1, RefusedKeeps DEF Counts
    <3>2. CASE ~(t = "King" \/ TooMany(r, t, Copies(r)))
      <4>1. t \in HandTypes
        BY <3>2 DEF Bases
      <4> QED BY <2>3, <3>2, <4>1, HandedCounts
    <3> QED BY <3>1, <3>2
  <2> QED BY <2>1, <2>2, <2>4
<1>2. CASE ~r.ok \/ ch = Slash \/ ch = Plus \/ \E n \in 0 .. 9 : ch = Digit(n)
  <2>1. q.P = r.P /\ q.totals = r.totals
    <3>1. CASE ch = Slash \/ ch = Plus \/ ~r.ok
      BY <1>0, <3>1 DEF ReadHand, Slash, Plus, Character, Refused, Reader, ReaderFields
    <3>2. CASE \E n \in 0 .. 9 : ch = Digit(n)
      BY <1>0, <3>2 DEF ReadHand, Digit, Character, Refused, Reader, ReaderFields
    <3> QED BY <1>2, <3>1, <3>2
  <2> HIDE DEF q
  <2>2. Counts(q)
    BY <2>1 DEF Counts
  <2> QED BY <2>2 DEF q
<1> QED BY <1>1, <1>2 DEF Characters

-----------------------------------------------------------------------------
(* What has been read, or reached by moves, is within the limits of set_sfen. *)

LEMMA BoardIsCounted ==
    ASSUME NEW text, text \in Seq(Characters), NEW start, Reads(start), Counts(start)
    PROVE  Reads(FoldLeft(ReadBoard, start, text)) /\ Counts(FoldLeft(ReadBoard, start, text))
<1> DEFINE n == Len(text)
<1>1. n \in Nat /\ DOMAIN text = 1 .. n /\ \A i \in 1 .. n : text[i] \in Characters
  OBVIOUS
<1>2. PICK r : BoardTexts!IsRun(r, n, start, text) /\ r[n] = FoldLeft(ReadBoard, start, text)
  BY <1>1, BoardRun
<1> HIDE DEF n
<1> DEFINE A == {i \in Nat : i <= n => Reads(r[i]) /\ Counts(r[i])}
<1>3. 0 \in A
  BY <1>2 DEF BoardTexts!IsRun
<1>4. ASSUME NEW i \in Nat, i \in A PROVE i + 1 \in A
  <2> SUFFICES ASSUME i + 1 <= n PROVE Reads(r[i + 1]) /\ Counts(r[i + 1])
    OBVIOUS
  <2>1. i + 1 \in 1 .. n /\ (i + 1) - 1 = i
    BY <1>1
  <2>2. r[i + 1] = ReadBoard(r[i], text[i + 1])
    BY <1>2, <2>1 DEF BoardTexts!IsRun
  <2>3. Reads(r[i]) /\ Counts(r[i])
    BY <1>1, <1>4
  <2> QED BY <1>1, <2>1, <2>2, <2>3, BoardReads, BoardCounts
<1> HIDE DEF A
<1>5. Nat \subseteq A
  BY <1>3, <1>4, Sums!Induction
<1>6. Reads(r[n]) /\ Counts(r[n])
  BY <1>1, <1>5 DEF A
<1> QED BY <1>2, <1>6

LEMMA HandsAreCounted ==
    ASSUME NEW text, text \in Seq(Characters), NEW start, Holds(start), Counts(start)
    PROVE  Holds(FoldLeft(ReadHand, start, text)) /\ Counts(FoldLeft(ReadHand, start, text))
<1> DEFINE n == Len(text)
<1>1. n \in Nat /\ DOMAIN text = 1 .. n /\ \A i \in 1 .. n : text[i] \in Characters
  OBVIOUS
<1>2. PICK r : HandTexts!IsRun(r, n, start, text) /\ r[n] = FoldLeft(ReadHand, start, text)
  BY <1>1, HandRun
<1> HIDE DEF n
<1> DEFINE A == {i \in Nat : i <= n => Holds(r[i]) /\ Counts(r[i])}
<1>3. 0 \in A
  BY <1>2 DEF HandTexts!IsRun
<1>4. ASSUME NEW i \in Nat, i \in A PROVE i + 1 \in A
  <2> SUFFICES ASSUME i + 1 <= n PROVE Holds(r[i + 1]) /\ Counts(r[i + 1])
    OBVIOUS
  <2>1. i + 1 \in 1 .. n /\ (i + 1) - 1 = i
    BY <1>1
  <2>2. r[i + 1] = ReadHand(r[i], text[i + 1])
    BY <1>2, <2>1 DEF HandTexts!IsRun
  <2>3. Holds(r[i]) /\ Counts(r[i])
    BY <1>1, <1>4
  <2> QED BY <1>1, <2>1, <2>2, <2>3, HandReads, HandCounts
<1> HIDE DEF A
<1>5. Nat \subseteq A
  BY <1>3, <1>4, Sums!Induction
<1>6. Holds(r[n]) /\ Counts(r[n])
  BY <1>1, <1>5 DEF A
<1> QED BY <1>2, <1>6

(* Where set_sfen starts, and what it makes of the three fields. *)
Blank == [P |-> EmptyPosition, ok |-> TRUE, row |-> 0, col |-> 0, promoted |-> FALSE,
          count |-> 0, totals |-> [type \in Bases |-> 0]]
BoardRead(text) == FoldLeft(ReadBoard, Blank, text.board)
SideRead(text) == IF text.side = "white" THEN [BoardRead(text) EXCEPT !.P = PassTurn(@)] ELSE BoardRead(text)
HandsRead(text) == FoldLeft(ReadHand, SideRead(text), text.hands)

LEMMA NothingInPlay ==
    ASSUME NEW b \in Bases
    PROVE  InPlay(EmptyPosition.board, EmptyPosition.hands, b) = 0
<1>1. EmptyPosition.board = [s \in Squares |-> NoPiece]
      /\ EmptyPosition.hands = [color \in Colors |-> [type \in HandTypes |-> 0]]
  BY DEF EmptyPosition
<1>2. Standing(EmptyPosition.board, b) = {}
  BY <1>1 DEF Standing
<1>3. Held(EmptyPosition.hands, b) = 0
  BY <1>1 DEF Held, Colors, Bases
<1> QED BY <1>2, <1>3, FS_EmptySet DEF InPlay

LEMMA BlankIsRead == Reads(Blank) /\ Counts(Blank)
<1>1. /\ Reader(Blank) /\ Blank.P = EmptyPosition /\ Blank.row = 0 /\ Blank.col = 0
      /\ Blank.promoted = FALSE /\ Blank.count = 0 /\ Blank.totals = [type \in Bases |-> 0]
  BY DEF Reader, ReaderFields, Blank
<1>2. Blank.row \in 0 .. (Rows - 1) /\ Blank.col \in 0 .. Cols
  BY <1>1, BoardAssumption
<1>3. \A s \in Squares : Blank.P.board[s] = NoPiece
  BY <1>1 DEF EmptyPosition
<1>4. Reads(Blank)
  BY <1>1, <1>2, <1>3, EmptyIsUpright DEF Reads
<1>5. Counts(Blank)
  BY <1>1, NothingInPlay, LimitsAssumption DEF Counts
<1> QED BY <1>4, <1>5

LEMMA TurnIsRead ==
    ASSUME NEW r, Reads(r), NEW q, q = [r EXCEPT !.P = PassTurn(@)]
    PROVE  /\ Holds(q) /\ (Counts(r) => Counts(q))
           /\ q.P.board = r.P.board /\ q.P.hands = r.P.hands /\ q.P.side = Opposite(r.P.side) /\ q.P.ply = r.P.ply
           /\ q.ok = r.ok /\ q.row = r.row /\ q.col = r.col /\ q.promoted = r.promoted /\ q.count = r.count
<1>1. /\ Reader(q) /\ q.P = PassTurn(r.P) /\ q.totals = r.totals
      /\ q.ok = r.ok /\ q.row = r.row /\ q.col = r.col /\ q.promoted = r.promoted /\ q.count = r.count
  BY DEF Reads, Reader, ReaderFields
<1>2. Upright(PassTurn(r.P))
  BY NullMoveKeepsPositions DEF Reads, Upright
<1>3. /\ PassTurn(r.P).board = r.P.board /\ PassTurn(r.P).hands = r.P.hands
      /\ PassTurn(r.P).side = Opposite(r.P.side) /\ PassTurn(r.P).ply = r.P.ply
  BY DEF PassTurn, Shape, Fields, Reads, Upright
<1>4. Holds(q)
  BY <1>1, <1>2 DEF Holds, Reads
<1> QED BY <1>1, <1>3, <1>4 DEF Counts

LEMMA TextIsRead ==
    ASSUME NEW text, IsText(text)
    PROVE  /\ Reads(BoardRead(text)) /\ Counts(BoardRead(text))
           /\ Holds(SideRead(text)) /\ Counts(SideRead(text))
           /\ Holds(HandsRead(text)) /\ Counts(HandsRead(text))
<1>1. Reads(BoardRead(text)) /\ Counts(BoardRead(text))
  BY BlankIsRead, BoardIsCounted DEF IsText, BoardRead
<1>2. Holds(SideRead(text)) /\ Counts(SideRead(text))
  <2>1. CASE text.side = "white"
    BY <1>1, <2>1, TurnIsRead DEF SideRead
  <2>2. CASE text.side # "white"
    BY <1>1, <2>2 DEF SideRead, Holds, Reads
  <2> QED BY <2>1, <2>2
<1>3. Holds(HandsRead(text)) /\ Counts(HandsRead(text))
  BY <1>2, HandsAreCounted DEF IsText, HandsRead
<1> QED BY <1>1, <1>2, <1>3

LEMMA SetSfenIs ==
    ASSUME NEW text, NEW tsume
    PROVE  SetSfen(text, tsume) =
             LET board == BoardRead(text)
                 hands == HandsRead(text)
                 whole == board.row = Rows - 1 /\ board.col = Cols /\ ~board.promoted
             IN IF ~hands.ok \/ ~whole \/ hands.count # 0 \/ ~HasItsKings(hands.P, tsume) \/ text.number < 1
                THEN [ok |-> FALSE, P |-> hands.P]
                ELSE [ok |-> TRUE, P |-> [hands.P EXCEPT !.ply = text.number - 1]]
BY DEF SetSfen, BoardRead, HandsRead, SideRead, Blank

(* What can be written down again: no more pieces than set_sfen accepts, a king at
   least, and a move number from one. *)
Writable(P) == Upright(P) /\ WithinLimits(P) /\ P.ply \in Nat /\ KingStands(P.board)

LEMMA KingsStand ==
    ASSUME NEW P, Exact(P)
    PROVE  KingStands(P.board) <=> \E c \in Colors : P.king[c] # NoSquare
<1>1. KingsAgree(P.board, P.king) /\ P.king \in [Colors -> Squares \cup {NoSquare}] /\ NoSquare \notin Squares
  BY ExactIs, PieceFacts
<1> QED BY <1>1 DEF KingStands, KingsAgree

LEMMA PlyOnly ==
    ASSUME NEW P, Upright(P), NEW n, NEW Q, Q = [P EXCEPT !.ply = n]
    PROVE  Q.board = P.board /\ Q.hands = P.hands /\ Q.side = P.side /\ Q.king = P.king /\ Q.ply = n
BY DEF Upright, Shape, Fields

LEMMA SetUpsAreWritable ==
    ASSUME NEW text, IsText(text), NEW tsume, SetSfen(text, tsume).ok
    PROVE  Writable(SetSfen(text, tsume).P)
<1>1. PICK r : r = HandsRead(text)
  OBVIOUS
<1>2. Holds(r) /\ Counts(r)
  BY <1>1, TextIsRead
<1>3. PICK P : P = [r.P EXCEPT !.ply = text.number - 1]
  OBVIOUS
<1>4. SetSfen(text, tsume).P = P /\ HasItsKings(r.P, tsume) /\ ~(text.number < 1)
  BY <1>1, <1>3, SetSfenIs
<1>5. text.number - 1 \in Nat
  BY <1>4 DEF IsText
<1>6. Upright(P)
  BY <1>2, <1>3, <1>5, PlySet DEF Holds
<1>7. P.board = r.P.board /\ P.hands = r.P.hands /\ P.king = r.P.king /\ P.ply = text.number - 1
  BY <1>2, <1>3, PlyOnly DEF Holds
<1>8. KingStands(P.board)
  <2>1. \E c \in Colors : P.king[c] # NoSquare
    BY <1>4, <1>7 DEF HasItsKings, Colors
  <2> QED BY <1>6, <2>1, KingsStand DEF Upright
<1>9. WithinLimits(P)
  BY <1>2, <1>7 DEF Counts, WithinLimits
<1> QED BY <1>4, <1>5, <1>6, <1>7, <1>8, <1>9 DEF Writable

LEMMA MovesStayWritable ==
    ASSUME NEW P, Writable(P), Sound(P), NEW m \in LegalMoves(P)
    PROVE  Writable(MakeMove(P, m))
<1>1. PICK Q : Q = MakeMove(P, m)
  OBVIOUS
<1>2. Shape(Q) /\ Exact(Q)
  BY <1>1, LegalMovesKeepPositionsSound DEF Sound
<1>3. WellFormed(P, m)
  BY GeneratedMovesFit DEF LegalMoves, Sound
<1>4. Q.ply = P.ply + 1
  <2>1. Shape(P) /\ Exact(P) /\ Fits(P, m)
    BY <1>3 DEF Sound, WellFormed
  <2>2. CASE m.drop
    BY <1>1, <2>1, <2>2, MakeDrop
  <2>3. CASE ~m.drop
    BY <1>1, <2>1, <2>3, MakeBoardMove
  <2> QED BY <2>2, <2>3
<1>5. KingStands(Q.board)
  BY <1>1, <1>3, MovesKeepKings DEF Writable
<1>6. WithinLimits(Q)
  BY <1>1, <1>3, MovesKeepPiecesInPlay DEF Writable, WithinLimits
<1>7. Writable(Q)
  BY <1>2, <1>4, <1>5, <1>6 DEF Writable, Upright
<1> QED BY <1>1, <1>7

LEMMA PassesStayWritable ==
    ASSUME NEW P, Writable(P)
    PROVE  Writable(PassTurn(P))
<1>1. Upright(PassTurn(P))
  BY NullMoveKeepsPositions DEF Writable, Upright
<1>2. /\ PassTurn(P).board = P.board /\ PassTurn(P).hands = P.hands /\ PassTurn(P).ply = P.ply
  BY DEF PassTurn, Writable, Upright, Shape, Fields
<1> QED BY <1>1, <1>2 DEF Writable, WithinLimits

(* In every position of a game there are no more pieces of a kind than set_sfen
   accepts, at least one king, and a move number that can be written. *)
THEOREM GamesAreWritable == Spec => []Writable(pos)
<1>1. Init => Writable(pos)
  BY GameAssumption, SetUpsAreWritable DEF Init
<1>2. ASSUME GameInv, Writable(pos), [Next]_vars PROVE Writable(pos)'
  <2>1. CASE \E m \in LegalMoves(pos) : DoMove(m)
    BY <1>2, <2>1, MovesStayWritable DEF DoMove, GameInv
  <2>2. CASE NullMove
    BY <1>2, <2>2, PassesStayWritable DEF NullMove
  <2>3. CASE UNCHANGED vars
    BY <1>2, <2>3 DEF vars
  <2> QED BY <1>2, <2>1, <2>2, <2>3 DEF Next
<1> QED BY <1>1, <1>2, GamesAreSound, PTL DEF Spec

-----------------------------------------------------------------------------
(* Texts that are put together of parts, and read part by part. *)

(* The folds that write. *)
Join(s, t) == s \o t
Texts == INSTANCE FoldTheorems WITH Step <- Join
RowTexts == INSTANCE FoldTheorems WITH Step <- WriteSquare

(* The characters to_sfen writes; a digit of its is as large as the board is wide. *)
Marks == Characters \cup {Digit(n) : n \in Nat}

LEMMA NoneRead ==
    ASSUME NEW r
    PROVE  FoldLeft(ReadBoard, r, <<>>) = r
<1>1. 0 \in Nat /\ DOMAIN <<>> = 1 .. 0
  OBVIOUS
<1>2. PICK a : BoardTexts!IsRun(a, 0, r, <<>>) /\ a[0] = FoldLeft(ReadBoard, r, <<>>)
  BY <1>1, BoardRun
<1> QED BY <1>1, <1>2 DEF BoardTexts!IsRun

LEMMA OneRead ==
    ASSUME NEW r, NEW x
    PROVE  FoldLeft(ReadBoard, r, <<x>>) = ReadBoard(r, x)
<1>1. 1 \in Nat /\ DOMAIN <<x>> = 1 .. 1 /\ 1 \in 1 .. 1 /\ <<x>>[1] = x /\ 1 - 1 = 0
  OBVIOUS
<1>2. PICK a : BoardTexts!IsRun(a, 1, r, <<x>>) /\ a[1] = FoldLeft(ReadBoard, r, <<x>>)
  BY <1>1, BoardRun
<1> QED BY <1>1, <1>2 DEF BoardTexts!IsRun

LEMMA NoneHanded ==
    ASSUME NEW r
    PROVE  FoldLeft(ReadHand, r, <<>>) = r
<1>1. 0 \in Nat /\ DOMAIN <<>> = 1 .. 0
  OBVIOUS
<1>2. PICK a : HandTexts!IsRun(a, 0, r, <<>>) /\ a[0] = FoldLeft(ReadHand, r, <<>>)
  BY <1>1, HandRun
<1> QED BY <1>1, <1>2 DEF HandTexts!IsRun

LEMMA OneHanded ==
    ASSUME NEW r, NEW x
    PROVE  FoldLeft(ReadHand, r, <<x>>) = ReadHand(r, x)
<1>1. 1 \in Nat /\ DOMAIN <<x>> = 1 .. 1 /\ 1 \in 1 .. 1 /\ <<x>>[1] = x /\ 1 - 1 = 0
  OBVIOUS
<1>2. PICK a : HandTexts!IsRun(a, 1, r, <<x>>) /\ a[1] = FoldLeft(ReadHand, r, <<x>>)
  BY <1>1, HandRun
<1> QED BY <1>1, <1>2 DEF HandTexts!IsRun

(* A text of two characters, and where reading a text of the hands ends. *)
IsPair(text, x, y) == text = <<x, y>>
HandsAfter(r, text, q) == q = FoldLeft(ReadHand, r, text)

LEMMA TwoHanded ==
    ASSUME NEW r, NEW x, NEW y, NEW text, IsPair(text, x, y), NEW q, HandsAfter(r, text, q)
    PROVE  q = ReadHand(ReadHand(r, x), y)
<1>0. text = <<x, y>>
  BY DEF IsPair
<1>1. /\ 2 \in Nat /\ DOMAIN <<x, y>> = 1 .. 2 /\ 1 \in 1 .. 2 /\ 2 \in 1 .. 2 /\ <<x, y>>[1] = x /\ <<x, y>>[2] = y
      /\ 1 - 1 = 0 /\ 2 - 1 = 1
  OBVIOUS
<1>2. PICK a : HandTexts!IsRun(a, 2, r, <<x, y>>) /\ a[2] = FoldLeft(ReadHand, r, <<x, y>>)
  BY <1>1, HandRun
<1> QED BY <1>0, <1>1, <1>2 DEF HandTexts!IsRun, HandsAfter

LEMMA Concatenation ==
    ASSUME NEW S, NEW s \in Seq(S), NEW t \in Seq(S)
    PROVE  /\ s \o t \in Seq(S) /\ Len(s) \in Nat /\ Len(t) \in Nat
           /\ DOMAIN (s \o t) = 1 .. (Len(s) + Len(t))
           /\ DOMAIN s = 1 .. Len(s) /\ DOMAIN t = 1 .. Len(t)
           /\ \A i \in 1 .. Len(s) : (s \o t)[i] = s[i]
           /\ \A i \in 1 .. Len(t) : (s \o t)[Len(s) + i] = t[i]
OBVIOUS

LEMMA BoardInParts ==
    ASSUME NEW r, NEW s \in Seq(Marks), NEW t \in Seq(Marks), NEW q, q = FoldLeft(ReadBoard, r, s)
    PROVE  FoldLeft(ReadBoard, r, s \o t) = FoldLeft(ReadBoard, q, t)
<1> DEFINE n == Len(s)
           m == Len(t)
           k == n + m
           st == s \o t
<1>1. /\ n \in Nat /\ m \in Nat /\ k \in Nat /\ k = n + m /\ DOMAIN s = 1 .. n /\ DOMAIN t = 1 .. m /\ DOMAIN st = 1 .. k
      /\ (\A i \in 1 .. n : st[i] = s[i]) /\ \A i \in 1 .. m : st[n + i] = t[i]
  BY Concatenation
<1> HIDE DEF n, m, k, st
<1>2. PICK a : BoardTexts!IsRun(a, k, r, st) /\ a[k] = FoldLeft(ReadBoard, r, st)
  BY <1>1, BoardRun
<1>3. PICK b : BoardTexts!IsRun(b, n, r, s) /\ b[n] = q
  BY <1>1, BoardRun
<1>4. PICK c : BoardTexts!IsRun(c, m, q, t) /\ c[m] = FoldLeft(ReadBoard, q, t)
  BY <1>1, BoardRun
<1>5. a[k] = c[m]
  <2>1. BoardTexts!IsRun(c, m, b[n], t)
    BY <1>3, <1>4
  <2>2. BoardTexts!IsLength(k, n, m)
    BY <1>1 DEF BoardTexts!IsLength
  <2> QED BY <1>1, <1>2, <1>3, <2>1, <2>2, BoardTexts!RunsJoin
<1> QED BY <1>2, <1>4, <1>5 DEF st

LEMMA HandsInParts ==
    ASSUME NEW r, NEW s \in Seq(Marks), NEW t \in Seq(Marks), NEW q, q = FoldLeft(ReadHand, r, s)
    PROVE  FoldLeft(ReadHand, r, s \o t) = FoldLeft(ReadHand, q, t)
<1> DEFINE n == Len(s)
           m == Len(t)
           k == n + m
           st == s \o t
<1>1. /\ n \in Nat /\ m \in Nat /\ k \in Nat /\ k = n + m /\ DOMAIN s = 1 .. n /\ DOMAIN t = 1 .. m /\ DOMAIN st = 1 .. k
      /\ (\A i \in 1 .. n : st[i] = s[i]) /\ \A i \in 1 .. m : st[n + i] = t[i]
  BY Concatenation
<1> HIDE DEF n, m, k, st
<1>2. PICK a : HandTexts!IsRun(a, k, r, st) /\ a[k] = FoldLeft(ReadHand, r, st)
  BY <1>1, HandRun
<1>3. PICK b : HandTexts!IsRun(b, n, r, s) /\ b[n] = q
  BY <1>1, HandRun
<1>4. PICK c : HandTexts!IsRun(c, m, q, t) /\ c[m] = FoldLeft(ReadHand, q, t)
  BY <1>1, HandRun
<1>5. a[k] = c[m]
  <2>1. HandTexts!IsRun(c, m, b[n], t)
    BY <1>3, <1>4
  <2>2. HandTexts!IsLength(k, n, m)
    BY <1>1 DEF HandTexts!IsLength
  <2> QED BY <1>1, <1>2, <1>3, <2>1, <2>2, HandTexts!RunsJoin
<1> QED BY <1>2, <1>4, <1>5 DEF st

(* A text put together of parts, one after another. *)
Flat(f, seqs, n) == f[1] = seqs[1] /\ \A i \in 2 .. n : f[i] = Join(f[i - 1], seqs[i])

LEMMA Flattened ==
    ASSUME NEW S, NEW T, NEW seqs \in Seq(T), seqs[1] \in Seq(S), NEW n \in Nat, n = Len(seqs), n > 0
    PROVE  \E f : Flat(f, seqs, n) /\ FlattenSeq(seqs) = f[n]
<1> DEFINE IsIt(f) == f = [i \in 1 .. n |-> IF i = 1 THEN seqs[i] ELSE Join(f[i - 1], seqs[i])]
           it == CHOOSE f : IsIt(f)
<1>1. PICK r : DOMAIN r = 0 .. n /\ Texts!IsRun(r, n, <<>>, seqs)
  BY Texts!RunExists
<1> DEFINE h == [i \in 1 .. n |-> r[i]]
<1>2. h = [i \in 1 .. n |-> h[i]] /\ \A i \in 1 .. n : h[i] = r[i]
  OBVIOUS
<1> HIDE DEF h
<1>3. r[1] = seqs[1]
  <2>1. 1 \in 1 .. n /\ 1 - 1 = 0 /\ seqs[1] \in Seq(S)
    OBVIOUS
  <2>2. r[1] = Join(<<>>, seqs[1])
    BY <1>1, <2>1 DEF Texts!IsRun
  <2>3. <<>> \o seqs[1] = seqs[1]
    BY <2>1
  <2> QED BY <2>2, <2>3 DEF Join
<1>4. ASSUME NEW i \in 1 .. n PROVE h[i] = IF i = 1 THEN seqs[i] ELSE Join(h[i - 1], seqs[i])
  <2>1. r[i] = Join(r[i - 1], seqs[i])
    BY <1>1 DEF Texts!IsRun
  <2>2. i # 1 => i - 1 \in 1 .. n
    OBVIOUS
  <2> QED BY <1>2, <1>3, <2>1, <2>2
<1>5. IsIt(h)
  BY <1>2, <1>4
<1>6. FlattenSeq(seqs) = it[n]
  BY DEF FlattenSeq, Join
<1>7. IsIt(it)
  <2> HIDE DEF IsIt
  <2> QED BY <1>5
<1> HIDE DEF it
<1>8. \A i \in 1 .. n : it[i] = IF i = 1 THEN seqs[i] ELSE Join(it[i - 1], seqs[i])
  BY <1>7
<1>9. 1 \in 1 .. n /\ \A i \in 2 .. n : i \in 1 .. n /\ i # 1
  OBVIOUS
<1> HIDE DEF IsIt
<1>10. Flat(it, seqs, n)
  BY <1>8, <1>9 DEF Flat
<1> QED BY <1>6, <1>10

LEMMA RowRun ==
    ASSUME NEW seq, NEW n \in Nat, DOMAIN seq = 1 .. n, NEW base
    PROVE  \E r : RowTexts!IsRun(r, n, base, seq) /\ r[n] = FoldLeft(WriteSquare, base, seq)
<1>1. FoldLeft(WriteSquare, base, seq) = RowTexts!Fold(base, seq)
  BY DEF RowTexts!Fold, RowTexts!Greatest, FoldLeft, MapThenFoldSet, Max
<1> QED BY <1>1, RowTexts!FoldRuns

-----------------------------------------------------------------------------
(* What to_sfen writes of a square, and what set_sfen makes of it. *)

(* How far the text of P has been read: the squares before column k of a row. *)
Upto(r, P, row, k) ==
    /\ Reads(r) /\ Counts(r) /\ r.ok = TRUE /\ r.promoted = FALSE /\ r.row = row /\ r.col = k
    /\ r.P.hands = EmptyPosition.hands /\ r.P.side = "black" /\ r.P.ply = 0
    /\ \A s \in Squares : r.P.board[s] = IF s < row * Cols + k THEN P.board[s] ELSE NoPiece

(* Column k of a row and the n - 1 after it are empty. *)
EmptyFrom(P, row, k, n) ==
    \A s \in Squares : row * Cols + k <= s /\ s < row * Cols + k + n => P.board[s] = NoPiece

LEMMA GapReads ==
    ASSUME NEW P, NEW row \in 0 .. (Rows - 1), NEW k \in Nat, NEW n \in Nat, k + n <= Cols,
           NEW r, Upto(r, P, row, k), EmptyFrom(P, row, k, n),
           NEW q, q = FoldLeft(ReadBoard, r, Gap(n))
    PROVE  Upto(q, P, row, k + n)
<1>1. CASE n = 0
  <2>1. q = r
    BY <1>1, NoneRead DEF Gap
  <2> QED BY <1>1, <2>1
<1>2. CASE n > 0
  <2>1. q = ReadBoard(r, Digit(n))
    BY <1>2, OneRead DEF Gap
  <2>2. q = [r EXCEPT !.col = @ + n]
    <3>1. ReadBoard(r, Digit(n)) = IF r.promoted \/ n = 0 \/ r.col + n > Cols THEN Refused(r)
                                   ELSE [r EXCEPT !.col = @ + n]
      BY DEF ReadBoard, Digit, Character, Upto
    <3>2. r.promoted = FALSE /\ n # 0 /\ ~(r.col + n > Cols)
      BY <1>2, BoardAssumption DEF Upto
    <3> QED BY <2>1, <3>1, <3>2
  <2>3. /\ Reader(q) /\ q.P = r.P /\ q.row = r.row /\ q.col = r.col + n /\ q.promoted = r.promoted
        /\ q.count = r.count /\ q.ok = r.ok /\ q.totals = r.totals
    BY <2>2 DEF Reader, ReaderFields, Upto, Reads
  <2>4. row * Cols \in Nat /\ Cols \in Nat /\ k + n \in 0 .. Cols /\ \A s \in Squares : s \in Int
    BY BoardAssumption DEF Squares
  <2>5. \A s \in Squares : q.P.board[s] = IF s < row * Cols + (k + n) THEN P.board[s] ELSE NoPiece
    <3> SUFFICES ASSUME NEW s \in Squares
                 PROVE  q.P.board[s] = IF s < row * Cols + (k + n) THEN P.board[s] ELSE NoPiece
      OBVIOUS
    <3>1. r.P.board[s] = IF s < row * Cols + k THEN P.board[s] ELSE NoPiece
      BY DEF Upto
    <3>2. row * Cols + k <= s /\ s < row * Cols + k + n => P.board[s] = NoPiece
      BY DEF EmptyFrom
    <3> QED BY <2>3, <2>4, <3>1, <3>2
  <2>6. \A s \in Squares : s >= q.row * Cols + q.col => q.P.board[s] = NoPiece
    BY <2>3, <2>4, <2>5 DEF Upto
  <2>7. Reads(q)
    BY <2>3, <2>4, <2>6 DEF Upto, Reads
  <2>8. Counts(q)
    BY <2>3 DEF Upto, Counts
  <2> QED BY <2>3, <2>5, <2>7, <2>8 DEF Upto
<1> QED BY <1>1, <1>2

LEMMA SquareAt ==
    ASSUME NEW row \in 0 .. (Rows - 1), NEW k \in Nat, k < Cols
    PROVE  row * Cols + k \in Squares
<1>1. Cols \in Nat /\ Rows \in Nat /\ row \in Nat /\ row <= Rows - 1
  BY BoardAssumption
<1>2. row * Cols + k \in Nat /\ row * Cols + k < (row + 1) * Cols
  BY <1>1
<1>3. (row + 1) * Cols <= Rows * Cols
  BY <1>1
<1>4. Rows * Cols \in Nat /\ (row + 1) * Cols \in Nat
  BY <1>1
<1> QED BY <1>2, <1>3, <1>4 DEF Squares

LEMMA LettersOf ==
    ASSUME NEW t \in Types, NEW b, b = Unpromote(t)
    PROVE  b \in Bases /\ (b # t => CanPromote(b) /\ Promote(b) = t)
<1>1. b \in Bases
  BY UnpromotedTypes
<1>2. ASSUME b # t PROVE CanPromote(b) /\ Promote(b) = t
  <2>1. \E u \in DOMAIN PromotedForm : PromotedForm[u] = t
    BY <1>2 DEF Unpromote
  <2>2. b \in DOMAIN PromotedForm /\ PromotedForm[b] = t
    BY <2>1 DEF Unpromote
  <2> QED BY <2>2 DEF CanPromote, Promote
<1> QED BY <1>1, <1>2

(* There is room for the next piece of P. *)
LEMMA NotTooMany ==
    ASSUME NEW P, Writable(P), NEW row \in 0 .. (Rows - 1), NEW k \in Nat, k < Cols,
           NEW r, Upto(r, P, row, k), NEW s, s = row * Cols + k, P.board[s] # NoPiece,
           NEW b, b = Unpromote(P.board[s].type), b \in Bases
    PROVE  ~TooMany(r, b, 1)
<1>1. s \in Squares /\ s \in Int
  BY SquareAt DEF Squares
<1>2. P.board \in Boards /\ P.hands \in Hands
  BY ExactIs DEF Writable, Upright
<1>3. Standing(r.P.board, b) \cup {s} \subseteq Standing(P.board, b) /\ s \notin Standing(r.P.board, b)
  BY <1>1 DEF Standing, Upto
<1>4. Cardinality(Standing(r.P.board, b) \cup {s}) = Cardinality(Standing(r.P.board, b)) + 1
  BY <1>3, SquaresFinite, FS_AddElement DEF Standing
<1>5. Cardinality(Standing(r.P.board, b) \cup {s}) <= Cardinality(Standing(P.board, b))
  BY <1>2, <1>3, CountsAreNumbers, FS_Subset
<1>6. Held(r.P.hands, b) = 0
  BY DEF Upto, Held, EmptyPosition, Bases, Colors
<1>7. /\ Cardinality(Standing(r.P.board, b)) \in Nat /\ Cardinality(Standing(P.board, b)) \in Nat
      /\ Held(P.hands, b) \in Nat
  BY <1>2, SquaresFinite, FS_CardinalityType, CountsAreNumbers DEF Standing
<1>8. r.totals[b] = Cardinality(Standing(r.P.board, b))
  BY <1>6, <1>7 DEF Upto, Counts, InPlay
<1>9. InPlay(P.board, P.hands, b) <= PieceLimits[b] /\ PieceLimits[b] \in Nat
  BY LimitsAssumption DEF Writable, WithinLimits
<1> QED BY <1>4, <1>5, <1>7, <1>8, <1>9 DEF TooMany, InPlay

(* A king is the first of its color. *)
LEMMA NoKingYet ==
    ASSUME NEW P, Writable(P), NEW row \in 0 .. (Rows - 1), NEW k \in Nat, k < Cols,
           NEW r, Upto(r, P, row, k), NEW s, s = row * Cols + k,
           NEW c \in Colors, P.board[s] = Piece(c, "King")
    PROVE  r.P.king[c] = NoSquare
<1> SUFFICES ASSUME r.P.king[c] # NoSquare PROVE FALSE
  OBVIOUS
<1>1. s \in Squares /\ s \in Int
  BY SquareAt DEF Squares
<1>2. r.P.king \in [Colors -> Squares \cup {NoSquare}] /\ KingsAgree(r.P.board, r.P.king)
      /\ KingsAgree(P.board, P.king)
  BY ExactIs DEF Writable, Upright, Upto, Reads
<1>3. PICK x \in Squares : r.P.king[c] = x
  BY <1>2
<1>4. r.P.board[x] = Piece(c, "King")
  BY <1>2, <1>3 DEF KingsAgree
<1>5. Piece(c, "King") # NoPiece
  BY PieceFacts
<1>6. x < s /\ P.board[x] = Piece(c, "King") /\ x \in Int
  BY <1>4, <1>5 DEF Upto, Squares
<1>7. P.king[c] = x /\ P.king[c] = s
  BY <1>1, <1>2, <1>6 DEF KingsAgree
<1> QED BY <1>1, <1>6, <1>7

LEMMA PieceReads ==
    ASSUME NEW P, Writable(P), NEW row \in 0 .. (Rows - 1), NEW k \in Nat, k < Cols,
           NEW r, Upto(r, P, row, k), NEW s, s = row * Cols + k, P.board[s] # NoPiece,
           NEW q, q = FoldLeft(ReadBoard, r, PieceText(P.board[s]))
    PROVE  Upto(q, P, row, k + 1)
<1>1. s \in Squares /\ P.board \in Boards
  BY SquareAt, ExactIs DEF Writable, Upright
<1>2. PICK c \in Colors, t \in Types : P.board[s] = Piece(c, t)
  BY <1>1, PieceFacts DEF Boards
<1>3. P.board[s].color = c /\ P.board[s].type = t
  BY <1>2, PieceFacts
<1>4. PICK b : b = Unpromote(t)
  OBVIOUS
<1>5. b \in Bases /\ (b # t => CanPromote(b) /\ Promote(b) = t)
  BY <1>4, LettersOf
<1>6. PICK p : p = IF b # t THEN ReadBoard(r, Plus) ELSE r
  OBVIOUS
<1>7. q = ReadBoard(p, Letter(c, b))
  <2>1. CASE b # t
    <3>1. PieceText(P.board[s]) = <<Plus>> \o <<Letter(c, b)>>
      BY <1>3, <1>4, <2>1 DEF PieceText
    <3>2. <<Plus>> \in Seq(Marks) /\ <<Letter(c, b)>> \in Seq(Marks)
      BY <1>5 DEF Marks, Characters
    <3>3. p = FoldLeft(ReadBoard, r, <<Plus>>)
      BY <1>6, <2>1, OneRead
    <3>4. q = FoldLeft(ReadBoard, p, <<Letter(c, b)>>)
      BY <3>1, <3>2, <3>3, BoardInParts
    <3> QED BY <3>4, OneRead
  <2>2. CASE b = t
    <3>1. PieceText(P.board[s]) = <<>> \o <<Letter(c, b)>>
      BY <1>3, <1>4, <2>2 DEF PieceText
    <3>2. <<>> \o <<Letter(c, b)>> = <<Letter(c, b)>>
      OBVIOUS
    <3> QED BY <1>6, <2>2, <3>1, <3>2, OneRead
  <2> QED BY <2>1, <2>2
<1>8. /\ p.P = r.P /\ p.ok = TRUE /\ p.promoted = (b # t) /\ p.row = row /\ p.col = k /\ p.totals = r.totals
      /\ Reads(p) /\ Counts(p)
  <2>1. CASE b # t
    <3>1. p = [r EXCEPT !.promoted = TRUE]
      BY <1>6, <2>1 DEF ReadBoard, Plus, Character, Upto
    <3>2. /\ Reader(p) /\ p.P = r.P /\ p.ok = r.ok /\ p.promoted = TRUE /\ p.row = r.row /\ p.col = r.col
          /\ p.totals = r.totals /\ p.count = r.count
      BY <3>1 DEF Upto, Reads, Reader, ReaderFields
    <3> QED BY <2>1, <3>2, ZenonT(60) DEF Upto, Reads, Counts
  <2>2. CASE b = t
    BY <1>6, <2>2 DEF Upto
  <2> QED BY <2>1, <2>2
<1>9. q = ReadLetter(p, Letter(c, b))
  BY <1>7, <1>8 DEF ReadBoard, Letter, Character
<1>10. ~TooMany(p, b, 1)
  <2>1. ~TooMany(r, b, 1)
    BY <1>3, <1>4, <1>5, NotTooMany
  <2> QED BY <1>8, <2>1 DEF TooMany
<1>11. ~Refuses(p, c, b)
  <2>1. b = "King" => r.P.king[c] = NoSquare
    <3>1. b = "King" => b = t
      BY <1>5, LetterTypes
    <3> QED BY <1>2, <3>1, NoKingYet
  <2>2. ~(k >= Cols) /\ ~(row >= Rows)
    BY BoardAssumption
  <2> QED BY <1>5, <1>8, <1>10, <2>1, <2>2 DEF Refuses
<1>12. Placed(p, q, c, b)
  BY <1>5, <1>8, <1>9, <1>11, LetterIs
<1>13. NextSquare(p) = s /\ ReadType(p, b) = t
  BY <1>5, <1>8 DEF NextSquare, ReadType
<1>14. /\ q.P.board = [r.P.board EXCEPT ![s] = Piece(c, t)] /\ q.P.hands = r.P.hands /\ q.P.side = r.P.side
       /\ q.P.ply = r.P.ply /\ q.ok = TRUE /\ q.row = row /\ q.col = k + 1 /\ q.promoted = FALSE
  BY <1>8, <1>12, <1>13 DEF Placed
<1>15. Reads(q) /\ Counts(q)
  BY <1>5, <1>8, <1>9, <1>10, <1>12, LetterReads, PlacedCounts
<1>16. ASSUME NEW x \in Squares
       PROVE  q.P.board[x] = IF x < row * Cols + (k + 1) THEN P.board[x] ELSE NoPiece
  <2>1. r.P.board \in Boards
    BY ExactIs DEF Upto, Reads, Upright
  <2>2. q.P.board[x] = IF x = s THEN Piece(c, t) ELSE r.P.board[x]
    BY <1>1, <1>14, <2>1 DEF Boards
  <2>3. r.P.board[x] = IF x < s THEN P.board[x] ELSE NoPiece
    BY DEF Upto
  <2>4. x \in Int /\ s \in Int /\ row * Cols + (k + 1) = s + 1
    BY <1>1, BoardAssumption DEF Squares
  <2> QED BY <1>2, <2>2, <2>3, <2>4
<1> QED BY <1>14, <1>15, <1>16 DEF Upto

-----------------------------------------------------------------------------
(* A row, as it is written and as it is read. *)

LEMMA WrittenMarks ==
    /\ \A n \in Nat : Gap(n) \in Seq(Marks)
    /\ \A piece \in PieceSet : PieceText(piece) \in Seq(Marks)
    /\ <<Slash>> \in Seq(Marks) /\ <<>> \in Seq(Marks)
<1>1. \A n \in Nat : Digit(n) \in Marks
  BY DEF Marks
<1>2. Slash \in Marks /\ Plus \in Marks /\ \A c \in Colors, b \in Bases : Letter(c, b) \in Marks
  BY DEF Marks, Characters
<1>3. \A n \in Nat : Gap(n) \in Seq(Marks)
  BY <1>1 DEF Gap
<1>4. ASSUME NEW piece \in PieceSet PROVE PieceText(piece) \in Seq(Marks)
  <2>1. piece.color \in Colors /\ piece.type \in Types
    BY PieceFacts
  <2>2. Unpromote(piece.type) \in Bases
    BY <2>1, UnpromotedTypes
  <2>3. Letter(piece.color, Unpromote(piece.type)) \in Marks
    BY <1>2, <2>1, <2>2
  <2>4. \A a \in Seq(Marks), x \in Seq(Marks) : a \o x \in Seq(Marks)
    BY Concatenation
  <2>5. <<Plus>> \in Seq(Marks) /\ <<>> \in Seq(Marks) /\ <<Letter(piece.color, Unpromote(piece.type))>> \in Seq(Marks)
    BY <1>2, <2>3
  <2> QED BY <2>4, <2>5 DEF PieceText
<1> QED BY <1>2, <1>3, <1>4

(* The first squares of a row, written: an empty one is told only when a piece or
   the end of the row follows. *)
Wrote(P, row, r, w, c) ==
    /\ w.text \in Seq(Marks) /\ w.empty \in 0 .. c
    /\ Upto(FoldLeft(ReadBoard, r, w.text), P, row, c - w.empty)
    /\ EmptyFrom(P, row, c - w.empty, w.empty)

LEMMA SquareWritten ==
    ASSUME NEW P, Writable(P), NEW row \in 0 .. (Rows - 1), NEW r, NEW c \in Nat, c < Cols,
           NEW w, Wrote(P, row, r, w, c), NEW s, s = row * Cols + c,
           w = [text |-> w.text, empty |-> w.empty],
           NEW v, v = WriteSquare(w, P.board[s])
    PROVE  Wrote(P, row, r, v, c + 1) /\ v = [text |-> v.text, empty |-> v.empty]
<1>0. /\ row * Cols \in Nat /\ Cols \in Nat /\ s \in Squares /\ s \in Int /\ w.empty \in Nat /\ w.empty <= c
      /\ \A x \in Squares : x \in Int
  BY SquareAt, BoardAssumption DEF Squares, Wrote
<1>1. CASE P.board[s] = NoPiece
  <2>1. v = [w EXCEPT !.empty = @ + 1]
    BY <1>1 DEF WriteSquare
  <2>2. v.text = w.text /\ v.empty = w.empty + 1 /\ v = [text |-> v.text, empty |-> v.empty]
    BY <2>1
  <2>3. c + 1 - v.empty = c - w.empty /\ v.empty \in 0 .. (c + 1)
    BY <1>0, <2>2
  <2>4. EmptyFrom(P, row, c - w.empty, w.empty + 1)
    BY <1>0, <1>1 DEF Wrote, EmptyFrom
  <2> QED BY <2>2, <2>3, <2>4 DEF Wrote
<1>2. CASE P.board[s] # NoPiece
  <2>1. PICK a, b : a = Gap(w.empty) /\ b = PieceText(P.board[s])
    OBVIOUS
  <2>2. P.board[s] \in PieceSet
    BY <1>0, <1>2, ExactIs DEF Writable, Upright, Boards
  <2>3. PICK x : x = w.text \o a
    OBVIOUS
  <2>33. a \in Seq(Marks) /\ b \in Seq(Marks) /\ w.text \in Seq(Marks) /\ x \in Seq(Marks) /\ x \o b \in Seq(Marks)
    BY <1>0, <2>1, <2>2, <2>3, WrittenMarks, Concatenation DEF Wrote
  <2>4. v = [text |-> x \o b, empty |-> 0]
    BY <1>2, <2>1, <2>3 DEF WriteSquare
  <2>5. PICK p : p = FoldLeft(ReadBoard, r, w.text)
    OBVIOUS
  <2>6. PICK q : q = FoldLeft(ReadBoard, p, a)
    OBVIOUS
  <2>7. Upto(q, P, row, c)
    <3>1. PICK k \in Nat : k = c - w.empty
      BY <1>0
    <3>2. k + w.empty = c
      BY <1>0, <3>1
    <3>3. Upto(p, P, row, k) /\ EmptyFrom(P, row, k, w.empty)
      BY <2>5, <3>1, <3>2 DEF Wrote
    <3>4. Upto(q, P, row, k + w.empty)
      BY <1>0, <2>1, <2>6, <3>2, <3>3, GapReads
    <3> QED BY <3>2, <3>4
  <2>8. FoldLeft(ReadBoard, r, x) = q
    BY <2>3, <2>33, <2>5, <2>6, BoardInParts
  <2>9. FoldLeft(ReadBoard, r, x \o b) = FoldLeft(ReadBoard, q, b)
    BY <2>33, <2>8, BoardInParts
  <2>10. Upto(FoldLeft(ReadBoard, q, b), P, row, c + 1)
    BY <1>2, <2>1, <2>7, PieceReads
  <2>11. v.text = x \o b /\ v.empty = 0 /\ v = [text |-> v.text, empty |-> v.empty]
    BY <2>4
  <2>12. EmptyFrom(P, row, c + 1 - 0, 0)
    BY <1>0 DEF EmptyFrom
  <2>13. c + 1 - 0 = c + 1 /\ 0 \in 0 .. (c + 1)
    OBVIOUS
  <2> QED BY <2>33, <2>9, <2>10, <2>11, <2>12, <2>13 DEF Wrote
<1> QED BY <1>1, <1>2

(* The squares of a row, and how far to_sfen has come when it has seen them all. *)
RowSquares(P, row) == [c \in 1 .. Cols |-> P.board[row * Cols + c - 1]]
RowWritten(P, row) == FoldLeft(WriteSquare, [text |-> <<>>, empty |-> 0], RowSquares(P, row))

LEMMA RowIsWritten ==
    ASSUME NEW P, Writable(P), NEW row \in 0 .. (Rows - 1), NEW r, Upto(r, P, row, 0),
           NEW w, w = RowWritten(P, row)
    PROVE  Wrote(P, row, r, w, Cols)
<1> DEFINE base == [text |-> <<>>, empty |-> 0]
           of == RowSquares(P, row)
<1>0. Cols \in Nat /\ row * Cols \in Nat
  BY BoardAssumption
<1>1. DOMAIN of = 1 .. Cols /\ \A c \in 1 .. Cols : of[c] = P.board[row * Cols + c - 1]
  BY DEF RowSquares
<1> HIDE DEF of
<1>2. PICK f : RowTexts!IsRun(f, Cols, base, of) /\ f[Cols] = w
  BY <1>0, <1>1, RowRun DEF RowWritten, of
<1>3. Wrote(P, row, r, base, 0) /\ base = [text |-> base.text, empty |-> base.empty]
  <2>1. base.text = <<>> /\ base.empty = 0 /\ base = [text |-> base.text, empty |-> base.empty]
    OBVIOUS
  <2>2. FoldLeft(ReadBoard, r, <<>>) = r
    BY NoneRead
  <2>3. EmptyFrom(P, row, 0 - 0, 0)
    BY <1>0 DEF EmptyFrom, Squares
  <2>4. 0 - 0 = 0 /\ 0 \in 0 .. 0
    OBVIOUS
  <2> HIDE DEF base
  <2> QED BY <2>1, <2>2, <2>3, <2>4, WrittenMarks DEF Wrote
<1> HIDE DEF base
<1> DEFINE Good(v, c) == Wrote(P, row, r, v, c) /\ v = [text |-> v.text, empty |-> v.empty]
           A == {c \in Nat : c <= Cols => Good(f[c], c)}
<1>4. 0 \in A
  BY <1>2, <1>3 DEF RowTexts!IsRun
<1>5. ASSUME NEW c \in Nat, c \in A PROVE c + 1 \in A
  <2> SUFFICES ASSUME c + 1 <= Cols PROVE Good(f[c + 1], c + 1)
    OBVIOUS
  <2>1. c + 1 \in 1 .. Cols /\ c + 1 - 1 = c /\ c < Cols /\ row * Cols + (c + 1) - 1 = row * Cols + c
    BY <1>0
  <2>2. Good(f[c], c)
    <3> HIDE DEF Good
    <3> QED BY <1>0, <1>5, <2>1
  <2>3. f[c + 1] = WriteSquare(f[c], P.board[row * Cols + c])
    BY <1>1, <1>2, <2>1 DEF RowTexts!IsRun
  <2> QED BY <2>1, <2>2, <2>3, SquareWritten
<1> HIDE DEF A
<1>6. Nat \subseteq A
  BY <1>4, <1>5, Sums!Induction
<1>7. Good(f[Cols], Cols)
  BY <1>0, <1>6 DEF A
<1> QED BY <1>2, <1>7

(* The first of a text's rows needs no slash; any other comes after one. *)
LEMMA RowReads ==
    ASSUME NEW P, Writable(P), NEW row \in 0 .. (Rows - 1), NEW r,
           IF row = 0 THEN Upto(r, P, 0, 0) ELSE Upto(r, P, row - 1, Cols),
           NEW text, text = WriteRow(P, row)
    PROVE  text \in Seq(Marks) /\ Upto(FoldLeft(ReadBoard, r, text), P, row, Cols)
<1>0. Cols \in Nat /\ Rows \in Nat /\ row \in Nat /\ row <= Rows - 1 /\ \A s \in Squares : s \in Int
  BY BoardAssumption DEF Squares
<1>1. PICK a, w : a = (IF row > 0 THEN <<Slash>> ELSE <<>>) /\ w = RowWritten(P, row)
  OBVIOUS
<1>2. text = a \o w.text \o Gap(w.empty)
  BY <1>1 DEF WriteRow, RowWritten, RowSquares
<1>3. PICK p : p = FoldLeft(ReadBoard, r, a)
  OBVIOUS
<1>4. Upto(p, P, row, 0)
  <2>1. CASE row = 0
    BY <1>1, <1>3, <2>1, NoneRead
  <2>2. CASE row # 0
    <3>0. a = <<Slash>> /\ Upto(r, P, row - 1, Cols)
      BY <1>0, <1>1, <2>2
    <3>1. p = ReadBoard(r, Slash) /\ Upto(r, P, row - 1, Cols)
      BY <1>3, <3>0, OneRead
    <3>2. p = [r EXCEPT !.row = @ + 1, !.col = 0]
      <4>1. ReadBoard(r, Slash) = IF r.col # Cols \/ r.promoted \/ r.row >= Rows - 1 THEN Refused(r)
                                  ELSE [r EXCEPT !.row = @ + 1, !.col = 0]
        BY <3>1 DEF ReadBoard, Slash, Character, Upto
      <4>2. r.col = Cols /\ r.promoted = FALSE /\ ~(r.row >= Rows - 1)
        BY <1>0, <3>1 DEF Upto
      <4> QED BY <3>1, <4>1, <4>2
    <3>3. /\ Reader(p) /\ p.P = r.P /\ p.row = r.row + 1 /\ p.col = 0 /\ p.promoted = r.promoted
          /\ p.count = r.count /\ p.ok = r.ok /\ p.totals = r.totals
      BY <3>1, <3>2 DEF Upto, Reads, Reader, ReaderFields
    <3>4. p.row = row /\ row * Cols + 0 = (row - 1) * Cols + Cols /\ row * Cols \in Nat
      BY <1>0, <2>2, <3>1, <3>3 DEF Upto
    <3>5. \A s \in Squares : p.P.board[s] = IF s < row * Cols + 0 THEN P.board[s] ELSE NoPiece
      BY <3>1, <3>3, <3>4 DEF Upto
    <3>6. \A s \in Squares : s >= p.row * Cols + p.col => p.P.board[s] = NoPiece
      <4>1. p.row * Cols + p.col = row * Cols + 0
        BY <3>3, <3>4
      <4> SUFFICES ASSUME NEW s \in Squares, s >= p.row * Cols + p.col PROVE p.P.board[s] = NoPiece
        OBVIOUS
      <4>2. ~(s < row * Cols + 0)
        BY <1>0, <3>4, <4>1
      <4> QED BY <3>5, <4>2
    <3>7. Reads(p) /\ Counts(p)
      BY <1>0, <3>1, <3>3, <3>4, <3>6 DEF Upto, Reads, Counts
    <3> QED BY <3>1, <3>3, <3>4, <3>5, <3>7 DEF Upto
  <2> QED BY <2>1, <2>2
<1>5. Wrote(P, row, p, w, Cols)
  BY <1>1, <1>4, RowIsWritten
<1>6. PICK q : q = FoldLeft(ReadBoard, p, w.text)
  OBVIOUS
<1>7. Upto(FoldLeft(ReadBoard, q, Gap(w.empty)), P, row, Cols)
  <2>1. PICK k \in Nat : k = Cols - w.empty
    BY <1>0, <1>5 DEF Wrote
  <2>2. w.empty \in Nat /\ k + w.empty = Cols
    BY <1>0, <1>5, <2>1 DEF Wrote
  <2>3. Upto(q, P, row, k) /\ EmptyFrom(P, row, k, w.empty)
    BY <1>5, <1>6, <2>1, <2>2 DEF Wrote
  <2>8. PICK n \in Nat : n = w.empty
    BY <2>2
  <2>4. PICK z : z = FoldLeft(ReadBoard, q, Gap(n))
    OBVIOUS
  <2>5. k + n <= Cols /\ EmptyFrom(P, row, k, n)
    BY <1>0, <2>2, <2>3, <2>8
  <2>6. Upto(z, P, row, k + n)
    BY <2>3, <2>4, <2>5, GapReads
  <2> QED BY <2>2, <2>4, <2>6, <2>8
<1>8. PICK x : x = a \o w.text
  OBVIOUS
<1>9. /\ a \in Seq(Marks) /\ w.text \in Seq(Marks) /\ Gap(w.empty) \in Seq(Marks)
      /\ x \in Seq(Marks) /\ x \o Gap(w.empty) \in Seq(Marks)
  BY <1>1, <1>5, <1>8, WrittenMarks, Concatenation DEF Wrote
<1>10. FoldLeft(ReadBoard, r, x) = q
  BY <1>3, <1>6, <1>8, <1>9, BoardInParts
<1>11. FoldLeft(ReadBoard, r, x \o Gap(w.empty)) = FoldLeft(ReadBoard, q, Gap(w.empty))
  BY <1>9, <1>10, BoardInParts
<1> QED BY <1>2, <1>7, <1>8, <1>9, <1>11

-----------------------------------------------------------------------------
(* The board; a number; one kind of pieces in a hand. *)

LEMMA BlankIsUpto == \A P : Upto(Blank, P, 0, 0)
<1> SUFFICES ASSUME NEW P PROVE Upto(Blank, P, 0, 0)
  OBVIOUS
<1>1. /\ Blank.P = EmptyPosition /\ Blank.row = 0 /\ Blank.col = 0 /\ Blank.promoted = FALSE /\ Blank.ok = TRUE
  BY DEF Blank
<1>2. EmptyPosition.side = "black" /\ EmptyPosition.ply = 0 /\ \A s \in Squares : EmptyPosition.board[s] = NoPiece
  BY DEF EmptyPosition
<1>3. 0 * Cols + 0 = 0 /\ \A s \in Squares : ~(s < 0)
  BY BoardAssumption DEF Squares
<1> QED BY <1>1, <1>2, <1>3, BlankIsRead DEF Upto

LEMMA BoardIsReadBack ==
    ASSUME NEW P, Writable(P), NEW q, q = FoldLeft(ReadBoard, Blank, ToSfen(P).board)
    PROVE  Upto(q, P, Rows - 1, Cols)
<1> DEFINE seqs == [i \in 1 .. Rows |-> WriteRow(P, i - 1)]
           T == {WriteRow(P, i - 1) : i \in 1 .. Rows}
<1>0. Rows \in Nat /\ Rows > 0 /\ Cols \in Nat
  BY BoardAssumption
<1>1. ToSfen(P).board = FlattenSeq(seqs)
  BY DEF ToSfen
<1>2. \A i \in 1 .. Rows : seqs[i] = WriteRow(P, i - 1)
  OBVIOUS
<1>3. seqs \in Seq(T) /\ Len(seqs) = Rows
  <2>1. \A i \in 1 .. Rows : WriteRow(P, i - 1) \in T
    OBVIOUS
  <2> HIDE DEF T
  <2> QED BY <1>0, <2>1
<1> HIDE DEF seqs, T
<1>4. seqs[1] = WriteRow(P, 0) /\ 0 \in 0 .. (Rows - 1)
  BY <1>0, <1>2
<1>5. seqs[1] \in Seq(Marks) /\ Upto(FoldLeft(ReadBoard, Blank, seqs[1]), P, 0, Cols)
  BY <1>4, BlankIsUpto, RowReads
<1>6. PICK f : Flat(f, seqs, Rows) /\ FlattenSeq(seqs) = f[Rows]
  BY <1>0, <1>3, <1>5, Flattened
<1> DEFINE Good(i) == f[i] \in Seq(Marks) /\ Upto(FoldLeft(ReadBoard, Blank, f[i]), P, i - 1, Cols)
           A == {i \in Nat : i + 1 <= Rows => Good(i + 1)}
<1>7. 0 \in A
  <2>1. Good(1)
    BY <1>5, <1>6 DEF Flat
  <2> HIDE DEF Good
  <2>2. 0 + 1 = 1 /\ 0 \in Nat
    OBVIOUS
  <2> QED BY <2>1, <2>2
<1>8. ASSUME NEW i \in Nat, i \in A PROVE i + 1 \in A
  <2> SUFFICES ASSUME i + 1 + 1 <= Rows PROVE Good(i + 1 + 1)
    OBVIOUS
  <2>1. PICK k \in 1 .. (Rows - 1) : k = i + 1
    BY <1>0
  <2>2. Good(k)
    <3> HIDE DEF Good
    <3> QED BY <1>0, <1>8, <2>1
  <2>3. k + 1 \in 2 .. Rows /\ k + 1 \in 1 .. Rows /\ k + 1 - 1 = k /\ k \in 0 .. (Rows - 1) /\ k # 0
    BY <1>0
  <2>4. f[k + 1] = Join(f[k], seqs[k + 1]) /\ seqs[k + 1] = WriteRow(P, k)
    BY <1>2, <1>6, <2>3 DEF Flat
  <2>5. PICK r, text : r = FoldLeft(ReadBoard, Blank, f[k]) /\ text = WriteRow(P, k)
    OBVIOUS
  <2>6. text \in Seq(Marks) /\ Upto(FoldLeft(ReadBoard, r, text), P, k, Cols)
    BY <2>2, <2>3, <2>5, RowReads
  <2>7. f[k] \o text \in Seq(Marks) /\ FoldLeft(ReadBoard, Blank, f[k] \o text) = FoldLeft(ReadBoard, r, text)
    BY <2>2, <2>5, <2>6, BoardInParts, Concatenation
  <2>8. f[k + 1] = f[k] \o text
    BY <2>4, <2>5 DEF Join
  <2>9. Good(k + 1)
    BY <2>3, <2>6, <2>7, <2>8
  <2> HIDE DEF Good
  <2> QED BY <2>1, <2>9
<1> HIDE DEF A
<1>9. Nat \subseteq A
  BY <1>7, <1>8, Sums!Induction
<1>10. Good(Rows)
  <2>1. Rows - 1 \in A /\ Rows - 1 + 1 = Rows
    BY <1>0, <1>9
  <2> HIDE DEF Good
  <2> QED BY <1>0, <2>1 DEF A
<1> QED BY <1>1, <1>6, <1>10

(* The hands whose counts have been read, of those in P. *)
Given(r, P, G) ==
    /\ Holds(r) /\ Counts(r) /\ r.ok = TRUE /\ r.count = 0
    /\ r.P.board = P.board /\ r.P.side = P.side /\ r.P.ply = 0
    /\ \A c \in Colors, t \in HandTypes : r.P.hands[c][t] = IF <<c, t>> \in G THEN P.hands[c][t] ELSE 0

(* n is k with the digit d after it; the digit d is read. *)
Extends(n, k, d) == n = k * 10 + d
ReadsDigit(r, q, d) == q = ReadHand(r, Digit(d))
WithCount(r, q, n) == q = [r EXCEPT !.count = n] /\ q.count = n

LEMMA DigitHanded ==
    ASSUME NEW r, Holds(r), r.ok = TRUE, NEW k \in Nat, r.count = k, k <= 18, NEW d \in Nat, k # 0 \/ d # 0,
           NEW q, ReadsDigit(r, q, d), NEW n, Extends(n, k, d)
    PROVE  WithCount(r, q, n) /\ Holds(q) /\ q.ok = TRUE
<1>1. Digit(d).kind = "digit" /\ Digit(d).n = d
  BY DEF Digit, Character
<1>2. ~(r.count > 18 \/ (r.count = 0 /\ d = 0))
  OBVIOUS
<1>3. q = [r EXCEPT !.count = r.count * 10 + d]
  BY <1>1, <1>2 DEF ReadHand, ReadsDigit
<1>4. q = [r EXCEPT !.count = n]
  BY <1>3 DEF Extends
<1>5. n \in Nat
  BY DEF Extends
<1>6. Reader(q) /\ q.P = r.P /\ q.ok = r.ok /\ q.count = n
  BY <1>4 DEF Holds, Reader, ReaderFields
<1> QED BY <1>4, <1>5, <1>6 DEF Holds, WithCount

LEMMA NumberReads ==
    ASSUME NEW r, Holds(r), r.ok = TRUE, r.count = 0, NEW n \in 2 .. 18,
           NEW q, q = FoldLeft(ReadHand, r, Number(n))
    PROVE  q = [r EXCEPT !.count = n]
<1>1. PICK zero \in Nat : zero = 0
  OBVIOUS
<1>2. PICK one \in Nat : one = 1
  OBVIOUS
<1>3. CASE n >= 10
  <2>1. PICK d \in Nat : d = n - 10
    BY <1>3
  <2>2. n \div 10 = one /\ n % 10 = d
    BY <1>2, <1>3, <2>1
  <2>3. PICK x, y : x = Digit(one) /\ y = Digit(d)
    OBVIOUS
  <2>4. Number(n) = <<x, y>>
    BY <1>3, <2>2, <2>3 DEF Number
  <2>5. PICK p : ReadsDigit(r, p, one)
    BY DEF ReadsDigit
  <2>6. ReadsDigit(p, q, d)
    <3>1. PICK text : text = <<x, y>>
      OBVIOUS
    <3>2. q = FoldLeft(ReadHand, r, text)
      BY <2>4, <3>1
    <3>3. IsPair(text, x, y) /\ HandsAfter(r, text, q)
      BY <3>1, <3>2 DEF IsPair, HandsAfter
    <3>4. q = ReadHand(ReadHand(r, x), y)
      BY <3>3, TwoHanded
    <3> QED BY <2>3, <2>5, <3>4 DEF ReadsDigit
  <2>7. Extends(one, zero, one) /\ one # 0 /\ zero <= 18 /\ r.count = zero
    BY <1>1, <1>2 DEF Extends
  <2>8. WithCount(r, p, one) /\ Holds(p) /\ p.ok = TRUE
    BY <2>5, <2>7, DigitHanded
  <2>9. Extends(n, one, d) /\ one # 0 /\ one <= 18
    BY <1>2, <1>3, <2>1 DEF Extends
  <2>10. p.count = one
    BY <2>8 DEF WithCount
  <2>11. WithCount(p, q, n)
    BY <2>6, <2>8, <2>9, <2>10, DigitHanded
  <2> QED BY <2>8, <2>11 DEF WithCount
<1>4. CASE n < 10
  <2>1. Number(n) = <<Digit(n)>>
    BY <1>4 DEF Number
  <2>2. ReadsDigit(r, q, n)
    BY <2>1, OneHanded DEF ReadsDigit
  <2>3. n \in Nat /\ n # 0 /\ Extends(n, zero, n) /\ zero <= 18 /\ r.count = zero
    BY <1>1 DEF Extends
  <2>4. WithCount(r, q, n)
    BY <2>2, <2>3, DigitHanded
  <2> QED BY <2>4 DEF WithCount
<1> QED BY <1>3, <1>4

(* What to_sfen writes of one kind. *)
HandText(P, c, t) ==
    IF P.hands[c][t] <= 0 THEN <<>>
    ELSE (IF P.hands[c][t] > 1 THEN Number(P.hands[c][t]) ELSE <<>>) \o <<Letter(c, t)>>

LEMMA HandMarks ==
    ASSUME NEW c \in Colors, NEW t \in HandTypes
    PROVE  /\ <<Letter(c, t)>> \in Seq(Marks)
           /\ \A n \in 2 .. 18 : Number(n) \in Seq(Marks)
<1>1. Letter(c, t) \in Marks
  BY DEF Marks, Characters, Bases
<1>2. ASSUME NEW n \in 2 .. 18 PROVE Number(n) \in Seq(Marks)
  <2>1. \A k \in Nat : Digit(k) \in Marks
    BY DEF Marks
  <2>2. CASE n >= 10
    <3>1. n \div 10 = 1 /\ n % 10 = n - 10 /\ 1 \in Nat /\ n - 10 \in Nat
      BY <2>2
    <3>2. PICK x, y : x = Digit(1) /\ y = Digit(n - 10)
      OBVIOUS
    <3>3. x \in Marks /\ y \in Marks /\ Number(n) = <<x, y>>
      BY <2>1, <2>2, <3>1, <3>2 DEF Number
    <3> QED BY <3>3
  <2>3. CASE n < 10
    <3>1. PICK x : x = Digit(n)
      OBVIOUS
    <3>2. x \in Marks /\ Number(n) = <<x>>
      BY <2>1, <2>3, <3>1 DEF Number
    <3> QED BY <3>2
  <2> QED BY <2>2, <2>3
<1> QED BY <1>1, <1>2

LEMMA HandTextReads ==
    ASSUME NEW P, Writable(P), NEW c \in Colors, NEW t \in HandTypes, NEW G, <<c, t>> \notin G,
           NEW r, Given(r, P, G), NEW text, text = HandText(P, c, t), NEW q, q = FoldLeft(ReadHand, r, text)
    PROVE  text \in Seq(Marks) /\ Given(q, P, G \cup {<<c, t>>})
<1>1. P.hands \in Hands /\ P.board \in Boards /\ t \in Bases
  BY ExactIs DEF Writable, Upright, Bases
<1>2. PICK n \in Nat : n = P.hands[c][t]
  BY <1>1 DEF Hands
<1>3. r.P.hands \in Hands
  BY ExactIs DEF Given, Holds, Upright
<1>4. /\ P.hands["black"][t] \in Nat /\ P.hands["white"][t] \in Nat /\ Colors = {"black", "white"} /\ t # "King"
      /\ r.P.hands["black"][t] \in Nat /\ r.P.hands["white"][t] \in Nat
  BY <1>1, <1>3 DEF Hands, Colors, HandTypes
<1>5. Held(r.P.hands, t) + n <= Held(P.hands, t) /\ Held(r.P.hands, t) \in Nat /\ Held(P.hands, t) \in Nat
  <2>1. \A d \in Colors : r.P.hands[d][t] = IF <<d, t>> \in G THEN P.hands[d][t] ELSE 0
    BY DEF Given
  <2> QED BY <1>2, <1>4, <2>1 DEF Held
<1>6. /\ Cardinality(Standing(P.board, t)) \in Nat
      /\ Cardinality(Standing(P.board, t)) + Held(P.hands, t) <= PieceLimits[t] /\ PieceLimits[t] \in 0 .. 18
      /\ r.totals[t] = Cardinality(Standing(P.board, t)) + Held(r.P.hands, t)
  BY <1>1, CountsAreNumbers, LimitsAssumption DEF Writable, WithinLimits, Given, Counts, InPlay
<1>7. n \in 0 .. 18 /\ r.totals[t] + n <= PieceLimits[t] /\ r.totals[t] \in Int /\ PieceLimits[t] \in Int
  BY <1>5, <1>6
<1>8. ASSUME NEW d \in Colors, NEW u \in HandTypes
      PROVE  <<d, u>> \in G \cup {<<c, t>>} <=> <<d, u>> \in G \/ (d = c /\ u = t)
  OBVIOUS
<1>9. CASE n = 0
  <2>1. text = <<>> /\ q = r
    BY <1>2, <1>9, NoneHanded DEF HandText
  <2>2. \A d \in Colors, u \in HandTypes :
            r.P.hands[d][u] = IF <<d, u>> \in G \cup {<<c, t>>} THEN P.hands[d][u] ELSE 0
    BY <1>2, <1>8, <1>9 DEF Given
  <2> QED BY <2>1, <2>2, WrittenMarks DEF Given
<1>10. CASE n # 0
  <2>1. PICK a, p : a = (IF n > 1 THEN Number(n) ELSE <<>>) /\ p = FoldLeft(ReadHand, r, a)
    OBVIOUS
  <2>2. text = a \o <<Letter(c, t)>>
    BY <1>2, <1>10, <2>1, SMTT(30) DEF HandText
  <2>3. a \in Seq(Marks) /\ <<Letter(c, t)>> \in Seq(Marks)
    <3>1. n > 1 => n \in 2 .. 18
      BY <1>7
    <3> QED BY <2>1, <3>1, HandMarks, WrittenMarks
  <2>4. text \in Seq(Marks) /\ q = FoldLeft(ReadHand, p, <<Letter(c, t)>>)
    <3>1. PICK z : z = <<Letter(c, t)>>
      OBVIOUS
    <3>2. p = FoldLeft(ReadHand, r, a) /\ z \in Seq(Marks) /\ text = a \o z
      BY <2>1, <2>2, <2>3, <3>1
    <3>3. FoldLeft(ReadHand, r, a \o z) = FoldLeft(ReadHand, p, z)
      BY <2>3, <3>2, HandsInParts
    <3>4. a \o z \in Seq(Marks)
      BY <2>3, <3>2, Concatenation
    <3> QED BY <3>1, <3>2, <3>3, <3>4
  <2>5. q = ReadHand(p, Letter(c, t))
    BY <2>4, OneHanded
  <2>6. /\ Holds(p) /\ Counts(p) /\ p.ok = TRUE /\ p.P = r.P /\ Copies(p) = n /\ p.totals = r.totals
    <3>1. CASE n > 1
      <4>0. n \in 2 .. 18
        BY <1>7, <3>1
      <4>1. p = [r EXCEPT !.count = n]
        BY <2>1, <3>1, <4>0, NumberReads DEF Given
      <4>2. Reader(p) /\ p.P = r.P /\ p.ok = r.ok /\ p.count = n /\ p.totals = r.totals
        BY <4>1 DEF Given, Holds, Reader, ReaderFields
      <4> QED BY <3>1, <4>2 DEF Given, Holds, Counts, Copies
    <3>2. CASE n = 1
      BY <2>1, <3>2, NoneHanded DEF Given, Copies
    <3>3. n > 1 \/ n = 1
      BY <1>7, <1>10
    <3> QED BY <3>1, <3>2, <3>3
  <2>7. ~TooMany(p, t, n)
    BY <1>7, <2>6 DEF TooMany
  <2>8. Handed(p, q, c, t)
    BY <1>1, <1>4, <2>5, <2>6, <2>7, HandLetterIs
  <2>9. Counts(q)
    BY <2>6, <2>7, <2>8, HandedCounts
  <2>10. /\ q.P.board = P.board /\ q.P.side = P.side /\ q.P.ply = 0 /\ q.ok = TRUE /\ q.count = 0
         /\ Upright(q.P) /\ Reader(q) /\ q.P.hands = [r.P.hands EXCEPT ![c][t] = @ + n]
    BY <2>6, <2>8 DEF Handed, Gave, Given
  <2>11. r.P.hands[c][t] + n = P.hands[c][t]
    BY <1>2 DEF Given
  <2>12. ASSUME NEW d \in Colors, NEW u \in HandTypes
         PROVE  q.P.hands[d][u] = IF <<d, u>> \in G \cup {<<c, t>>} THEN P.hands[d][u] ELSE 0
    <3>1. q.P.hands[d][u] = IF d = c /\ u = t THEN r.P.hands[c][t] + n ELSE r.P.hands[d][u]
      BY <1>3, <2>10 DEF Hands
    <3>2. r.P.hands[d][u] = IF <<d, u>> \in G THEN P.hands[d][u] ELSE 0
      BY DEF Given
    <3> QED BY <1>8, <2>11, <3>1, <3>2
  <2>13. Given(q, P, G \cup {<<c, t>>})
    BY <2>9, <2>10, <2>12 DEF Given, Holds
  <2> QED BY <2>4, <2>13
<1> QED BY <1>9, <1>10

-----------------------------------------------------------------------------
(* A whole hand. *)

(* The first i of the hand of c, in the order they are written. *)
Through(c, i) == {<<c, HandOrder[j]>> : j \in 1 .. i}

LEMMA HandOrderIs ==
    /\ DOMAIN HandOrder = 1 .. 7 /\ \A j \in 1 .. 7 : HandOrder[j] \in HandTypes
    /\ \A i \in 1 .. 7, j \in 1 .. 7 : HandOrder[i] = HandOrder[j] => i = j
    /\ \A t \in HandTypes : \E j \in 1 .. 7 : HandOrder[j] = t
<1>1. /\ DOMAIN HandOrder = 1 .. 7
      /\ HandOrder[1] = "Rook" /\ HandOrder[2] = "Bishop" /\ HandOrder[3] = "Gold" /\ HandOrder[4] = "Silver"
      /\ HandOrder[5] = "Knight" /\ HandOrder[6] = "Lance" /\ HandOrder[7] = "Pawn"
  BY DEF HandOrder
<1>2. \A i \in 1 .. 7 : i = 1 \/ i = 2 \/ i = 3 \/ i = 4 \/ i = 5 \/ i = 6 \/ i = 7
  OBVIOUS
<1>3. \A j \in 1 .. 7 : HandOrder[j] \in HandTypes
  BY <1>1, <1>2 DEF HandTypes
<1>4. \A i \in 1 .. 7, j \in 1 .. 7 : HandOrder[i] = HandOrder[j] => i = j
  BY <1>1, <1>2
<1>5. \A t \in HandTypes : \E j \in 1 .. 7 : HandOrder[j] = t
  BY <1>1 DEF HandTypes
<1> QED BY <1>1, <1>3, <1>4, <1>5

LEMMA ThroughIs ==
    ASSUME NEW c \in Colors
    PROVE  /\ Through(c, 0) = {}
           /\ \A i \in 0 .. 6 : Through(c, i + 1) = Through(c, i) \cup {<<c, HandOrder[i + 1]>>}
           /\ \A i \in 0 .. 6 : <<c, HandOrder[i + 1]>> \notin Through(c, i)
           /\ \A d \in Colors, t \in HandTypes : <<d, t>> \in Through(c, 7) <=> d = c
<1>1. Through(c, 0) = {}
  BY DEF Through
<1>2. ASSUME NEW i \in 0 .. 6 PROVE Through(c, i + 1) = Through(c, i) \cup {<<c, HandOrder[i + 1]>>}
  <2>1. 1 .. (i + 1) = (1 .. i) \cup {i + 1}
    OBVIOUS
  <2> QED BY <2>1 DEF Through
<1>3. ASSUME NEW i \in 0 .. 6 PROVE <<c, HandOrder[i + 1]>> \notin Through(c, i)
  <2>1. SUFFICES ASSUME NEW j \in 1 .. i, HandOrder[i + 1] = HandOrder[j] PROVE FALSE
    BY DEF Through
  <2>2. i + 1 \in 1 .. 7 /\ j \in 1 .. 7 /\ j # i + 1
    OBVIOUS
  <2> QED BY <2>1, <2>2, HandOrderIs
<1>4. ASSUME NEW d \in Colors, NEW t \in HandTypes PROVE <<d, t>> \in Through(c, 7) <=> d = c
  BY HandOrderIs DEF Through
<1> QED BY <1>1, <1>2, <1>3, <1>4

LEMMA WholeHandReads ==
    ASSUME NEW P, Writable(P), NEW c \in Colors, NEW G, \A t \in HandTypes : <<c, t>> \notin G,
           NEW r, Given(r, P, G), NEW text, text = WriteHand(P, c), NEW q, q = FoldLeft(ReadHand, r, text)
    PROVE  text \in Seq(Marks) /\ Given(q, P, G \cup Through(c, 7))
<1> DEFINE seqs == [i \in 1 .. 7 |-> HandText(P, c, HandOrder[i])]
           T == {HandText(P, c, HandOrder[i]) : i \in 1 .. 7}
<1>1. text = FlattenSeq(seqs)
  BY HandOrderIs DEF WriteHand, HandText
<1>2. \A i \in 1 .. 7 : seqs[i] = HandText(P, c, HandOrder[i])
  OBVIOUS
<1>3. seqs \in Seq(T) /\ Len(seqs) = 7
  <2>1. \A i \in 1 .. 7 : HandText(P, c, HandOrder[i]) \in T
    OBVIOUS
  <2> HIDE DEF T
  <2> QED BY <2>1
<1> HIDE DEF seqs, T
<1>4. ASSUME NEW i \in 0 .. 6, NEW p, Given(p, P, G \cup Through(c, i)), NEW s, s = seqs[i + 1]
      PROVE  s \in Seq(Marks) /\ Given(FoldLeft(ReadHand, p, s), P, G \cup Through(c, i + 1))
  <2>1. PICK t \in HandTypes : t = HandOrder[i + 1]
    BY HandOrderIs
  <2>2. i + 1 \in 1 .. 7
    OBVIOUS
  <2>3. s = HandText(P, c, t)
    BY <1>2, <1>4, <2>1, <2>2
  <2>4. PICK H : H = G \cup Through(c, i)
    OBVIOUS
  <2>5. <<c, t>> \notin H /\ G \cup Through(c, i + 1) = H \cup {<<c, t>>}
    <3>1. /\ Through(c, i + 1) = Through(c, i) \cup {<<c, HandOrder[i + 1]>>}
          /\ <<c, HandOrder[i + 1]>> \notin Through(c, i)
      BY ThroughIs
    <3>2. PICK x : x = <<c, t>>
      OBVIOUS
    <3>3. Through(c, i + 1) = Through(c, i) \cup {x} /\ x \notin Through(c, i) /\ x \notin G
      BY <2>1, <3>1, <3>2
    <3> QED BY <2>4, <3>2, <3>3
  <2>6. PICK u : u = FoldLeft(ReadHand, p, s)
    OBVIOUS
  <2>7. s \in Seq(Marks) /\ Given(u, P, H \cup {<<c, t>>})
    BY <1>4, <2>3, <2>4, <2>5, <2>6, HandTextReads
  <2> QED BY <2>5, <2>6, <2>7
<1>5. seqs[1] \in Seq(Marks) /\ Given(FoldLeft(ReadHand, r, seqs[1]), P, G \cup Through(c, 1))
  <2>1. Given(r, P, G \cup Through(c, 0)) /\ 0 \in 0 .. 6 /\ 0 + 1 = 1
    <3>1. G \cup Through(c, 0) = G
      BY ThroughIs
    <3> QED BY <3>1
  <2> QED BY <1>4, <2>1
<1>6. PICK f : Flat(f, seqs, 7) /\ FlattenSeq(seqs) = f[7]
  <2>1. 7 \in Nat /\ 7 > 0
    OBVIOUS
  <2> QED BY <1>3, <1>5, <2>1, Flattened
<1> DEFINE Good(i) == f[i] \in Seq(Marks) /\ Given(FoldLeft(ReadHand, r, f[i]), P, G \cup Through(c, i))
<1>7. Good(1)
  BY <1>5, <1>6 DEF Flat
<1>8. ASSUME NEW i \in 1 .. 6, Good(i) PROVE Good(i + 1)
  <2>1. i + 1 \in 2 .. 7 /\ i + 1 - 1 = i /\ i \in 0 .. 6
    OBVIOUS
  <2>2. PICK s : s = seqs[i + 1]
    OBVIOUS
  <2>3. PICK g : g = f[i]
    OBVIOUS
  <2>4. f[i + 1] = g \o s
    <3>1. f[i + 1] = Join(f[i], seqs[i + 1])
      BY <1>6, <2>1 DEF Flat
    <3> QED BY <2>2, <2>3, <3>1 DEF Join
  <2>5. PICK p : p = FoldLeft(ReadHand, r, g)
    OBVIOUS
  <2>6. g \in Seq(Marks) /\ Given(p, P, G \cup Through(c, i))
    BY <1>8, <2>3, <2>5
  <2>7. s \in Seq(Marks) /\ Given(FoldLeft(ReadHand, p, s), P, G \cup Through(c, i + 1))
    BY <1>4, <2>1, <2>2, <2>6
  <2>8. g \o s \in Seq(Marks) /\ FoldLeft(ReadHand, r, g \o s) = FoldLeft(ReadHand, p, s)
    BY <2>5, <2>6, <2>7, HandsInParts, Concatenation
  <2> QED BY <2>4, <2>7, <2>8
<1>9. Good(7)
  <2> HIDE DEF Good
  <2>1. Good(1 + 1) /\ 1 + 1 = 2
    BY <1>7, <1>8
  <2>2. Good(2 + 1) /\ 2 + 1 = 3
    BY <1>8, <2>1
  <2>3. Good(3 + 1) /\ 3 + 1 = 4
    BY <1>8, <2>2
  <2>4. Good(4 + 1) /\ 4 + 1 = 5
    BY <1>8, <2>3
  <2>5. Good(5 + 1) /\ 5 + 1 = 6
    BY <1>8, <2>4
  <2> QED BY <1>8, <2>5
<1> QED BY <1>1, <1>6, <1>9

-----------------------------------------------------------------------------
(* The whole text. *)

LEMMA SideReadsBack ==
    ASSUME NEW P, Writable(P), NEW text, text = ToSfen(P)
    PROVE  /\ Given(SideRead(text), P, {})
           /\ BoardRead(text).row = Rows - 1 /\ BoardRead(text).col = Cols /\ BoardRead(text).promoted = FALSE
<1>1. PICK b : b = BoardRead(text)
  OBVIOUS
<1>2. text.board = ToSfen(P).board /\ text.side = P.side
  BY DEF ToSfen
<1>3. Upto(b, P, Rows - 1, Cols)
  BY <1>1, <1>2, BoardIsReadBack DEF BoardRead
<1>4. Reads(b) /\ Counts(b) /\ Upright(b.P) /\ Upright(P)
  BY <1>3 DEF Upto, Reads, Writable
<1>5. b.P.board = P.board
  <2>1. b.P.board \in Boards /\ P.board \in Boards
    BY <1>4, ExactIs DEF Upright
  <2>2. \A s \in Squares : s < (Rows - 1) * Cols + Cols
    <3>1. Rows \in Nat /\ Cols \in Nat /\ (Rows - 1) * Cols + Cols = Rows * Cols
      BY BoardAssumption
    <3> QED BY <3>1 DEF Squares
  <2>3. \A s \in Squares : b.P.board[s] = P.board[s]
    BY <1>3, <2>2 DEF Upto
  <2> QED BY <2>1, <2>3 DEF Boards
<1>6. \A c \in Colors, t \in HandTypes : b.P.hands[c][t] = 0
  BY <1>3 DEF Upto, EmptyPosition
<1>7. b.count = 0 /\ b.ok = TRUE /\ b.P.ply = 0 /\ b.P.side = "black" /\ b.row = Rows - 1 /\ b.col = Cols
      /\ b.promoted = FALSE
  BY <1>3 DEF Upto, Reads
<1>8. P.side \in Colors
  BY <1>4, ExactIs DEF Upright
<1>9. CASE P.side = "white"
  <2>1. PICK r : r = [b EXCEPT !.P = PassTurn(@)]
    OBVIOUS
  <2>2. SideRead(text) = r
    BY <1>1, <1>2, <1>9, <2>1 DEF SideRead
  <2>3. /\ Holds(r) /\ Counts(r) /\ r.P.board = b.P.board /\ r.P.hands = b.P.hands
        /\ r.P.side = Opposite(b.P.side) /\ r.P.ply = b.P.ply /\ r.ok = b.ok /\ r.count = b.count
    BY <1>4, <2>1, TurnIsRead, ZenonT(60)
  <2>4. Opposite("black") = "white"
    BY DEF Opposite
  <2>5. Given(r, P, {})
    BY <1>5, <1>6, <1>7, <1>9, <2>3, <2>4 DEF Given
  <2> QED BY <1>1, <1>7, <2>2, <2>5
<1>10. CASE P.side = "black"
  <2>1. SideRead(text) = b
    BY <1>1, <1>2, <1>10 DEF SideRead
  <2>2. Holds(b)
    BY <1>4, <1>7 DEF Reads, Holds
  <2>3. Given(b, P, {})
    BY <1>4, <1>5, <1>6, <1>7, <1>10, <2>2 DEF Given
  <2> QED BY <1>1, <1>7, <2>1, <2>3
<1> QED BY <1>8, <1>9, <1>10 DEF Colors

(* Board, side and hands are those of P, and nothing is left to be said. *)
AllRead(r, P) ==
    /\ Holds(r) /\ r.ok = TRUE /\ r.count = 0
    /\ r.P.board = P.board /\ r.P.hands = P.hands /\ r.P.side = P.side

LEMMA HandsAreReadBack ==
    ASSUME NEW P, Writable(P), NEW text, text = ToSfen(P), NEW r, r = HandsRead(text)
    PROVE  AllRead(r, P)
<1>1. PICK start : start = SideRead(text)
  OBVIOUS
<1>2. Given(start, P, {})
  BY <1>1, SideReadsBack
<1>3. PICK black : black = WriteHand(P, "black")
  OBVIOUS
<1>4. PICK white : white = WriteHand(P, "white")
  OBVIOUS
<1>5. text.hands = black \o white
  BY <1>3, <1>4 DEF ToSfen
<1>6. PICK b : b = FoldLeft(ReadHand, start, black)
  OBVIOUS
<1>7. "black" \in Colors /\ "white" \in Colors
  BY DEF Colors
<1>8. black \in Seq(Marks) /\ Given(b, P, {} \cup Through("black", 7))
  BY <1>2, <1>3, <1>6, <1>7, WholeHandReads
<1>9. PICK G : G = {} \cup Through("black", 7)
  OBVIOUS
<1>10. \A t \in HandTypes : <<"white", t>> \notin G
  BY <1>7, <1>9, ThroughIs
<1>11. PICK w : w = FoldLeft(ReadHand, b, white)
  OBVIOUS
<1>12. white \in Seq(Marks) /\ Given(w, P, G \cup Through("white", 7))
  BY <1>4, <1>7, <1>8, <1>9, <1>10, <1>11, WholeHandReads
<1>13. r = w
  <2>1. FoldLeft(ReadHand, start, black \o white) = FoldLeft(ReadHand, b, white)
    BY <1>6, <1>8, <1>12, HandsInParts
  <2> QED BY <1>1, <1>5, <1>11, <2>1 DEF HandsRead
<1>14. \A c \in Colors, t \in HandTypes : <<c, t>> \in G \cup Through("white", 7)
  <2>1. ASSUME NEW c \in Colors, NEW t \in HandTypes PROVE <<c, t>> \in G \cup Through("white", 7)
    <3>1. c = "black" \/ c = "white"
      BY DEF Colors
    <3>2. c = "black" => <<c, t>> \in Through("black", 7)
      BY <1>7, ThroughIs
    <3>3. c = "white" => <<c, t>> \in Through("white", 7)
      BY <1>7, ThroughIs
    <3> QED BY <1>9, <3>1, <3>2, <3>3
  <2> QED BY <2>1
<1>15. \A c \in Colors, t \in HandTypes : w.P.hands[c][t] = P.hands[c][t]
  BY <1>12, <1>14 DEF Given
<1>16. w.P.hands \in Hands /\ P.hands \in Hands
  BY <1>12, ExactIs DEF Given, Holds, Upright, Writable
<1>17. w.P.hands = P.hands
  <2>1. \A c \in Colors : w.P.hands[c] = P.hands[c]
    BY <1>15, <1>16 DEF Hands
  <2> QED BY <1>16, <2>1 DEF Hands
<1> QED BY <1>12, <1>13, <1>17 DEF Given, AllRead

LEMMA KingsOf ==
    ASSUME NEW P, NEW Q, Upright(P), Upright(Q), P.board = Q.board
    PROVE  P.king = Q.king
<1>1. /\ P.king \in [Colors -> Squares \cup {NoSquare}] /\ KingsAgree(P.board, P.king)
      /\ Q.king \in [Colors -> Squares \cup {NoSquare}] /\ KingsAgree(P.board, Q.king)
  BY ExactIs DEF Upright
<1>2. ASSUME NEW c \in Colors PROVE P.king[c] = Q.king[c]
  <2>1. \A s \in Squares : P.king[c] = s <=> Q.king[c] = s
    BY <1>1 DEF KingsAgree
  <2> QED BY <1>1, <2>1
<1> QED BY <1>1, <1>2

LEMMA ReadsBack ==
    ASSUME NEW P, Writable(P), NEW tsume \in BOOLEAN, \A c \in Colors : P.king[c] # NoSquare \/ tsume = TRUE
    PROVE  SetSfen(ToSfen(P), tsume) = [ok |-> TRUE, P |-> P]
<1>1. PICK text : text = ToSfen(P)
  OBVIOUS
<1>2. PICK b : b = BoardRead(text)
  OBVIOUS
<1>3. PICK r : r = HandsRead(text)
  OBVIOUS
<1>4. b.row = Rows - 1 /\ b.col = Cols /\ b.promoted = FALSE
  BY <1>1, <1>2, SideReadsBack
<1>5. Holds(r) /\ r.ok = TRUE /\ r.count = 0 /\ r.P.board = P.board /\ r.P.hands = P.hands /\ r.P.side = P.side
  <2>1. AllRead(r, P)
    BY <1>1, <1>3, HandsAreReadBack
  <2> QED BY <2>1 DEF AllRead
<1>6. Upright(r.P) /\ Upright(P) /\ P.ply \in Nat
  BY <1>5 DEF Holds, Writable
<1>7. r.P.king = P.king
  BY <1>5, <1>6, KingsOf
<1>8. HasItsKings(r.P, tsume)
  <2>1. \E c \in Colors : P.king[c] # NoSquare
    BY KingsStand DEF Writable, Upright
  <2> QED BY <1>7, <2>1 DEF HasItsKings
<1>9. text.number = P.ply + 1 /\ text.number - 1 = P.ply /\ ~(text.number < 1)
  BY <1>1, <1>6 DEF ToSfen
<1>10. PICK Q : Q = [r.P EXCEPT !.ply = text.number - 1]
  OBVIOUS
<1>11. SetSfen(text, tsume) = [ok |-> TRUE, P |-> Q]
  BY <1>2, <1>3, <1>4, <1>5, <1>8, <1>9, <1>10, SetSfenIs
<1>12. Upright(Q) /\ Q.board = P.board /\ Q.hands = P.hands /\ Q.side = P.side /\ Q.ply = P.ply
  BY <1>5, <1>6, <1>9, <1>10, PlySet, PlyOnly
<1>13. Q = P
  BY <1>6, <1>12, Determined DEF Upright
<1> QED BY <1>1, <1>11, <1>13

LEMMA TextsAreReadBack == Writable(pos) => TextIsReadBack
<1> SUFFICES ASSUME Writable(pos) PROVE TextIsReadBack
  OBVIOUS
<1>1. CASE HasItsKings(pos, FALSE)
  <2>1. SetSfen(ToSfen(pos), FALSE) = [ok |-> TRUE, P |-> pos]
    BY <1>1, ReadsBack DEF HasItsKings
  <2>2. (~HasItsKings(pos, FALSE)) = FALSE
    BY <1>1
  <2> QED BY <2>1, <2>2 DEF TextIsReadBack
<1>2. CASE ~HasItsKings(pos, FALSE)
  <2>1. SetSfen(ToSfen(pos), TRUE) = [ok |-> TRUE, P |-> pos]
    BY ReadsBack
  <2>2. (~HasItsKings(pos, FALSE)) = TRUE
    BY <1>2
  <2> QED BY <2>1, <2>2 DEF TextIsReadBack
<1> QED BY <1>1, <1>2

(* In every position of a game, the text to_sfen writes is one that set_sfen
   accepts, and it is read back as the very same position: board, bitboards,
   kings, hands, key, side and ply. *)
THEOREM GamesReadBackTheirTexts == Spec => []StateIsExact
<1>1. GameInv /\ Writable(pos) => StateIsExact
  BY PositionsAreExact, TextsAreReadBack DEF StateIsExact
<1> QED BY <1>1, GamesAreSound, GamesAreWritable, PTL
=============================================================================
