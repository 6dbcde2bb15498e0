--------------------------- MODULE Discovery_proof ---------------------------
(***************************************************************************)
(* For every document, every number of tokens and every set of required    *)
(* fields: a calibration is what the document says, and the options of a   *)
(* valid configuration are never refused.  The scanner does the induction  *)
(* over the document: the invariant says what its stack, its flags and its *)
(* buffers are of the tokens read so far.                                  *)
(***************************************************************************)
EXTENDS Discovery, FiniteSetTheorems, TLAPS

\* The tag at i of the document opens the element n, or is all of it.
Opens(i, n) == document[i].kind \in {"open", "empty"} /\ document[i].name = n

\* The first p tokens have nothing that is refused and no calibration field twice.
SoundUpTo(p) ==
    /\ \A i \in 1 .. p : document[i].kind # "bad"
    /\ \A n \in Required : \A i, j \in 1 .. p : Opens(i, n) /\ Opens(j, n) => i = j

\* A calibration is taken from a whole document only, in which nothing is refused
\* and every calibration field stands exactly once (the product's name at most once).
TakenFromWholeDocument ==
    result.ok =>
        /\ body = document /\ SoundUpTo(Len(document))
        /\ \A n \in Required \ {"prodname"} : \E i \in 1 .. Len(document) : Opens(i, n)

-----------------------------------------------------------------------------
(* The inductive invariant *)

Typed ==
    /\ phase \in {"options", "transfer", "scan", "done"}
    /\ document \in Seq(AnyToken)
    /\ options \in [blank : BOOLEAN, port : Int, timeout : Int]

\* Before the end nothing was taken, and the scanner stands at its beginning
\* until it has all of the document.
NothingTaken ==
    /\ phase # "done" => result = Failed
    /\ phase \in {"options", "transfer"} => position = 1 /\ seen = {}

\* What was seen is what the tokens read so far open.
ScanOK ==
    phase = "scan" =>
        /\ body = document /\ position \in 1 .. Len(document) + 1
        /\ SoundUpTo(position - 1)
        /\ \A n \in Required : n \in seen <=> \E i \in 1 .. position - 1 : Opens(i, n)

IInv == Typed /\ NothingTaken /\ ScanOK /\ TakenFromWholeDocument

\* Of the tokens before p, the tag at i opens an element that none of them closes.
StillOpen(i, p) ==
    /\ i \in Positions({"open"}) /\ i < p
    /\ \A m \in i .. p - 1 : Depth(m) >= Depth(i)

\* The stack e holds the names of the elements open before p, at their depths,
\* and every element closed before p was closed under its own name.
StackOK(p, e) ==
    /\ e \in Seq(STRING) /\ Len(e) = Depth(p - 1)
    /\ \A m \in 1 .. p - 1 : Depth(m) >= 0
    /\ \A i \in 1 .. p - 1 :
        StillOpen(i, p) => Depth(i) \in 1 .. Len(e) /\ e[Depth(i)] = document[i].name
    /\ \A k \in 1 .. Len(e) : \E i \in 1 .. p - 1 : StillOpen(i, p) /\ Depth(i) = k
    /\ \A i \in 1 .. p - 1 :
        i \in Positions({"open"}) =>
            /\ StillOpen(i, p) \/ \E j \in Partners(i) : j < p
            /\ \A j \in Partners(i) : j < p => document[j].name = document[i].name

\* Only the innermost open element is a calibration field, and those closed
\* before p hold no element.
FieldsAreLeaves(p, e) ==
    /\ \A k \in 1 .. Len(e) : k < Len(e) => e[k] \notin Required
    /\ \A n \in Required : \A i \in 1 .. p - 1 : Opens(i, n) =>
        \A t \in Within(i) : t < p => document[t].kind \notin {"open", "empty"}

\* The text in the element at i, as far as it stands before p.
TextBefore(i, p) == {t \in Within(i) : document[t].kind = "text" /\ t < p}

\* The buffers f hold the text that the fields have before p.
BuffersOK(p, f) ==
    \A n \in Required :
        /\ (\A i \in 1 .. p - 1 : ~ Opens(i, n)) => f[n] = <<>>
        /\ \A i \in 1 .. p - 1 : Opens(i, n) => f[n] = Pieces(TextBefore(i, p))

\* Until the scan nothing has arrived and nothing is open; the scan then keeps
\* the stack, the flags and the buffers in step with the document.
ScanMeans ==
    /\ seen \subseteq Required /\ fields \in [Required -> Seq(STRING)]
    /\ phase \in {"options", "transfer"} =>
        body = <<>> /\ elements = <<>> /\ fields = [n \in Required |-> <<>>]
    /\ phase = "scan" =>
        /\ StackOK(position, elements) /\ FieldsAreLeaves(position, elements)
        /\ BuffersOK(position, fields)

MInv == IInv /\ ScanMeans /\ ConfigurationIsTheDocuments

-----------------------------------------------------------------------------
(* Lemmas about what a document means *)

\* The positions of a document are finitely many.
LEMMA PositionsFinite ==
    ASSUME document \in Seq(AnyToken), NEW T, T \subseteq DOMAIN document
    PROVE  IsFiniteSet(T) /\ Cardinality(T) \in Nat
  <1>1. DOMAIN document = 1 .. Len(document) /\ Len(document) \in Nat
    OBVIOUS
  <1>2. IsFiniteSet(1 .. Len(document))
    BY <1>1, FS_Interval
  <1> QED BY <1>1, <1>2, FS_Subset, FS_CardinalityType

\* A token adds itself to those of its kind that stand before it, and to no others.
LEMMA CountStep ==
    ASSUME document \in Seq(AnyToken), NEW kind
    PROVE  /\ Count(kind, 0) = 0 /\ \A i : Count(kind, i) \in Nat
           /\ \A p \in DOMAIN document :
                Count(kind, p) =
                    Count(kind, p - 1) + (IF document[p].kind = kind THEN 1 ELSE 0)
  <1> DEFINE UpTo(i) == {j \in Positions({kind}) : j <= i}
  <1>1. \A i : UpTo(i) \subseteq DOMAIN document
    BY DEF Positions
  <1>2. UpTo(0) = {}
    BY DEF Positions
  <1>3. ASSUME NEW p \in DOMAIN document, document[p].kind = kind
        PROVE  UpTo(p) = UpTo(p - 1) \cup {p} /\ p \notin UpTo(p - 1)
    BY <1>3 DEF Positions
  <1>4. ASSUME NEW p \in DOMAIN document, document[p].kind # kind
        PROVE  UpTo(p) = UpTo(p - 1)
    BY <1>4 DEF Positions
  <1>5. \A i : Count(kind, i) = Cardinality(UpTo(i))
    BY DEF Count
  <1> HIDE DEF UpTo
  <1>6. \A i : IsFiniteSet(UpTo(i)) /\ Cardinality(UpTo(i)) \in Nat
    BY <1>1, PositionsFinite
  <1>7. Count(kind, 0) = 0 /\ \A i : Count(kind, i) \in Nat
    BY <1>2, <1>5, <1>6, FS_EmptySet
  <1>8. ASSUME NEW p \in DOMAIN document
        PROVE  Count(kind, p) = Count(kind, p - 1) + (IF document[p].kind = kind THEN 1 ELSE 0)
    <2>1. CASE document[p].kind = kind
      <3>1. Cardinality(UpTo(p)) = Cardinality(UpTo(p - 1)) + 1
        BY <1>3, <1>6, <2>1, FS_AddElement
      <3> QED BY <1>5, <2>1, <3>1
    <2>2. CASE document[p].kind # kind
      BY <1>4, <1>5, <1>7, <2>2
    <2> QED BY <2>1, <2>2
  <1> QED BY <1>7, <1>8

\* A depth is a number, zero before the first token; an opening tag goes one
\* deeper, a closing tag one up.
LEMMA DepthStep ==
    ASSUME document \in Seq(AnyToken)
    PROVE  /\ Depth(0) = 0 /\ \A i : Depth(i) \in Int
           /\ \A p \in DOMAIN document :
                /\ document[p].kind = "open" => Depth(p) = Depth(p - 1) + 1
                /\ document[p].kind = "close" => Depth(p) = Depth(p - 1) - 1
                /\ document[p].kind \notin {"open", "close"} => Depth(p) = Depth(p - 1)
  <1>1. /\ Count("open", 0) = 0 /\ \A i : Count("open", i) \in Nat
        /\ \A p \in DOMAIN document :
            Count("open", p) =
                Count("open", p - 1) + (IF document[p].kind = "open" THEN 1 ELSE 0)
    BY CountStep
  <1>2. /\ Count("close", 0) = 0 /\ \A i : Count("close", i) \in Nat
        /\ \A p \in DOMAIN document :
            Count("close", p) =
                Count("close", p - 1) + (IF document[p].kind = "close" THEN 1 ELSE 0)
    BY CountStep
  <1> QED BY <1>1, <1>2 DEF Depth

\* No text, no pieces.
LEMMA PiecesEmpty == Pieces({}) = <<>>
  <1>1. Cardinality({}) = 0
    BY FS_EmptySet
  <1> QED BY <1>1 DEF Pieces

\* A text behind all others is the last piece.
LEMMA PiecesAppend ==
    ASSUME document \in Seq(AnyToken), NEW T, T \subseteq DOMAIN document,
           NEW p \in DOMAIN document, \A t \in T : t < p
    PROVE  Pieces(T \cup {p}) = Append(Pieces(T), document[p].text)
  <1> DEFINE S == T \cup {p}
             c == Cardinality(T)
             Rank(U, t) == Cardinality({u \in U : u <= t})
  <1>1. DOMAIN document \subseteq Nat /\ p \in Nat /\ T \subseteq Nat /\ p \notin T
    OBVIOUS
  <1>2. IsFiniteSet(T) /\ c \in Nat
    BY PositionsFinite
  <1>3. Cardinality(S) = c + 1
    BY <1>1, <1>2, FS_AddElement
  <1>4. Rank(S, p) = c + 1
    <2>1. {u \in S : u <= p} = S
      BY <1>1
    <2> QED BY <1>3, <2>1
  <1>5. \A t \in T : Rank(S, t) = Rank(T, t)
    <2> TAKE t \in T
    <2>1. {u \in S : u <= t} = {u \in T : u <= t}
      BY <1>1
    <2> QED BY <2>1
  <1>6. \A t \in T : Rank(T, t) \in Nat /\ Rank(T, t) <= c
    <2> TAKE t \in T
    <2>1. {u \in T : u <= t} \subseteq T
      OBVIOUS
    <2> QED BY <1>2, <2>1, FS_Subset, FS_CardinalityType
  <1>0. p \in S /\ (\A t \in S : t \in T \/ t = p) /\ T \subseteq S
    OBVIOUS
  <1> HIDE DEF Rank, c, S
  <1>7. \A k \in 1 .. c : {t \in S : Rank(S, t) = k} = {t \in T : Rank(T, t) = k}
    BY <1>0, <1>2, <1>4, <1>5
  <1>8. {t \in S : Rank(S, t) = c + 1} = {p}
    BY <1>0, <1>2, <1>4, <1>5, <1>6
  <1>9. \A k \in 1 .. c : Nth(S, k) = Nth(T, k)
    BY <1>7 DEF Nth, Rank
  <1>10. Nth(S, c + 1) = p
    <2>1. Max({p}) = p
      BY <1>1 DEF Max
    <2> QED BY <1>8, <2>1 DEF Nth, Rank
  <1>11. /\ Pieces(T) = [k \in 1 .. c |-> document[Nth(T, k)].text]
         /\ Pieces(S) = [k \in 1 .. c + 1 |-> document[Nth(S, k)].text]
    BY <1>3 DEF Pieces, c
  <1> DEFINE V == {document[Nth(T, k)].text : k \in 1 .. c}
  <1>12. Pieces(T) \in [1 .. c -> V]
    BY <1>11
  <1> HIDE DEF V
  <1>13. Pieces(T) \in Seq(V) /\ Len(Pieces(T)) = c
    BY <1>2, <1>12
  <1>14. Pieces(S) = Append(Pieces(T), document[p].text)
    BY <1>2, <1>9, <1>10, <1>11, <1>13
  <1> QED BY <1>14 DEF S

\* What a document's tokens are.
LEMMA TokenType ==
    ASSUME document \in Seq(AnyToken)
    PROVE  /\ Len(document) \in Nat /\ DOMAIN document = 1 .. Len(document)
           /\ \A p \in DOMAIN document :
                /\ document[p].kind \in {"open", "empty", "close", "text", "skip", "bad"}
                /\ document[p].name \in STRING /\ document[p].text \in STRING
  <1>1. \A t \in AnyToken :
            /\ t.kind \in {"open", "empty", "close", "text", "skip", "bad"}
            /\ t.name \in STRING /\ t.text \in STRING
    BY DEF AnyToken
  <1>2. Len(document) \in Nat /\ DOMAIN document = 1 .. Len(document)
    OBVIOUS
  <1>3. \A p \in DOMAIN document : document[p] \in AnyToken
    OBVIOUS
  <1> QED BY <1>1, <1>2, <1>3

\* The next token leaves an element open unless it goes up from it.
LEMMA StillOpenStep ==
    ASSUME document \in Seq(AnyToken), NEW p \in DOMAIN document, NEW i \in 1 .. p
    PROVE  StillOpen(i, p + 1) <=>
               \/ i = p /\ document[p].kind = "open"
               \/ i < p /\ StillOpen(i, p) /\ Depth(p) >= Depth(i)
  <1>1. p \in Int /\ \A m : Depth(m) \in Int
    BY DepthStep
  <1>2. \A m \in i .. p : m = p \/ m \in i .. p - 1
    BY <1>1
  <1> QED BY <1>1, <1>2 DEF StillOpen, Positions

\* The tag that closes an element is the first that goes up from it.
LEMMA PartnersStep ==
    ASSUME document \in Seq(AnyToken), NEW p \in DOMAIN document,
           NEW i \in 1 .. p - 1, i \in Positions({"open"})
    PROVE  /\ p \in Partners(i) <=> StillOpen(i, p) /\ Depth(p) < Depth(i)
           /\ StillOpen(i, p) => \A j \in Partners(i) : j >= p
           /\ p \in Partners(i) => document[p].kind = "close"
  <1>1. p \in Int /\ i \in Int /\ DOMAIN document \subseteq Int /\ \A m : Depth(m) \in Int
    BY DepthStep
  <1>2. p \in Partners(i) => StillOpen(i, p) /\ Depth(p) < Depth(i) /\ document[p].kind = "close"
    BY <1>1 DEF Partners, StillOpen, Positions
  <1>3. StillOpen(i, p) => \A j \in Partners(i) : j >= p
    BY <1>1 DEF Partners, StillOpen, Positions
  <1>4. ASSUME StillOpen(i, p), Depth(p) < Depth(i)
        PROVE  p \in Partners(i)
    <2>1. Depth(p - 1) >= Depth(i)
      BY <1>1, <1>4 DEF StillOpen
    <2>2. document[p].kind = "close" /\ Depth(p) = Depth(p - 1) - 1
      BY <1>1, <1>4, <2>1, DepthStep
    <2> QED BY <1>1, <1>4, <2>1, <2>2 DEF Partners, StillOpen, Positions
  <1> QED BY <1>2, <1>3, <1>4

\* Every element opened before p is still open or was closed under its own name,
\* and one more token keeps this if its name is right.
LEMMA ClosedStep ==
    ASSUME document \in Seq(AnyToken), NEW p \in DOMAIN document, NEW e, StackOK(p, e),
           document[p].kind = "close" => e # <<>> /\ Last(e) = document[p].name
    PROVE  \A i \in 1 .. p :
            i \in Positions({"open"}) =>
                /\ StillOpen(i, p + 1) \/ \E j \in Partners(i) : j < p + 1
                /\ \A j \in Partners(i) : j < p + 1 => document[j].name = document[i].name
  <1> SUFFICES ASSUME NEW i \in 1 .. p, i \in Positions({"open"})
               PROVE  /\ StillOpen(i, p + 1) \/ \E j \in Partners(i) : j < p + 1
                      /\ \A j \in Partners(i) : j < p + 1 => document[j].name = document[i].name
    OBVIOUS
  <1>1. p \in Int /\ i \in Int /\ DOMAIN document \subseteq Int /\ \A m : Depth(m) \in Int
    BY DepthStep
  <1>2. CASE i = p
    <2>1. StillOpen(i, p + 1)
      BY <1>2, StillOpenStep DEF Positions
    <2>2. \A j \in Partners(i) : j \in Int /\ j > i
      BY <1>1 DEF Partners, Positions
    <2> QED BY <1>1, <1>2, <2>1, <2>2
  <1>3. CASE i \in 1 .. p - 1
    <2>1. /\ StillOpen(i, p) \/ \E j \in Partners(i) : j < p
          /\ \A j \in Partners(i) : j < p => document[j].name = document[i].name
      BY <1>3 DEF StackOK
    <2>2. \A j \in Partners(i) : j \in Int
      BY <1>1 DEF Partners, Positions
    <2>3. StillOpen(i, p + 1) \/ \E j \in Partners(i) : j < p + 1
      <3>1. CASE StillOpen(i, p) /\ Depth(p) >= Depth(i)
        <4>1. StillOpen(i, p + 1)
          BY <1>1, <1>3, <3>1, StillOpenStep
        <4> QED BY <4>1
      <3>2. CASE StillOpen(i, p) /\ Depth(p) < Depth(i)
        <4>1. p \in Partners(i)
          BY <1>3, <3>2, PartnersStep
        <4> QED BY <1>1, <4>1
      <3> QED BY <1>1, <2>1, <2>2, <3>1, <3>2
    <2>4. p \in Partners(i) => document[p].name = document[i].name
      <3> HAVE p \in Partners(i)
      <3>1. StillOpen(i, p) /\ Depth(p) < Depth(i) /\ document[p].kind = "close"
        BY <1>3, PartnersStep
      <3>2. Depth(p) = Depth(p - 1) - 1 /\ Len(e) = Depth(p - 1) /\ e \in Seq(STRING)
        BY <3>1, DepthStep DEF StackOK
      <3>3. Depth(i) \in 1 .. Len(e) /\ e[Depth(i)] = document[i].name
        BY <1>3, <3>1 DEF StackOK
      <3>4. Depth(i) = Len(e)
        BY <1>1, <3>1, <3>2, <3>3
      <3> QED BY <3>1, <3>2, <3>3, <3>4 DEF Last
    <2> QED BY <1>1, <2>1, <2>2, <2>3, <2>4
  <1> QED BY <1>1, <1>2, <1>3

\* Pushing the name of an opening tag keeps the stack.
LEMMA StackPush ==
    ASSUME document \in Seq(AnyToken), NEW p \in DOMAIN document, NEW e, StackOK(p, e),
           document[p].kind = "open"
    PROVE  StackOK(p + 1, Append(e, document[p].name))
  <1> DEFINE f == Append(e, document[p].name)
  <1>1. /\ p \in Int /\ p >= 1 /\ \A m : Depth(m) \in Int
        /\ Depth(p) = Depth(p - 1) + 1 /\ e \in Seq(STRING) /\ Len(e) = Depth(p - 1)
    BY DepthStep, TokenType DEF StackOK
  <1>2. /\ f \in Seq(STRING) /\ Len(f) = Len(e) + 1 /\ f[Len(e) + 1] = document[p].name
        /\ \A k \in 1 .. Len(e) : f[k] = e[k]
    BY <1>1, TokenType
  <1> HIDE DEF f
  <1>3. \A m \in 1 .. p : Depth(m) >= 0
    BY <1>1 DEF StackOK
  <1>4. \A i \in 1 .. p :
            StillOpen(i, p + 1) => Depth(i) \in 1 .. Len(f) /\ f[Depth(i)] = document[i].name
    <2> TAKE i \in 1 .. p
    <2> HAVE StillOpen(i, p + 1)
    <2>1. CASE i = p
      BY <1>1, <1>2, <2>1
    <2>2. CASE i \in 1 .. p - 1
      <3>1. Depth(i) \in 1 .. Len(e) /\ e[Depth(i)] = document[i].name
        BY <2>2, StillOpenStep DEF StackOK
      <3> QED BY <1>1, <1>2, <3>1
    <2> QED BY <1>1, <2>1, <2>2
  <1>5. \A k \in 1 .. Len(f) : \E i \in 1 .. p : StillOpen(i, p + 1) /\ Depth(i) = k
    <2> TAKE k \in 1 .. Len(f)
    <2>1. CASE k = Len(e) + 1
      <3>1. p \in 1 .. p /\ StillOpen(p, p + 1) /\ Depth(p) = k
        BY <1>1, <2>1, StillOpenStep
      <3> QED BY <3>1
    <2>2. CASE k \in 1 .. Len(e)
      <3>1. PICK i \in 1 .. p - 1 : StillOpen(i, p) /\ Depth(i) = k
        BY <2>2 DEF StackOK
      <3>2. i \in 1 .. p /\ i < p /\ Depth(p) >= Depth(i)
        BY <1>1, <2>2, <3>1
      <3>3. StillOpen(i, p + 1)
        BY <3>1, <3>2, StillOpenStep
      <3> QED BY <3>1, <3>2, <3>3
    <2> QED BY <1>1, <1>2, <2>1, <2>2
  <1>6. p + 1 - 1 = p
    BY <1>1
  <1>7. \A i \in 1 .. p :
            i \in Positions({"open"}) =>
                /\ StillOpen(i, p + 1) \/ \E j \in Partners(i) : j < p + 1
                /\ \A j \in Partners(i) : j < p + 1 => document[j].name = document[i].name
    BY ClosedStep
  <1>8. Len(f) = Depth(p)
    BY <1>1, <1>2
  <1>9. StackOK(p + 1, f)
    BY <1>2, <1>3, <1>4, <1>5, <1>6, <1>7, <1>8 DEF StackOK
  <1> QED BY <1>9 DEF f

\* All but the last of a stack.
LEMMA FrontSeq ==
    ASSUME NEW e \in Seq(STRING), e # <<>>
    PROVE  /\ Front(e) \in Seq(STRING) /\ Len(e) \in Nat /\ Len(e) >= 1
           /\ Len(Front(e)) = Len(e) - 1
           /\ \A k \in 1 .. Len(Front(e)) : Front(e)[k] = e[k]
  <1>1. Len(e) \in Nat /\ Len(e) >= 1
    OBVIOUS
  <1>2. SubSeq(e, 1, Len(e) - 1) \in Seq(STRING) /\ Len(SubSeq(e, 1, Len(e) - 1)) = Len(e) - 1
    BY <1>1
  <1>3. \A k \in 1 .. Len(e) - 1 : SubSeq(e, 1, Len(e) - 1)[k] = e[k]
    BY <1>1
  <1> QED BY <1>1, <1>2, <1>3 DEF Front

\* Popping the stack at the closing tag of the innermost element keeps it.
LEMMA StackPop ==
    ASSUME document \in Seq(AnyToken), NEW p \in DOMAIN document, NEW e, StackOK(p, e),
           document[p].kind = "close", e # <<>>, Last(e) = document[p].name
    PROVE  StackOK(p + 1, Front(e))
  <1> DEFINE f == Front(e)
  <1>1. /\ p \in Int /\ p >= 1 /\ \A m : Depth(m) \in Int
        /\ Depth(p) = Depth(p - 1) - 1 /\ e \in Seq(STRING) /\ Len(e) = Depth(p - 1)
    BY DepthStep, TokenType DEF StackOK
  <1>2. /\ f \in Seq(STRING) /\ Len(f) = Len(e) - 1 /\ Len(e) >= 1
        /\ \A k \in 1 .. Len(f) : f[k] = e[k]
    BY <1>1, FrontSeq
  <1> HIDE DEF f
  <1>3. \A m \in 1 .. p : Depth(m) >= 0
    BY <1>1, <1>2 DEF StackOK
  <1>4. \A i \in 1 .. p :
            StillOpen(i, p + 1) => Depth(i) \in 1 .. Len(f) /\ f[Depth(i)] = document[i].name
    <2> TAKE i \in 1 .. p
    <2> HAVE StillOpen(i, p + 1)
    <2>0. i < p /\ StillOpen(i, p) /\ Depth(p) >= Depth(i)
      BY StillOpenStep
    <2>1. i \in 1 .. p - 1 /\ StillOpen(i, p) /\ Depth(p) >= Depth(i)
      BY <1>1, <2>0
    <2>2. Depth(i) \in 1 .. Len(e) /\ e[Depth(i)] = document[i].name
      BY <2>1 DEF StackOK
    <2> QED BY <1>1, <1>2, <2>1, <2>2
  <1>5. \A k \in 1 .. Len(f) : \E i \in 1 .. p : StillOpen(i, p + 1) /\ Depth(i) = k
    <2> TAKE k \in 1 .. Len(f)
    <2>1. PICK i \in 1 .. p - 1 : StillOpen(i, p) /\ Depth(i) = k
      BY <1>1, <1>2 DEF StackOK
    <2>2. i \in 1 .. p /\ StillOpen(i, p + 1)
      BY <1>1, <1>2, <2>1, StillOpenStep
    <2> QED BY <2>1, <2>2
  <1>6. p + 1 - 1 = p
    BY <1>1
  <1>7. \A i \in 1 .. p :
            i \in Positions({"open"}) =>
                /\ StillOpen(i, p + 1) \/ \E j \in Partners(i) : j < p + 1
                /\ \A j \in Partners(i) : j < p + 1 => document[j].name = document[i].name
    BY ClosedStep
  <1>8. Len(f) = Depth(p)
    BY <1>1, <1>2
  <1>9. StackOK(p + 1, f)
    BY <1>2, <1>3, <1>4, <1>5, <1>6, <1>7, <1>8 DEF StackOK
  <1> QED BY <1>9 DEF f

\* Every other token leaves the stack as it is.
LEMMA StackStay ==
    ASSUME document \in Seq(AnyToken), NEW p \in DOMAIN document, NEW e, StackOK(p, e),
           document[p].kind \notin {"open", "close"}
    PROVE  StackOK(p + 1, e)
  <1>1. /\ p \in Int /\ p >= 1 /\ \A m : Depth(m) \in Int
        /\ Depth(p) = Depth(p - 1) /\ e \in Seq(STRING) /\ Len(e) = Depth(p - 1)
    BY DepthStep, TokenType DEF StackOK
  <1>2. \A m \in 1 .. p : Depth(m) >= 0
    BY <1>1 DEF StackOK
  <1>3. \A i \in 1 .. p :
            StillOpen(i, p + 1) => Depth(i) \in 1 .. Len(e) /\ e[Depth(i)] = document[i].name
    <2> TAKE i \in 1 .. p
    <2> HAVE StillOpen(i, p + 1)
    <2>1. i \in 1 .. p - 1 /\ StillOpen(i, p)
      BY <1>1, StillOpenStep
    <2> QED BY <2>1 DEF StackOK
  <1>4. \A k \in 1 .. Len(e) : \E i \in 1 .. p : StillOpen(i, p + 1) /\ Depth(i) = k
    <2> TAKE k \in 1 .. Len(e)
    <2>1. PICK i \in 1 .. p - 1 : StillOpen(i, p) /\ Depth(i) = k
      BY DEF StackOK
    <2>2. i \in 1 .. p /\ StillOpen(i, p + 1)
      BY <1>1, <2>1, StillOpenStep
    <2> QED BY <2>1, <2>2
  <1>5. p + 1 - 1 = p
    BY <1>1
  <1>6. \A i \in 1 .. p :
            i \in Positions({"open"}) =>
                /\ StillOpen(i, p + 1) \/ \E j \in Partners(i) : j < p + 1
                /\ \A j \in Partners(i) : j < p + 1 => document[j].name = document[i].name
    BY ClosedStep
  <1> QED BY <1>1, <1>2, <1>3, <1>4, <1>5, <1>6 DEF StackOK


\* A token other than a closing tag stands in the elements that are still open.
LEMMA WithinNow ==
    ASSUME document \in Seq(AnyToken), NEW p \in DOMAIN document, NEW e, StackOK(p, e),
           document[p].kind # "close", NEW i \in 1 .. p - 1, i \in Positions({"open"})
    PROVE  p \in Within(i) <=> StillOpen(i, p)
  <1>1. /\ p \in Int /\ i \in Int /\ i < p /\ document[i].kind = "open"
        /\ \A j \in Partners(i) : j \in Int
    BY DEF Partners, Positions
  <1>2. Within(i) = {k \in DOMAIN document : k > i /\ \A j \in Partners(i) : k < j}
    BY <1>1 DEF Within
  <1>3. p \notin Partners(i)
    BY PartnersStep
  <1>4. StillOpen(i, p) => \A j \in Partners(i) : j >= p
    BY PartnersStep
  <1>5. StillOpen(i, p) \/ \E j \in Partners(i) : j < p
    BY DEF StackOK
  <1> QED BY <1>1, <1>2, <1>3, <1>4, <1>5

\* The name on top of the stack is that of the innermost open element.
LEMMA Innermost ==
    ASSUME document \in Seq(AnyToken), NEW p \in DOMAIN document, NEW e, StackOK(p, e),
           e # <<>>
    PROVE  \E i \in 1 .. p - 1 :
            StillOpen(i, p) /\ Depth(i) = Len(e) /\ document[i].name = Last(e)
  <1>1. e \in Seq(STRING) /\ Len(e) \in 1 .. Len(e)
    BY DEF StackOK
  <1>2. PICK i \in 1 .. p - 1 : StillOpen(i, p) /\ Depth(i) = Len(e)
    BY <1>1 DEF StackOK
  <1>3. e[Depth(i)] = document[i].name
    BY <1>2 DEF StackOK
  <1> QED BY <1>2, <1>3 DEF Last

\* A calibration field that is open is the innermost element.
LEMMA OpenFieldIsInnermost ==
    ASSUME document \in Seq(AnyToken), NEW p \in DOMAIN document, NEW e, StackOK(p, e),
           FieldsAreLeaves(p, e), NEW i \in 1 .. p - 1, StillOpen(i, p),
           document[i].name \in Required
    PROVE  e # <<>> /\ Last(e) = document[i].name
  <1>1. /\ Depth(i) \in 1 .. Len(e) /\ e[Depth(i)] = document[i].name
        /\ e \in Seq(STRING)
    BY DEF StackOK
  <1>2. Depth(i) = Len(e)
    BY <1>1 DEF FieldsAreLeaves
  <1> QED BY <1>1, <1>2 DEF Last

\* A calibration field stays without elements if none opens inside of it.
LEMMA LeavesStep ==
    ASSUME document \in Seq(AnyToken), NEW p \in DOMAIN document, NEW e, StackOK(p, e),
           FieldsAreLeaves(p, e),
           document[p].kind \in {"open", "empty"} => e = <<>> \/ Last(e) \notin Required
    PROVE  \A n \in Required : \A i \in 1 .. p : Opens(i, n) =>
            \A t \in Within(i) : t < p + 1 => document[t].kind \notin {"open", "empty"}
  <1> SUFFICES ASSUME NEW n \in Required, NEW i \in 1 .. p, Opens(i, n),
                      NEW t \in Within(i), t < p + 1,
                      document[t].kind \in {"open", "empty"}
               PROVE  FALSE
    OBVIOUS
  <1>1. /\ p \in Int /\ t \in DOMAIN document /\ t \in Int /\ i \in Int /\ t > i
        /\ i \in DOMAIN document /\ document[i].kind = "open"
    BY DEF Within, Opens
  <1>2. i \in 1 .. p - 1
    BY <1>1
  <1>3. t = p
    <2>1. ~ (t < p)
      BY <1>2 DEF FieldsAreLeaves
    <2> QED BY <1>1, <2>1
  <1>4. StillOpen(i, p)
    BY <1>1, <1>2, <1>3, WithinNow DEF Positions
  <1>5. e # <<>> /\ Last(e) = n
    BY <1>2, <1>4, OpenFieldIsInnermost DEF Opens
  <1> QED BY <1>3, <1>5

\* The three ways in which the stack moves keep the fields innermost.
LEMMA LeavesMove ==
    ASSUME document \in Seq(AnyToken), NEW p \in DOMAIN document, NEW e, StackOK(p, e),
           FieldsAreLeaves(p, e),
           document[p].kind \in {"open", "empty"} => e = <<>> \/ Last(e) \notin Required
    PROVE  /\ FieldsAreLeaves(p + 1, e)
           /\ e # <<>> => FieldsAreLeaves(p + 1, Front(e))
           /\ document[p].kind = "open" => FieldsAreLeaves(p + 1, Append(e, document[p].name))
  <1>1. /\ p + 1 - 1 = p /\ e \in Seq(STRING)
        /\ \A k \in 1 .. Len(e) : k < Len(e) => e[k] \notin Required
    BY DEF StackOK, FieldsAreLeaves
  <1>2. \A n \in Required : \A i \in 1 .. p : Opens(i, n) =>
            \A t \in Within(i) : t < p + 1 => document[t].kind \notin {"open", "empty"}
    BY LeavesStep
  <1>3. FieldsAreLeaves(p + 1, e)
    BY <1>1, <1>2 DEF FieldsAreLeaves
  <1>4. ASSUME e # <<>> PROVE FieldsAreLeaves(p + 1, Front(e))
    <2>1. /\ Len(e) \in Nat /\ Len(Front(e)) = Len(e) - 1
          /\ \A k \in 1 .. Len(Front(e)) : Front(e)[k] = e[k]
      BY <1>1, <1>4, FrontSeq
    <2>2. \A k \in 1 .. Len(Front(e)) : k < Len(Front(e)) => Front(e)[k] \notin Required
      BY <1>1, <2>1
    <2> QED BY <1>1, <1>2, <2>2 DEF FieldsAreLeaves
  <1>5. ASSUME document[p].kind = "open"
        PROVE  FieldsAreLeaves(p + 1, Append(e, document[p].name))
    <2> DEFINE f == Append(e, document[p].name)
    <2>1. Len(f) = Len(e) + 1 /\ \A k \in 1 .. Len(e) : f[k] = e[k]
      BY <1>1, TokenType
    <2>2. e = <<>> \/ e[Len(e)] \notin Required
      BY <1>5 DEF Last
    <2> HIDE DEF f
    <2>3. \A k \in 1 .. Len(f) : k < Len(f) => f[k] \notin Required
      <3> TAKE k \in 1 .. Len(f)
      <3> HAVE k < Len(f)
      <3>1. k \in 1 .. Len(e) /\ f[k] = e[k] /\ e # <<>>
        BY <1>1, <2>1
      <3> QED BY <1>1, <2>2, <3>1
    <2> QED BY <1>1, <1>2, <2>3 DEF FieldsAreLeaves, f
  <1> QED BY <1>3, <1>4, <1>5

\* append_required_text() keeps in the buffers what the fields say so far.
LEMMA BuffersStep ==
    ASSUME document \in Seq(AnyToken), NEW p \in DOMAIN document, NEW e, StackOK(p, e),
           FieldsAreLeaves(p, e), SoundUpTo(p),
           NEW f \in [Required -> Seq(STRING)], BuffersOK(p, f),
           NEW g, g = IF e # <<>> /\ Last(e) \in Required /\ document[p].kind = "text"
                      THEN [f EXCEPT ![Last(e)] = Append(@, document[p].text)] ELSE f
    PROVE  BuffersOK(p + 1, g) /\ g \in [Required -> Seq(STRING)]
  <1>1. p + 1 - 1 = p /\ p \in Int /\ DOMAIN document \subseteq Int
    OBVIOUS
  <1>2. ASSUME NEW n \in Required
        PROVE  g[n] = IF e # <<>> /\ Last(e) = n /\ document[p].kind = "text"
                      THEN Append(f[n], document[p].text) ELSE f[n]
    OBVIOUS
  <1>3. \A i : TextBefore(i, p) \subseteq DOMAIN document
    BY DEF TextBefore, Within
  <1>4. ASSUME NEW n \in Required, e # <<>>, Last(e) = n
        PROVE  \E i \in 1 .. p - 1 : Opens(i, n) /\ StillOpen(i, p) /\ i \in Positions({"open"})
    BY <1>4, Innermost DEF Opens, StillOpen, Positions
  <1>5. ASSUME NEW n \in Required, \A i \in 1 .. p : ~ Opens(i, n)
        PROVE  g[n] = <<>>
    <2>1. f[n] = <<>>
      BY <1>1, <1>5 DEF BuffersOK
    <2>2. ~ (e # <<>> /\ Last(e) = n)
      BY <1>1, <1>4, <1>5
    <2> QED BY <1>2, <2>1, <2>2
  <1>6. ASSUME NEW n \in Required, Opens(p, n)
        PROVE  g[n] = Pieces(TextBefore(p, p + 1))
    <2>1. f[n] = <<>>
      BY <1>1, <1>6 DEF SoundUpTo, BuffersOK
    <2>2. g[n] = f[n]
      BY <1>2, <1>6 DEF Opens
    <2>3. TextBefore(p, p + 1) = {}
      BY <1>1 DEF TextBefore, Within
    <2> QED BY <2>1, <2>2, <2>3, PiecesEmpty
  <1>7. ASSUME NEW n \in Required, NEW i \in 1 .. p - 1, Opens(i, n)
        PROVE  g[n] = Pieces(TextBefore(i, p + 1))
    <2>0. f[n] = Pieces(TextBefore(i, p))
      BY <1>7 DEF BuffersOK
    <2>1. CASE document[p].kind = "text" /\ p \in Within(i)
      <3>1. i \in Positions({"open"})
        BY <1>1, <1>7, <2>1 DEF Within, Opens, Positions
      <3>2. StillOpen(i, p)
        BY <2>1, <3>1, WithinNow
      <3>3. e # <<>> /\ Last(e) = n
        BY <1>7, <3>2, OpenFieldIsInnermost DEF Opens
      <3>4. TextBefore(i, p + 1) = TextBefore(i, p) \cup {p}
        BY <1>1, <2>1 DEF TextBefore, Within
      <3>5. \A t \in TextBefore(i, p) : t < p
        BY DEF TextBefore
      <3>6. Pieces(TextBefore(i, p) \cup {p}) =
                Append(Pieces(TextBefore(i, p)), document[p].text)
        BY <1>3, <3>5, PiecesAppend
      <3> QED BY <1>2, <2>0, <2>1, <3>3, <3>4, <3>6
    <2>2. CASE ~ (document[p].kind = "text" /\ p \in Within(i))
      <3>1. TextBefore(i, p + 1) = TextBefore(i, p)
        BY <1>1, <2>2 DEF TextBefore, Within
      <3>2. ~ (e # <<>> /\ Last(e) = n /\ document[p].kind = "text")
        <4> SUFFICES ASSUME e # <<>>, Last(e) = n, document[p].kind = "text" PROVE FALSE
          OBVIOUS
        <4>1. PICK j \in 1 .. p - 1 :
                Opens(j, n) /\ StillOpen(j, p) /\ j \in Positions({"open"})
          BY <1>4
        <4>2. j = i
          <5>1. i \in 1 .. p /\ j \in 1 .. p
            BY <1>1
          <5> QED BY <1>7, <4>1, <5>1 DEF SoundUpTo
        <4>3. p \in Within(i)
          BY <4>1, <4>2, WithinNow
        <4> QED BY <2>2, <4>3
      <3> QED BY <1>2, <2>0, <3>1, <3>2
    <2> QED BY <2>1, <2>2
  <1>8. BuffersOK(p + 1, g)
    <2> SUFFICES ASSUME NEW n \in Required
                 PROVE  /\ (\A i \in 1 .. p : ~ Opens(i, n)) => g[n] = <<>>
                        /\ \A i \in 1 .. p : Opens(i, n) => g[n] = Pieces(TextBefore(i, p + 1))
      BY <1>1 DEF BuffersOK
    <2>1. \A i \in 1 .. p : i = p \/ i \in 1 .. p - 1
      BY <1>1
    <2> QED BY <1>5, <1>6, <1>7, <2>1
  <1>9. g \in [Required -> Seq(STRING)]
    BY TokenType
  <1> QED BY <1>8, <1>9


-----------------------------------------------------------------------------
(* What the scanner refuses is not sound, and what it takes is *)

\* A malformed token.
LEMMA BadIsUnsound ==
    ASSUME NEW p \in DOMAIN document, document[p].kind = "bad"
    PROVE  ~ Sound
  BY DEF Sound, Positions

\* A closing tag where nothing is open, or under a name that is not the innermost.
LEMMA MisclosedIsUnsound ==
    ASSUME document \in Seq(AnyToken), NEW p \in DOMAIN document, NEW e, StackOK(p, e),
           document[p].kind = "close", e = <<>> \/ Last(e) # document[p].name
    PROVE  ~ Sound
  <1>1. /\ p \in Int /\ \A m : Depth(m) \in Int
        /\ Depth(p) = Depth(p - 1) - 1 /\ e \in Seq(STRING) /\ Len(e) = Depth(p - 1)
    BY DepthStep DEF StackOK
  <1>2. CASE e = <<>>
    <2>1. Depth(p) < 0
      BY <1>1, <1>2
    <2> QED BY <1>1, <2>1 DEF Sound, WellNested
  <1>3. CASE e # <<>>
    <2>1. PICK i \in 1 .. p - 1 :
            StillOpen(i, p) /\ Depth(i) = Len(e) /\ document[i].name = Last(e)
      BY <1>3, Innermost
    <2>2. i \in Positions({"open"}) /\ Depth(p) < Depth(i)
      BY <1>1, <2>1 DEF StillOpen
    <2>3. p \in Partners(i)
      BY <2>1, <2>2, PartnersStep
    <2> QED BY <1>3, <2>1, <2>2, <2>3 DEF Sound, WellNested
  <1> QED BY <1>2, <1>3

\* An element inside a calibration field.
LEMMA NestedIsUnsound ==
    ASSUME document \in Seq(AnyToken), NEW p \in DOMAIN document, NEW e, StackOK(p, e),
           document[p].kind \in {"open", "empty"}, e # <<>>, Last(e) \in Required
    PROVE  ~ Sound
  <1>1. PICK i \in 1 .. p - 1 :
            StillOpen(i, p) /\ Depth(i) = Len(e) /\ document[i].name = Last(e)
    BY Innermost
  <1>2. i \in Positions({"open"})
    BY <1>1 DEF StillOpen
  <1>3. p \in Within(i)
    BY <1>1, <1>2, WithinNow
  <1>4. p \in Positions({"open", "empty"})
    BY DEF Positions
  <1>5. ~ Meaningful(i)
    BY <1>3, <1>4 DEF Meaningful
  <1>6. i \in Occurrences(Last(e))
    BY <1>1, <1>2 DEF Occurrences, Positions
  <1> QED BY <1>5, <1>6 DEF Sound

\* A calibration field twice.
LEMMA TwiceIsUnsound ==
    ASSUME document \in Seq(AnyToken), NEW n \in Required,
           NEW i \in DOMAIN document, NEW j \in DOMAIN document,
           Opens(i, n), Opens(j, n), i # j
    PROVE  ~ Sound
  <1>1. i \in Occurrences(n) /\ j \in Occurrences(n)
    BY DEF Occurrences, Positions, Opens
  <1>2. Occurrences(n) \subseteq DOMAIN document
    BY DEF Occurrences, Positions
  <1>3. IsFiniteSet(Occurrences(n))
    BY <1>2, PositionsFinite
  <1>4. Cardinality(Occurrences(n)) # 0 /\ Cardinality(Occurrences(n)) # 1
    BY <1>1, <1>3, FS_EmptySet, FS_Singleton
  <1> QED BY <1>4 DEF Sound

\* normalize_torque_spelling() reads the spellings that name a torque unit.
LEMMA SpellingIsNormalized ==
    ASSUME NEW t
    PROVE  /\ (\E s \in TorqueSpellings : s[1] = t) <=> NormalizeTorqueSpelling(t) \in TorqueNames
           /\ NormalizeTorqueSpelling(t) \in TorqueNames =>
                <<t, NormalizeTorqueSpelling(t)>> \in TorqueSpellings
  BY DEF TorqueSpellings, NormalizeTorqueSpelling, TorqueNames

\* The scanner stands behind the last token.
AtEnd == MInv /\ phase = "scan" /\ position > Len(body)

\* What the scanner knows at the end of the text.
LEMMA EndOfText ==
    ASSUME AtEnd
    PROVE  /\ document \in Seq(AnyToken) /\ body = document
           /\ position = Len(document) + 1 /\ Len(document) \in Nat
           /\ StackOK(Len(document) + 1, elements)
           /\ FieldsAreLeaves(Len(document) + 1, elements)
           /\ BuffersOK(Len(document) + 1, fields) /\ SoundUpTo(Len(document))
           /\ seen \subseteq Required
           /\ \A n \in Required : n \in seen <=> \E i \in 1 .. Len(document) : Opens(i, n)
  <1>1. document \in Seq(AnyToken) /\ Len(document) \in Nat
    BY DEF AtEnd, MInv, IInv, Typed
  <1>2. body = document /\ position = Len(document) + 1
    BY <1>1 DEF AtEnd, MInv, IInv, ScanOK
  <1>3. position - 1 = Len(document)
    BY <1>1, <1>2
  <1>4. /\ SoundUpTo(Len(document))
        /\ \A n \in Required : n \in seen <=> \E i \in 1 .. Len(document) : Opens(i, n)
    BY <1>3 DEF AtEnd, MInv, IInv, ScanOK
  <1> QED BY <1>1, <1>2, <1>4 DEF AtEnd, MInv, ScanMeans

\* The document is well nested when nothing is left open.
LEMMA EndNesting ==
    ASSUME AtEnd
    PROVE  WellNested <=> elements = <<>>
  <1> DEFINE L == Len(document)
  <1>1. /\ document \in Seq(AnyToken) /\ L \in Nat /\ DOMAIN document = 1 .. L
        /\ L + 1 - 1 = L /\ StackOK(L + 1, elements)
    BY EndOfText
  <1>2. /\ elements \in Seq(STRING) /\ Len(elements) = Depth(L)
        /\ \A m \in 1 .. L : Depth(m) >= 0
        /\ \A i \in 1 .. L : i \in Positions({"open"}) =>
            \A j \in Partners(i) : j < L + 1 => document[j].name = document[i].name
    BY <1>1 DEF StackOK
  <1>3. \A i : \A j \in Partners(i) : j \in 1 .. L /\ j < L + 1
    BY <1>1 DEF Partners, Positions
  <1>4. \A i \in Positions({"open"}) : i \in 1 .. L
    BY <1>1 DEF Positions
  <1>5. elements = <<>> <=> Len(elements) = 0
    BY <1>2
  <1> QED BY <1>1, <1>2, <1>3, <1>4, <1>5 DEF WellNested

\* A calibration field that was seen stands there once, the others nowhere.
LEMMA EndOccurrences ==
    ASSUME AtEnd, NEW n \in Required
    PROVE  /\ n \in seen => Cardinality(Occurrences(n)) = 1 /\ Occurrences(n) # {}
           /\ n \notin seen => Cardinality(Occurrences(n)) = 0 /\ Occurrences(n) = {}
  <1>1. \A i : i \in Occurrences(n) <=> i \in 1 .. Len(document) /\ Opens(i, n)
    BY EndOfText DEF Occurrences, Positions, Opens
  <1>2. \A i, j \in Occurrences(n) : i = j
    BY <1>1, EndOfText DEF SoundUpTo
  <1>3. n \in seen <=> \E i : i \in Occurrences(n)
    BY <1>1, EndOfText
  <1>4. ASSUME NEW i \in Occurrences(n) PROVE Cardinality(Occurrences(n)) = 1
    <2>1. Occurrences(n) = {i}
      BY <1>2
    <2> QED BY <2>1, FS_Singleton
  <1>5. Occurrences(n) = {} => Cardinality(Occurrences(n)) = 0
    BY FS_EmptySet
  <1> QED BY <1>3, <1>4, <1>5

\* The buffer of a field holds all of its text, and the field nothing else.
LEMMA EndContent ==
    ASSUME AtEnd, NEW n \in Required, NEW i \in Occurrences(n)
    PROVE  /\ Content(i) = Trim(fields[n]) /\ document[i].name = n
           /\ Within(i) \cap Positions({"open", "empty"}) = {}
  <1> DEFINE L == Len(document)
  <1>1. /\ document \in Seq(AnyToken) /\ L \in Nat /\ DOMAIN document = 1 .. L
        /\ L + 1 - 1 = L
    BY EndOfText
  <1>2. i \in 1 .. L /\ Opens(i, n) /\ document[i].name = n
    BY <1>1 DEF Occurrences, Positions, Opens
  <1>3. \A t \in Within(i) : t \in DOMAIN document /\ t < L + 1
    BY <1>1 DEF Within
  <1>4. TextBefore(i, L + 1) = {t \in Within(i) : document[t].kind = "text"}
    BY <1>3 DEF TextBefore
  <1>5. fields[n] = Pieces(TextBefore(i, L + 1))
    BY <1>1, <1>2, EndOfText DEF BuffersOK
  <1>6. Content(i) = Trim(fields[n])
    BY <1>4, <1>5 DEF Content
  <1>7. \A t \in Within(i) : document[t].kind \notin {"open", "empty"}
    BY <1>1, <1>2, <1>3, EndOfText DEF FieldsAreLeaves
  <1>8. Within(i) \cap Positions({"open", "empty"}) = {}
    BY <1>7 DEF Positions
  <1> QED BY <1>2, <1>6, <1>8

\* A field means something when the scanner can use it, and then has its value.
LEMMA EndMeaning ==
    ASSUME AtEnd, NEW n \in Required, NEW i \in Occurrences(n)
    PROVE  /\ Meaningful(i) <=> FieldUsable(n)
           /\ FieldUsable(n) => States(i, FieldValue(n, Joined(Trim(fields[n]))))
  <1> DEFINE text == Joined(Trim(fields[n]))
  <1>1. /\ Content(i) = Trim(fields[n]) /\ document[i].name = n
        /\ Within(i) \cap Positions({"open", "empty"}) = {}
    BY EndContent
  <1>2. /\ (\E s \in TorqueSpellings : s[1] = text) <=>
               NormalizeTorqueSpelling(text) \in TorqueNames
        /\ NormalizeTorqueSpelling(text) \in TorqueNames =>
               <<text, NormalizeTorqueSpelling(text)>> \in TorqueSpellings
    BY SpellingIsNormalized
  <1>3. Meaningful(i) <=>
            /\ Trim(fields[n]) # <<>> /\ Len(Trim(fields[n])) <= MaxField
            /\ CASE n \in {"cfgcpf", "cfgcpt"} -> text \in Counts
                 [] n = "scfgfu" -> text \in ForceNames
                 [] n = "scfgtu" -> \E s \in TorqueSpellings : s[1] = text
                 [] OTHER -> TRUE
    BY <1>1 DEF Meaningful
  <1>4. \A v : States(i, v) <=> IF n = "scfgtu" THEN <<text, v>> \in TorqueSpellings ELSE v = text
    BY <1>1 DEF States
  <1> HIDE DEF text
  <1>5. FieldUsable(n) <=>
            /\ Trim(fields[n]) # <<>> /\ Len(Trim(fields[n])) <= MaxField
            /\ FieldAccepts(n, text)
    BY DEF FieldUsable, text
  <1>6. FieldAccepts(n, text) <=>
            CASE n \in {"cfgcpf", "cfgcpt"} -> text \in Counts
              [] n = "scfgfu" -> text \in ForceNames
              [] n = "scfgtu" -> \E s \in TorqueSpellings : s[1] = text
              [] OTHER -> TRUE
    BY <1>2 DEF FieldAccepts
  <1>7. FieldUsable(n) => States(i, FieldValue(n, text))
    BY <1>2, <1>4, <1>5, <1>6 DEF FieldValue, FieldAccepts
  <1> QED BY <1>3, <1>5, <1>6, <1>7 DEF text

\* At the end of the text the scanner takes exactly the sound documents.
LEMMA EndIsSound ==
    ASSUME AtEnd
    PROVE  Sound <=> /\ elements = <<>> /\ Required \subseteq seen \cup {"prodname"}
                     /\ \A n \in seen : FieldUsable(n)
  <1>1. body = document /\ seen \subseteq Required
    BY EndOfText
  <1>2. Positions({"bad"}) = {}
    BY EndOfText DEF SoundUpTo, Positions
  <1>3. \A n \in Required :
            Cardinality(Occurrences(n)) \in (IF n = "prodname" THEN {0, 1} ELSE {1})
                <=> n \in seen \cup {"prodname"}
    <2> TAKE n \in Required
    <2> QED BY EndOccurrences
  <1>4. \A n \in Required :
            (\A i \in Occurrences(n) : Meaningful(i)) <=> (n \in seen => FieldUsable(n))
    <2> TAKE n \in Required
    <2>1. \A i \in Occurrences(n) : Meaningful(i) <=> FieldUsable(n)
      BY EndMeaning
    <2>2. n \in seen <=> \E i : i \in Occurrences(n)
      BY EndOccurrences
    <2> QED BY <2>1, <2>2
  <1> QED BY <1>1, <1>2, <1>3, <1>4, EndNesting DEF Sound


\* Editing a document makes another document.
LEMMA EditTyped ==
    ASSUME NEW s \in Seq(AnyToken), NEW i \in 1 .. Len(s) + 1, NEW t \in AnyToken
    PROVE  /\ InsertAt(s, i, t) \in Seq(AnyToken)
           /\ i \in DOMAIN s => /\ RemoveAt(s, i) \in Seq(AnyToken)
                                /\ ReplaceAt(s, i, t) \in Seq(AnyToken)
  <1>1. SubSeq(s, 1, i - 1) \in Seq(AnyToken) /\ SubSeq(s, i, Len(s)) \in Seq(AnyToken)
    OBVIOUS
  <1>2. SubSeq(s, i + 1, Len(s)) \in Seq(AnyToken)
    OBVIOUS
  <1>3. <<t>> \in Seq(AnyToken)
    OBVIOUS
  <1>4. InsertAt(s, i, t) \in Seq(AnyToken)
    BY <1>1, <1>3 DEF InsertAt
  <1>5. RemoveAt(s, i) \in Seq(AnyToken)
    BY <1>1, <1>2 DEF RemoveAt
  <1>6. i \in DOMAIN s => ReplaceAt(s, i, t) \in Seq(AnyToken)
    BY DEF ReplaceAt
  <1> QED BY <1>4, <1>5, <1>6

\* A response that is complete and not too large is the document.
LEMMA WholeResponse ==
    ASSUME NEW s \in Seq(AnyToken), ~ AppendResponse(s).tooLarge
    PROVE  AppendResponse(s).body = s /\ Len(s) <= MaxResponse
  <1>0. /\ AppendResponse(s).tooLarge = (Len(s) > MaxResponse)
        /\ AppendResponse(s).body = SubSeq(s, 1, Min({Len(s), MaxResponse}))
    BY Zenon DEF AppendResponse
  <1>1. Len(s) \in Nat /\ MaxResponse \in Nat /\ Len(s) <= MaxResponse
    <2>1. ~ (Len(s) > MaxResponse)
      BY <1>0, Zenon
    <2>2. Len(s) \in Nat /\ MaxResponse \in Nat
      BY DiscoveryAssumption
    <2> QED BY <2>1, <2>2
  <1>2. Min({Len(s), MaxResponse}) = Len(s)
    BY <1>1 DEF Min
  <1>3. SubSeq(s, 1, Len(s)) = s
    OBVIOUS
  <1> QED BY <1>0, <1>1, <1>2, <1>3

-----------------------------------------------------------------------------
(* One lemma per step *)

\* The inductive invariant holds when the program begins.
LEMMA InitIInv == Init => IInv
  <1> SUFFICES ASSUME Init PROVE IInv
    OBVIOUS
  <1>1. Typed
    <2>1. document \in Seq(AnyToken)
      BY DiscoveryAssumption DEF Init
    <2>2. PerMillisecond \in Int /\ Timeouts \subseteq Int /\ MaxPort \in Int
      BY DiscoveryAssumption DEF MaxPort
    <2>3. options = GoodOptions \/
          options \in [blank : BOOLEAN, port : {0, 1, MaxPort, MaxPort + 1}, timeout : Timeouts]
      BY DEF Init
    <2>4. GoodOptions \in [blank : BOOLEAN, port : Int, timeout : Int]
      BY <2>2 DEF GoodOptions
    <2> DEFINE Ports == {0, 1, MaxPort, MaxPort + 1}
    <2>5. Ports \subseteq Int
      BY <2>2
    <2> HIDE DEF Ports
    <2>6. options \in [blank : BOOLEAN, port : Int, timeout : Int]
      <3>1. CASE options \in [blank : BOOLEAN, port : Ports, timeout : Timeouts]
        BY <2>2, <2>5, <3>1
      <3> QED BY <2>3, <2>4, <3>1 DEF Ports
    <2> QED BY <2>1, <2>6 DEF Init, Typed
  <1>2. NothingTaken /\ ScanOK /\ TakenFromWholeDocument
    BY DEF Init, NothingTaken, ScanOK, TakenFromWholeDocument, Failed
  <1> QED BY <1>1, <1>2 DEF IInv

\* Nothing is taken when discovery fails.
LEMMA FailIInv ==
    ASSUME IInv, Fail, UNCHANGED <<options, document>>
    PROVE  IInv'
  BY DEF IInv, Fail, Failed, Typed, NothingTaken, ScanOK, TakenFromWholeDocument

\* Another document before the transfer is a document as well.
LEMMA SensorServesIInv ==
    ASSUME IInv, SensorServes
    PROVE  IInv'
  <1>1. /\ phase = "options" /\ UNCHANGED <<options, phase, body, scanner, result>>
    BY DEF SensorServes
  <1>2. PICK i \in 1 .. Len(document) + 1, t \in Tokens :
            document' \in {InsertAt(document, i, t)} \cup
                (IF i \in DOMAIN document THEN {RemoveAt(document, i), ReplaceAt(document, i, t)}
                                         ELSE {})
    BY DiscoveryAssumption DEF SensorServes
  <1>3. document' \in Seq(AnyToken)
    BY <1>2, EditTyped, DiscoveryAssumption DEF IInv, Typed
  <1> QED BY <1>1, <1>3
      DEF IInv, Typed, NothingTaken, ScanOK, TakenFromWholeDocument, Failed, scanner

\* Checking the options takes nothing.
LEMMA CheckOptionsIInv ==
    ASSUME IInv, CheckOptions
    PROVE  IInv'
  <1>1. CASE Fail
    BY <1>1, FailIInv DEF CheckOptions
  <1>2. CASE phase' = "transfer" /\ UNCHANGED result
    BY <1>2 DEF CheckOptions, IInv, Typed, NothingTaken, ScanOK, TakenFromWholeDocument,
       Failed, scanner
  <1> QED BY <1>1, <1>2 DEF CheckOptions

\* The scanner gets the whole document or nothing.
LEMMA TransferIInv ==
    ASSUME IInv, Transfer
    PROVE  IInv'
  <1>1. CASE Fail
    BY <1>1, FailIInv DEF Transfer
  <1>2. CASE ~ Fail
    <2>1. PICK lost \in 0 .. MaxLost, status \in {200, 302} :
            LET arrived == SubSeq(document, 1, Len(document) - lost)
                response == AppendResponse(arrived)
            IN  /\ TransferAccepted(response, lost = 0, status)
                /\ body' = response.body /\ phase' = "scan" /\ UNCHANGED result
      BY <1>2 DEF Transfer
    <2>2. document \in Seq(AnyToken) /\ SubSeq(document, 1, Len(document)) = document
      BY DEF IInv, Typed
    <2>3. lost = 0
      BY <2>1 DEF TransferAccepted
    <2>4. ~ AppendResponse(document).tooLarge /\ body' = AppendResponse(document).body
      <3>1. Len(document) - lost = Len(document)
        BY <2>2, <2>3
      <3>2. SubSeq(document, 1, Len(document) - lost) = document
        BY <2>2, <3>1
      <3> QED BY <2>1, <3>2, Zenon DEF TransferAccepted
    <2>5. body' = document
      BY <2>2, <2>4, WholeResponse
    <2>6. /\ phase = "transfer" /\ phase' = "scan"
          /\ UNCHANGED <<options, document, position, seen, result>>
      BY <2>1 DEF Transfer, scanner
    <2>7. position' = 1 /\ seen' = {} /\ result' = Failed
      BY <2>6 DEF IInv, NothingTaken
    <2> QED BY <2>2, <2>5, <2>6, <2>7
        DEF IInv, Typed, NothingTaken, ScanOK, SoundUpTo, TakenFromWholeDocument, Failed
  <1> QED BY <1>1, <1>2

\* One more token was read: it is not refused, and it opens no field seen before.
LEMMA ReadsToken ==
    ASSUME IInv, phase = "scan", position <= Len(body), Advance,
           UNCHANGED <<options, document, body>>,
           document[position].kind # "bad",
           \/ /\ document[position].kind \notin {"open", "empty"} /\ UNCHANGED seen
           \/ /\ document[position].kind \in {"open", "empty"}
              /\ document[position].name \notin seen
              /\ seen' = seen \cup ({document[position].name} \cap Required)
    PROVE  IInv'
  <1>1. /\ body = document /\ position \in 1 .. Len(document) /\ position' = position + 1
        /\ position' \in 1 .. Len(document) + 1 /\ phase' = "scan" /\ result' = result
        /\ Len(document) \in Nat
    BY DEF IInv, Typed, ScanOK, Advance
  <1>2. \A i \in 1 .. position' - 1 : i \in 1 .. position - 1 \/ i = position
    BY <1>1
  <1>3. \A i, n : Opens(i, n)' <=> Opens(i, n)
    BY DEF Opens
  <1>4. \A n \in Required : n \in seen <=> \E i \in 1 .. position - 1 : Opens(i, n)
    BY DEF IInv, ScanOK
  <1>5. \A n \in Required : Opens(position, n) => n \notin seen
    BY DEF Opens
  <1>6. SoundUpTo(position - 1)
    BY DEF IInv, ScanOK
  <1>7. SoundUpTo(position' - 1)
    BY <1>1, <1>2, <1>4, <1>5, <1>6 DEF SoundUpTo
  <1>8. SoundUpTo(position - 1)'
    BY <1>3, <1>7 DEF SoundUpTo
  <1>9. \A n \in Required : n \in seen' <=> n \in seen \/ Opens(position, n)
    BY DEF Opens
  <1>10. \A n \in Required : n \in seen' <=> \E i \in 1 .. position' - 1 : Opens(i, n)'
    BY <1>1, <1>2, <1>3, <1>4, <1>9
  <1>11. ScanOK'
    BY <1>1, <1>8, <1>10 DEF ScanOK
  <1> QED BY <1>1, <1>11 DEF IInv, Typed, NothingTaken, TakenFromWholeDocument, Failed

\* The pass of the loop at a token reads it or fails.
LEMMA ScanIInv ==
    ASSUME IInv, ScanText \/ ScanClose \/ ScanOpen \/ ScanBad
    PROVE  IInv'
  <1>1. CASE Fail
    BY <1>1, FailIInv DEF ScanText, ScanClose, ScanOpen, ScanBad
  <1>2. CASE ~ Fail
    <2>1. phase = "scan" /\ position <= Len(body) /\ body = document
      BY DEF ScanText, ScanClose, ScanOpen, ScanBad, Scanning, IInv, ScanOK
    <2>2. CASE ScanText \/ ScanClose
      BY <1>2, <2>1, <2>2, ReadsToken DEF ScanText, ScanClose, Scanning
    <2>3. CASE ScanOpen
      BY <1>2, <2>1, <2>3, ReadsToken DEF ScanOpen, Scanning
    <2> QED BY <1>2, <2>2, <2>3 DEF ScanBad
  <1> QED BY <1>1, <1>2

\* At the end of the text every required field was seen, or nothing is taken.
LEMMA FinishIInv ==
    ASSUME IInv, Finish
    PROVE  IInv'
  <1>1. CASE Fail
    BY <1>1, FailIInv DEF Finish
  <1>2. CASE ~ Fail
    <2>1. /\ phase = "scan" /\ phase' = "done" /\ position > Len(body)
          /\ Required \subseteq seen \cup {"prodname"}
          /\ UNCHANGED <<options, document, body>>
      BY <1>2 DEF Finish
    <2>2. /\ body = document /\ position - 1 = Len(document) /\ SoundUpTo(position - 1)
          /\ \A n \in Required : n \in seen <=> \E i \in 1 .. position - 1 : Opens(i, n)
      BY <2>1 DEF IInv, Typed, ScanOK
    <2>3. \A n \in Required \ {"prodname"} : \E i \in 1 .. Len(document) : Opens(i, n)
      BY <2>1, <2>2
    <2>4. TakenFromWholeDocument'
      BY <2>1, <2>2, <2>3 DEF TakenFromWholeDocument, SoundUpTo, Opens
    <2> QED BY <2>1, <2>4 DEF IInv, Typed, NothingTaken, ScanOK
  <1> QED BY <1>1, <1>2

\* Every step keeps the inductive invariant.
LEMMA NextIInv == IInv /\ [Next]_vars => IInv'
  <1> SUFFICES ASSUME IInv, [Next]_vars PROVE IInv'
    OBVIOUS
  <1>1. CASE UNCHANGED vars
    BY <1>1 DEF vars, scanner, IInv, Typed, NothingTaken, ScanOK, TakenFromWholeDocument,
       SoundUpTo, Opens
  <1> QED BY <1>1, SensorServesIInv, CheckOptionsIInv, TransferIInv, ScanIInv, FinishIInv
      DEF Next

-----------------------------------------------------------------------------
(* The steps again: the scanner and the document's meaning *)

\* What a document means does not change while the document does not.
LEMMA SameDocument ==
    ASSUME UNCHANGED document
    PROVE  /\ StackOK(position, elements)' <=> StackOK(position', elements')
           /\ FieldsAreLeaves(position, elements)' <=> FieldsAreLeaves(position', elements')
           /\ BuffersOK(position, fields)' <=> BuffersOK(position', fields')
           /\ SoundUpTo(position - 1)' <=> SoundUpTo(position' - 1)
           /\ UNCHANGED body => (Sound' <=> Sound)
           /\ \A n : Occurrences(n)' = Occurrences(n)
           /\ \A i, v : States(i, v)' <=> States(i, v)
  <1>1. \A kinds : Positions(kinds)' = Positions(kinds)
    BY DEF Positions
  <1>2. \A i : Depth(i)' = Depth(i)
    BY <1>1 DEF Depth, Count
  <1>3. \A i : Partners(i)' = Partners(i)
    BY <1>1, <1>2 DEF Partners
  <1>4. WellNested' <=> WellNested
    BY <1>1, <1>2, <1>3 DEF WellNested
  <1>5. \A n : Occurrences(n)' = Occurrences(n)
    BY <1>1 DEF Occurrences
  <1>6. \A i : Within(i)' = Within(i)
    BY <1>3 DEF Within
  <1>7. \A T : Pieces(T)' = Pieces(T)
    BY DEF Pieces, Nth
  <1>8. \A i : Content(i)' = Content(i)
    <2> TAKE i
    <2> DEFINE T == {t \in Within(i) : document[t].kind = "text"}
    <2>1. T' = T
      BY <1>6
    <2>2. Pieces(T)' = Pieces(T)
      BY <2>1 DEF Pieces, Nth
    <2>3. Content(i)' = Trim(Pieces(T)')
      BY DEF Content
    <2>4. Content(i) = Trim(Pieces(T))
      BY DEF Content
    <2> QED BY <2>2, <2>3, <2>4
  <1>9. \A i : Meaningful(i)' <=> Meaningful(i)
    BY <1>1, <1>6, <1>8 DEF Meaningful
  <1>10. \A i, v : States(i, v)' <=> States(i, v)
    BY <1>8 DEF States
  <1>11. UNCHANGED body => (Sound' <=> Sound)
    BY <1>1, <1>4, <1>5, <1>9 DEF Sound
  <1>12. \A i, p : StillOpen(i, p)' <=> StillOpen(i, p)
    BY <1>1, <1>2 DEF StillOpen
  <1>13. StackOK(position, elements)' <=> StackOK(position', elements')
    BY <1>1, <1>2, <1>3, <1>12 DEF StackOK, StillOpen
  <1>14. \A i, n : Opens(i, n)' <=> Opens(i, n)
    BY DEF Opens
  <1>15. FieldsAreLeaves(position, elements)' <=> FieldsAreLeaves(position', elements')
    BY <1>6, <1>14 DEF FieldsAreLeaves
  <1>16. BuffersOK(position, fields)' <=> BuffersOK(position', fields')
    <2>1. \A i : TextBefore(i, position)' = TextBefore(i, position')
      BY <1>6 DEF TextBefore
    <2>2. \A i : Pieces(TextBefore(i, position))' = Pieces(TextBefore(i, position'))
      <3> TAKE i
      <3>1. Pieces(TextBefore(i, position))' =
                [k \in 1 .. Cardinality(TextBefore(i, position)')
                    |-> document'[Nth(TextBefore(i, position)', k)].text]
        BY DEF Pieces
      <3> QED BY <2>1, <3>1 DEF Pieces
    <2> QED BY <1>14, <2>2 DEF BuffersOK
  <1>17. SoundUpTo(position - 1)' <=> SoundUpTo(position' - 1)
    BY <1>14 DEF SoundUpTo
  <1> QED BY <1>5, <1>10, <1>11, <1>13, <1>15, <1>16, <1>17

\* Nothing has arrived and nothing is open when the program begins.
LEMMA InitMInv == Init => MInv
  <1> SUFFICES ASSUME Init PROVE MInv
    OBVIOUS
  <1>1. fields \in [Required -> Seq(STRING)]
    BY DEF Init
  <1> QED BY <1>1, InitIInv DEF Init, MInv, ScanMeans, ConfigurationIsTheDocuments

\* Failing is right when nothing has arrived or the document is not sound.
LEMMA FailMInv ==
    ASSUME MInv, Fail, phase # "done", UNCHANGED <<options, document, body, seen, fields>>,
           phase = "scan" => ~ Sound
    PROVE  MInv'
  <1>1. IInv'
    BY FailIInv DEF MInv
  <1>2. ScanMeans'
    BY DEF MInv, ScanMeans, Fail
  <1>3. ConfigurationIsTheDocuments'
    <2>1. ~ result'.ok
      BY DEF Fail, Failed
    <2>2. body' # <<>> => phase = "scan"
      BY DEF MInv, IInv, Typed, ScanMeans
    <2>3. Sound' <=> Sound
      BY SameDocument
    <2> QED BY <2>1, <2>2, <2>3 DEF ConfigurationIsTheDocuments
  <1> QED BY <1>1, <1>2, <1>3 DEF MInv

\* Before the scan nothing has arrived.
LEMMA BeforeMInv ==
    ASSUME MInv, IInv', SensorServes \/ CheckOptions
    PROVE  MInv'
  <1>1. CASE CheckOptions /\ Fail
    BY <1>1, FailMInv DEF CheckOptions, scanner
  <1>2. CASE ~ (CheckOptions /\ Fail)
    <2>1. /\ phase = "options" /\ phase' \in {"options", "transfer"}
          /\ UNCHANGED <<body, elements, seen, fields>>
      BY <1>2 DEF SensorServes, CheckOptions, scanner
    <2>2. ScanMeans'
      BY <2>1 DEF MInv, ScanMeans
    <2> QED BY <2>1, <2>2 DEF MInv, ConfigurationIsTheDocuments
  <1> QED BY <1>1, <1>2

\* At its first token the scanner knows nothing, and has read nothing.
LEMMA TransferMInv ==
    ASSUME MInv, IInv', Transfer
    PROVE  MInv'
  <1>1. CASE Fail
    <2>1. phase = "transfer" /\ UNCHANGED <<options, document, seen, fields>>
      BY DEF Transfer, scanner
    <2>2. UNCHANGED body
      BY <1>1 DEF Transfer, Fail
    <2> QED BY <1>1, <2>1, <2>2, FailMInv
  <1>2. CASE ~ Fail
    <2>1. /\ phase = "transfer" /\ phase' = "scan"
          /\ UNCHANGED <<document, position, elements, seen, fields>>
      BY <1>2 DEF Transfer, scanner
    <2>2. /\ document \in Seq(AnyToken) /\ position = 1 /\ elements = <<>>
          /\ fields = [n \in Required |-> <<>>] /\ seen \subseteq Required
          /\ fields \in [Required -> Seq(STRING)]
      BY <2>1 DEF MInv, IInv, Typed, NothingTaken, ScanMeans
    <2>3. Depth(0) = 0
      BY <2>2, DepthStep
    <2>4. StackOK(1, <<>>)
      BY <2>3 DEF StackOK
    <2>5. FieldsAreLeaves(1, <<>>)
      BY DEF FieldsAreLeaves
    <2>6. BuffersOK(1, fields)
      BY <2>2 DEF BuffersOK
    <2>7. ScanMeans'
      BY <2>1, <2>2, <2>4, <2>5, <2>6, SameDocument DEF ScanMeans
    <2> QED BY <2>1, <2>7 DEF MInv, ConfigurationIsTheDocuments
  <1> QED BY <1>1, <1>2

\* What the scanner knows at a token.
LEMMA AtToken ==
    ASSUME MInv, NEW kinds, Scanning(kinds)
    PROVE  /\ phase = "scan" /\ body = document /\ document \in Seq(AnyToken)
           /\ position \in DOMAIN document /\ document[position].kind \in kinds
           /\ StackOK(position, elements) /\ FieldsAreLeaves(position, elements)
           /\ BuffersOK(position, fields) /\ fields \in [Required -> Seq(STRING)]
           /\ seen \subseteq Required
           /\ \A n \in Required : n \in seen <=> \E i \in 1 .. position - 1 : Opens(i, n)
  <1>1. phase = "scan" /\ body = document /\ document \in Seq(AnyToken)
    BY DEF Scanning, MInv, IInv, Typed, ScanOK
  <1>2. position \in 1 .. Len(document)
    BY <1>1 DEF Scanning, MInv, IInv, ScanOK
  <1> QED BY <1>1, <1>2 DEF Scanning, MInv, IInv, ScanOK, ScanMeans

\* Reading a token keeps the stack, the flags and the buffers.
LEMMA ReadMInv ==
    ASSUME MInv, IInv', NEW kinds, Scanning(kinds), Advance, UNCHANGED document,
           StackOK(position + 1, elements'), FieldsAreLeaves(position + 1, elements'),
           seen' \subseteq Required,
           fields' = IF InRequired /\ document[position].kind = "text"
                     THEN [fields EXCEPT ![Last(elements)] = Append(@, document[position].text)]
                     ELSE fields
    PROVE  MInv'
  <1>1. position' = position + 1 /\ phase' = "scan"
    BY AtToken DEF Advance
  <1>2. SoundUpTo(position)
    <2>1. SoundUpTo(position' - 1)
      BY <1>1, SameDocument DEF IInv, ScanOK
    <2>2. position' - 1 = position
      BY <1>1, AtToken
    <2> QED BY <2>1, <2>2
  <1>3. BuffersOK(position + 1, fields') /\ fields' \in [Required -> Seq(STRING)]
    BY <1>2, AtToken, BuffersStep DEF InRequired
  <1>4. ScanMeans'
    BY <1>1, <1>3, SameDocument DEF ScanMeans
  <1> QED BY <1>1, <1>4 DEF MInv, ConfigurationIsTheDocuments

\* Text, comments and processing instructions.
LEMMA ScanTextMInv ==
    ASSUME MInv, IInv', ScanText
    PROVE  MInv'
  <1>1. Scanning({"text", "skip"}) /\ Advance /\ UNCHANGED <<document, elements, seen>>
    BY DEF ScanText
  <1>2. /\ document \in Seq(AnyToken) /\ position \in DOMAIN document /\ body = document
        /\ document[position].kind \in {"text", "skip"} /\ seen \subseteq Required
        /\ StackOK(position, elements) /\ FieldsAreLeaves(position, elements)
    BY <1>1, AtToken
  <1>3. StackOK(position + 1, elements) /\ FieldsAreLeaves(position + 1, elements)
    BY <1>2, StackStay, LeavesMove
  <1>4. fields' = IF InRequired /\ document[position].kind = "text"
                  THEN [fields EXCEPT ![Last(elements)] = Append(@, document[position].text)]
                  ELSE fields
    BY <1>2 DEF ScanText
  <1> QED BY <1>1, <1>2, <1>3, <1>4, ReadMInv

\* A closing tag closes the innermost element, or the document is not sound.
LEMMA ScanCloseMInv ==
    ASSUME MInv, IInv', ScanClose
    PROVE  MInv'
  <1>1. Scanning({"close"}) /\ UNCHANGED <<options, document, body, seen, fields>>
    BY DEF ScanClose
  <1>2. /\ document \in Seq(AnyToken) /\ position \in DOMAIN document /\ body = document
        /\ document[position].kind = "close" /\ seen \subseteq Required /\ phase = "scan"
        /\ StackOK(position, elements) /\ FieldsAreLeaves(position, elements)
    BY <1>1, AtToken
  <1>3. CASE elements = <<>> \/ Last(elements) # body[position].name
    <2>1. Fail
      BY <1>3 DEF ScanClose
    <2>2. ~ Sound
      BY <1>2, <1>3, MisclosedIsUnsound
    <2> QED BY <1>1, <1>2, <2>1, <2>2, FailMInv
  <1>4. CASE ~ (elements = <<>> \/ Last(elements) # body[position].name)
    <2>1. Advance /\ elements' = Front(elements)
      BY <1>4 DEF ScanClose
    <2>2. StackOK(position + 1, elements') /\ FieldsAreLeaves(position + 1, elements')
      BY <1>2, <1>4, <2>1, StackPop, LeavesMove
    <2> QED BY <1>1, <1>2, <2>1, <2>2, ReadMInv
  <1> QED BY <1>3, <1>4

\* An opening or empty tag is read, or the document is not sound.
LEMMA ScanOpenMInv ==
    ASSUME MInv, IInv', ScanOpen
    PROVE  MInv'
  <1>1. /\ Scanning({"open", "empty"})
        /\ UNCHANGED <<options, document, body, fields>>
    BY DEF ScanOpen
  <1>2. /\ document \in Seq(AnyToken) /\ position \in DOMAIN document /\ body = document
        /\ document[position].kind \in {"open", "empty"} /\ seen \subseteq Required
        /\ phase = "scan"
        /\ StackOK(position, elements) /\ FieldsAreLeaves(position, elements)
        /\ \A n \in Required : n \in seen <=> \E i \in 1 .. position - 1 : Opens(i, n)
    BY <1>1, AtToken
  <1>3. CASE InRequired \/ document[position].name \in seen
    <2>1. Fail /\ UNCHANGED seen
      BY <1>2, <1>3 DEF ScanOpen
    <2>2. CASE InRequired
      <3>1. ~ Sound
        BY <1>2, <2>2, NestedIsUnsound DEF InRequired
      <3> QED BY <1>1, <1>2, <2>1, <3>1, FailMInv
    <2>3. CASE document[position].name \in seen
      <3>1. PICK i \in 1 .. position - 1 : Opens(i, document[position].name)
        BY <1>2, <2>3
      <3>2. i \in DOMAIN document /\ i # position /\ Opens(position, document[position].name)
        BY <1>2, <3>1 DEF Opens
      <3>3. ~ Sound
        BY <1>2, <2>3, <3>1, <3>2, TwiceIsUnsound
      <3> QED BY <1>1, <1>2, <2>1, <3>3, FailMInv
    <2> QED BY <1>3, <2>2, <2>3
  <1>4. CASE ~ (InRequired \/ document[position].name \in seen)
    <2>1. /\ Advance /\ seen' = seen \cup ({document[position].name} \cap Required)
          /\ elements' = IF document[position].kind = "open"
                         THEN Append(elements, document[position].name) ELSE elements
      BY <1>2, <1>4 DEF ScanOpen
    <2>2. elements = <<>> \/ Last(elements) \notin Required
      BY <1>4 DEF InRequired
    <2>3. StackOK(position + 1, elements')
      BY <1>2, <2>1, StackPush, StackStay
    <2>4. FieldsAreLeaves(position + 1, elements')
      BY <1>2, <2>1, <2>2, LeavesMove
    <2> QED BY <1>1, <1>2, <2>1, <2>3, <2>4, ReadMInv
  <1> QED BY <1>3, <1>4

\* A malformed token is refused.
LEMMA ScanBadMInv ==
    ASSUME MInv, ScanBad
    PROVE  MInv'
  <1>1. /\ Scanning({"bad"}) /\ Fail
        /\ UNCHANGED <<options, document, body, seen, fields>>
    BY DEF ScanBad, scanner
  <1>2. ~ Sound /\ phase = "scan"
    BY <1>1, AtToken, BadIsUnsound
  <1> QED BY <1>1, <1>2, FailMInv

\* At the end of the text the calibration is the document's, or it is not sound.
LEMMA FinishMInv ==
    ASSUME MInv, IInv', Finish
    PROVE  MInv'
  <1> DEFINE Taken == /\ elements = <<>> /\ Required \subseteq seen \cup {"prodname"}
                      /\ \A n \in seen : FieldUsable(n)
  <1>1. AtEnd /\ phase = "scan" /\ UNCHANGED <<options, document, body, seen, fields>>
    BY DEF Finish, AtEnd, scanner
  <1>2. Sound <=> Taken
    BY <1>1, EndIsSound
  <1>3. CASE ~ Taken
    <2>1. Fail
      BY <1>3 DEF Finish
    <2> QED BY <1>1, <1>2, <1>3, <2>1, FailMInv
  <1>4. CASE Taken
    <2>1. /\ phase' = "done"
          /\ result' = [ok |-> TRUE,
                        values |-> [n \in Required |->
                            IF n \in seen THEN FieldValue(n, Joined(Trim(fields[n])))
                                          ELSE DefaultProduct]]
      BY <1>4 DEF Finish
    <2>2. /\ result'.ok
          /\ \A n \in Required :
                result'.values[n] = IF n \in seen THEN FieldValue(n, Joined(Trim(fields[n])))
                                                  ELSE DefaultProduct
      BY <2>1
    <2>3. \A n \in Required :
            IF Occurrences(n) = {} THEN result'.values[n] = DefaultProduct
            ELSE \A i \in Occurrences(n) : States(i, result'.values[n])
      <3> TAKE n \in Required
      <3>1. n \in seen <=> Occurrences(n) # {}
        BY <1>1, EndOccurrences
      <3>2. n \in seen => \A i \in Occurrences(n) :
                States(i, FieldValue(n, Joined(Trim(fields[n]))))
        BY <1>1, <1>4, EndMeaning
      <3> QED BY <2>2, <3>1, <3>2
    <2>4. Sound'
      BY <1>1, <1>2, <1>4, SameDocument
    <2>5. ConfigurationIsTheDocuments'
      BY <1>1, <2>2, <2>3, <2>4, SameDocument DEF ConfigurationIsTheDocuments
    <2>6. ScanMeans'
      BY <1>1, <2>1 DEF MInv, ScanMeans
    <2> QED BY <2>5, <2>6 DEF MInv
  <1> QED BY <1>3, <1>4

\* Every step keeps the scanner in step with the document.
LEMMA NextMInv == MInv /\ [Next]_vars => MInv'
  <1> SUFFICES ASSUME MInv, [Next]_vars PROVE MInv'
    OBVIOUS
  <1>1. IInv'
    BY NextIInv DEF MInv
  <1>2. CASE UNCHANGED vars
    <2>1. UNCHANGED <<document, phase, body, position, elements, seen, fields, result>>
      BY <1>2 DEF vars, scanner
    <2>2. ScanMeans'
      BY <2>1, SameDocument DEF MInv, ScanMeans
    <2>3. ConfigurationIsTheDocuments'
      BY <2>1, SameDocument DEF MInv, ConfigurationIsTheDocuments
    <2> QED BY <1>1, <2>2, <2>3 DEF MInv
  <1> QED BY <1>1, <1>2, BeforeMInv, TransferMInv, ScanTextMInv, ScanCloseMInv,
          ScanOpenMInv, ScanBadMInv, FinishMInv DEF Next

\* What arrives fits into the buffer.
LEMMA TransferFits ==
    ASSUME MInv, TypeOK, Transfer
    PROVE  Len(body') <= MaxResponse
  <1>1. CASE UNCHANGED body
    BY <1>1 DEF TypeOK
  <1>2. CASE ~ UNCHANGED body
    <2>1. PICK lost \in 0 .. MaxLost, status \in {200, 302} :
            LET response == AppendResponse(SubSeq(document, 1, Len(document) - lost))
            IN  TransferAccepted(response, lost = 0, status) /\ body' = response.body
      BY <1>2 DEF Transfer
    <2>2. document \in Seq(AnyToken) /\ SubSeq(document, 1, Len(document)) = document
      BY DEF MInv, IInv, Typed
    <2>3. lost = 0
      BY <2>1 DEF TransferAccepted
    <2>4. Len(document) - lost = Len(document)
      BY <2>2, <2>3
    <2>5. SubSeq(document, 1, Len(document) - lost) = document
      BY <2>2, <2>4
    <2>6. ~ AppendResponse(document).tooLarge /\ body' = AppendResponse(document).body
      BY <2>1, <2>5, Zenon DEF TransferAccepted
    <2> QED BY <2>2, <2>6, WholeResponse
  <1> QED BY <1>1, <1>2

\* Every step keeps the types: the position never runs past the buffer, and no
\* more elements are open than tokens were read.
LEMMA NextTypeOK == MInv /\ MInv' /\ TypeOK /\ [Next]_vars => TypeOK'
  <1> SUFFICES ASSUME MInv, MInv', TypeOK, [Next]_vars PROVE TypeOK'
    OBVIOUS
  <1>1. result'.ok \in BOOLEAN
    <2>1. CASE UNCHANGED result
      BY <2>1 DEF TypeOK
    <2>2. CASE Fail
      BY <2>2, Zenon DEF Fail, Failed
    <2>3. CASE Finish /\ ~ Fail
      <3>1. \E values : result' = [ok |-> TRUE, values |-> values]
        BY <2>3, Zenon DEF Finish
      <3>2. result'.ok = TRUE
        BY <3>1
      <3> QED BY <3>2
    <2> QED BY <2>1, <2>2, <2>3 DEF Next, SensorServes, CheckOptions, Transfer, ScanText,
            ScanClose, ScanOpen, ScanBad, Advance, vars
  <1>2. phase' \in {"options", "transfer", "scan", "done"}
    BY DEF MInv, IInv, Typed
  <1>3. seen' \subseteq Required /\ DOMAIN fields' = Required
    BY DEF MInv, ScanMeans
  <1>4. Len(body') <= MaxResponse
    BY TransferFits DEF Next, SensorServes, CheckOptions, ScanText, ScanClose, ScanOpen,
       ScanBad, Finish, vars, TypeOK
  <1>5. position' \in 1 .. MaxResponse + 1 /\ Len(elements') < position'
    <2>1. CASE UNCHANGED <<position, elements>>
      BY <2>1 DEF TypeOK
    <2>2. CASE Advance /\ \E kinds : Scanning(kinds)
      <3>1. position' = position + 1 /\ position <= Len(body)
        BY <2>2 DEF Advance, Scanning
      <3>2. MaxResponse \in Nat /\ Len(body) \in Nat /\ Len(body) <= MaxResponse
        BY <2>2, AtToken, DiscoveryAssumption DEF TypeOK
      <3>3. elements \in Seq(STRING) /\ Len(elements) < position /\ position \in Nat
        BY <2>2, AtToken, DiscoveryAssumption DEF StackOK, TypeOK
      <3>4. \/ UNCHANGED elements
            \/ elements # <<>> /\ elements' = Front(elements)
            \/ \E name : elements' = Append(elements, name)
        BY <2>2 DEF Next, SensorServes, CheckOptions, Transfer, ScanText, ScanClose, ScanOpen,
           ScanBad, Finish, vars, scanner, Scanning
      <3>5. Len(elements') <= Len(elements) + 1
        BY <3>3, <3>4, FrontSeq
      <3> QED BY <3>1, <3>2, <3>3, <3>5
    <2> QED BY <2>1, <2>2 DEF Next, SensorServes, CheckOptions, Transfer, ScanText, ScanClose,
            ScanOpen, ScanBad, Finish, vars, scanner
  <1> QED BY <1>1, <1>2, <1>3, <1>4, <1>5 DEF TypeOK

-----------------------------------------------------------------------------
(* The theorems *)

\* Every value has its type at every step: the body never outgrows the buffer that
\* append_response() keeps, and neither the position nor the stack outgrows the body.
THEOREM DiscoveryTypes == Spec => []TypeOK
  <1>1. Init => TypeOK
    BY DiscoveryAssumption DEF Init, TypeOK, Failed
  <1> QED BY <1>1, InitMInv, NextMInv, NextTypeOK, PTL DEF Spec

\* discover_sensor() returns a calibration only for a whole response, and
\* extract_required_fields() only for one in which no tag is malformed and every
\* calibration field stands exactly once.
THEOREM CalibrationIsWhole == Spec => []TakenFromWholeDocument
  <1>1. IInv => TakenFromWholeDocument
    BY DEF IInv
  <1> QED BY <1>1, InitIInv, NextIInv, PTL DEF Spec

\* What validate(Config) accepts, validate_options() and timeout_milliseconds()
\* accept as well, for every timeout and every width of long.
THEOREM ValidIsDiscoverable == Spec => []ValidConfigIsDiscoverable
  <1>1. IInv => ValidConfigIsDiscoverable
    <2> SUFFICES ASSUME Typed, ConfigValid(options)
                 PROVE  OptionsAccepted(options)
      BY DEF IInv, ValidConfigIsDiscoverable
    <2>1. Milliseconds(options.timeout) \in Int /\ MaxLong \in Int
      BY DiscoveryAssumption DEF Typed, Milliseconds
    <2>2. Milliseconds(options.timeout) < MaxLong
      BY Zenon DEF ConfigValid
    <2>3. Milliseconds(options.timeout) <= MaxLong
      BY <2>1, <2>2
    <2> QED BY <2>3, Zenon DEF ConfigValid, OptionsAccepted
  <1> QED BY <1>1, InitIInv, NextIInv, PTL DEF Spec

\* extract_required_fields() and parse_sensor_configuration() take a calibration
\* exactly from the documents that are well formed and state every calibration
\* field once, and with the values stated there: for every document, every depth
\* of nesting, every way the texts are split and every set of required fields.
THEOREM ConfigurationIsWhatIsWritten == Spec => []ConfigurationIsTheDocuments
  <1>1. MInv => ConfigurationIsTheDocuments
    BY DEF MInv
  <1> QED BY <1>1, InitMInv, NextMInv, PTL DEF Spec
=============================================================================
