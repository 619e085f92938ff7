------------------------- MODULE CheckCodes_proofs -------------------------
(***************************************************************************)
(* Proofs about CheckCodes.  CRC: the two registers agree in their low 16  *)
(* bits as long as nothing is damaged, and by linearity the difference     *)
(* that damage makes does not depend on the payload.  Checksum: octets and *)
(* numbers correspond, so that one damaged octet shows in the sum.         *)
(***************************************************************************)
EXTENDS CheckCodes, FiniteSetTheorems, TLAPS

Reg == SUBSET (0 .. 15)
Octet == SUBSET (0 .. 7)

(* What leaves a register of 16 bits and what lies above bit 15 of a wider *)
(* one never comes back.                                                   *)
LEMMA TurnCode ==
    ASSUME NEW w \in Nat, w >= 16, NEW reg
    PROVE  Code(Turn(reg, w)) = Turn(Code(reg), 16)
<1>1. Code(Shl(reg, w)) = Shl(Code(reg), 16)
  BY DEF Code, Shl
<1>2. 15 \in reg <=> 15 \in Code(reg)
  BY DEF Code
<1>3. Code(Xor(Shl(reg, w), Poly)) = Xor(Code(Shl(reg, w)), Poly)
  BY DEF Code, Xor, Poly
<1> QED
  BY <1>1, <1>2, <1>3 DEF Turn

LEMMA FeedCode ==
    ASSUME NEW w \in Nat, w >= 16, NEW reg, NEW o
    PROVE  Code(Feed(reg, o, w)) = Feed(Code(reg), o, 16)
<1>1. Code(Xor(reg, Raised(o))) = Xor(Code(reg), Raised(o))
  BY DEF Code, Xor, Raised
<1> QED
  BY <1>1, TurnCode DEF Feed, EightTurns, FourTurns, TwoTurns

LEMMA TurnReg ==
    ASSUME NEW reg \in Reg
    PROVE  Turn(reg, 16) \in Reg
BY DEF Turn, Shl, Xor, Poly, Reg

LEMMA EightReg ==
    ASSUME NEW reg \in Reg
    PROVE  EightTurns(reg, 16) \in Reg
BY TurnReg DEF EightTurns, FourTurns, TwoTurns

LEMMA XorReg ==
    ASSUME NEW a \in Reg, NEW b \in Reg
    PROVE  Xor(a, b) \in Reg
BY DEF Xor, Reg

LEMMA RaisedReg ==
    ASSUME NEW o
    PROVE  Raised(o) \in Reg
BY DEF Raised, Reg

LEMMA FeedReg ==
    ASSUME NEW reg \in Reg, NEW o
    PROVE  Feed(reg, o, 16) \in Reg
BY EightReg, XorReg, RaisedReg DEF Feed

(* A turn loses nothing: only the empty register becomes empty. *)
LEMMA TurnZero ==
    ASSUME NEW reg \in Reg
    PROVE  Turn(reg, 16) = {} <=> reg = {}
<1>1. CASE 15 \in reg
  <2>1. 0 \in Turn(reg, 16)
    BY <1>1 DEF Turn, Xor, Shl, Poly
  <2> QED
    BY <1>1, <2>1
<1>2. CASE 15 \notin reg
  <2>1. ASSUME NEW i \in reg PROVE i + 1 \in Turn(reg, 16)
    BY <1>2, <2>1 DEF Turn, Shl, Reg
  <2>2. reg = {} => Turn(reg, 16) = {}
    BY DEF Turn, Shl
  <2> QED
    BY <2>1, <2>2
<1> QED
  BY <1>1, <1>2

LEMMA EightZero ==
    ASSUME NEW reg \in Reg
    PROVE  EightTurns(reg, 16) = {} <=> reg = {}
<1>1. TwoTurns(reg, 16) = {} <=> reg = {}
  BY TurnZero, TurnReg DEF TwoTurns
<1> QED
  BY TurnZero, TurnReg DEF EightTurns, FourTurns, TwoTurns

(* Linearity: what is added before a turn is added after it. *)
LEMMA TurnLinear ==
    ASSUME NEW a \in Reg, NEW b \in Reg
    PROVE  Turn(Xor(a, b), 16) = Xor(Turn(a, 16), Turn(b, 16))
<1>1. Shl(Xor(a, b), 16) = Xor(Shl(a, 16), Shl(b, 16))
  BY DEF Shl, Xor
<1>2. 15 \in Xor(a, b) <=> ~(15 \in a <=> 15 \in b)
  BY DEF Xor
<1> DEFINE s == Shl(a, 16)
           t == Shl(b, 16)
<1>3. /\ Xor(Xor(s, t), Poly) = Xor(Xor(s, Poly), t)
      /\ Xor(Xor(s, t), Poly) = Xor(s, Xor(t, Poly))
      /\ Xor(s, t) = Xor(Xor(s, Poly), Xor(t, Poly))
  BY DEF Xor
<1> QED
  BY <1>1, <1>2, <1>3 DEF Turn

LEMMA EightLinear ==
    ASSUME NEW a \in Reg, NEW b \in Reg
    PROVE  EightTurns(Xor(a, b), 16) = Xor(EightTurns(a, 16), EightTurns(b, 16))
<1>1. \A x, y \in Reg : TwoTurns(Xor(x, y), 16) = Xor(TwoTurns(x, 16), TwoTurns(y, 16))
  BY TurnLinear, TurnReg DEF TwoTurns
<1>2. \A x \in Reg : TwoTurns(x, 16) \in Reg
  BY TurnReg DEF TwoTurns
<1> QED
  BY <1>1, <1>2 DEF EightTurns, FourTurns

(* Damage to an octet adds the same to the register, whatever is in it. *)
LEMMA FeedLinear ==
    ASSUME NEW a \in Reg, NEW b \in Reg, NEW o \in Octet, NEW d \in Octet
    PROVE  Feed(Xor(a, b), Xor(o, d), 16) = Xor(Feed(a, o, 16), Feed(b, d, 16))
<1>1. Xor(Xor(a, b), Raised(Xor(o, d))) = Xor(Xor(a, Raised(o)), Xor(b, Raised(d)))
  BY DEF Xor, Raised
<1> QED
  BY <1>1, EightLinear, XorReg, RaisedReg DEF Feed

(* Eight turns only shift what is in the low octet. *)
LEMMA EightShift ==
    ASSUME NEW o \in Octet
    PROVE  EightTurns(o, 16) = Raised(o)
<1> DEFINE S(x, n) == {i \in n .. 15 : i - n \in x}
<1>1. ASSUME NEW n \in 0 .. 7 PROVE Turn(S(o, n), 16) = S(o, n + 1)
  <2>1. 15 \notin S(o, n)
    BY DEF Octet
  <2>2. Shl(S(o, n), 16) = S(o, n + 1)
    BY DEF Shl, Octet
  <2> QED
    BY <2>1, <2>2 DEF Turn
<1>2. S(o, 0) = o
  <2>1. \A i \in 0 .. 15 : i - 0 = i
    OBVIOUS
  <2>2. \A i \in o : i \in 0 .. 15
    BY DEF Octet
  <2> QED
    BY <2>1, <2>2
<1>3. TwoTurns(o, 16) = S(o, 2)
  BY <1>1, <1>2 DEF TwoTurns
<1>4. FourTurns(o, 16) = S(o, 4)
  <2>1. TwoTurns(S(o, 2), 16) = S(o, 4)
    BY <1>1 DEF TwoTurns
  <2> QED
    BY <1>3, <2>1 DEF FourTurns
<1>5. FourTurns(S(o, 4), 16) = S(o, 8)
  BY <1>1 DEF FourTurns, TwoTurns
<1>6. S(o, 8) = Raised(o)
  BY DEF Raised
<1> QED
  BY <1>4, <1>5, <1>6 DEF EightTurns

-----------------------------------------------------------------------------
LEMMA XorFacts ==
    ASSUME NEW a \in Reg, NEW b \in Reg
    PROVE  /\ Xor(a, b) = {} <=> a = b
           /\ Xor(a, Xor(a, b)) = b
           /\ Xor(a, {}) = a /\ Xor({}, b) = b
BY DEF Xor

LEMMA HalfFacts ==
    ASSUME NEW reg \in Reg
    PROVE  /\ High(reg) \in Octet /\ Low(reg) \in Octet
           /\ Xor(reg, Raised(High(reg))) = Low(reg)
<1>1. High(reg) \in Octet /\ Low(reg) \in Octet
  BY DEF High, Low, Octet
<1>2. Raised(High(reg)) = reg \cap 8 .. 15
  <2>1. \A i \in 8 .. 15 : i - 8 \in 0 .. 7 /\ (i - 8) + 8 = i
    OBVIOUS
  <2> QED
    BY <2>1 DEF Raised, High
<1>3. \A i \in reg : i \in 8 .. 15 <=> i \notin 0 .. 7
  BY DEF Reg
<1> QED
  BY <1>1, <1>2, <1>3 DEF Low, Xor

LEMMA OctetFacts ==
    ASSUME NEW o \in Octet, NEW p \in Octet
    PROVE  /\ o \in Reg /\ Xor(o, p) \in Octet
           /\ Xor(o, Xor(o, p)) = p
           /\ Raised(o) = {} <=> o = {}
           /\ Raised(o) = Raised(p) <=> o = p
           /\ Raised(o) = p => o = {}
<1>1. \A i \in o : i + 8 \in 8 .. 15 /\ (i + 8) - 8 = i
  BY DEF Octet
<1>2. \A i \in p : i + 8 \in 8 .. 15 /\ (i + 8) - 8 = i
  BY DEF Octet
<1>3. Raised(o) = {} <=> o = {}
  BY <1>1 DEF Raised
<1>4. Raised(o) = Raised(p) => o = p
  <2> SUFFICES ASSUME Raised(o) = Raised(p) PROVE o = p
    OBVIOUS
  <2>1. ASSUME NEW i \in o PROVE i \in p
    BY <1>1 DEF Raised
  <2>2. ASSUME NEW i \in p PROVE i \in o
    BY <1>2 DEF Raised
  <2> QED
    BY <2>1, <2>2
<1>5. Raised(o) = p => o = {}
  <2>1. \A i \in Raised(o) : i \notin p
    BY DEF Raised, Octet
  <2> QED
    BY <2>1, <1>3
<1> QED
  BY <1>3, <1>4, <1>5 DEF Octet, Reg, Xor

LEMMA FeedZero ==
    ASSUME NEW reg \in Reg, NEW o \in Octet
    PROVE  Feed(reg, o, 16) = {} <=> reg = Raised(o)
<1>1. Raised(o) \in Reg /\ Xor(reg, Raised(o)) \in Reg
  BY XorReg, RaisedReg
<1>2. Feed(reg, o, 16) = {} <=> Xor(reg, Raised(o)) = {}
  BY <1>1, EightZero DEF Feed
<1> QED
  BY <1>1, <1>2, XorFacts

(* The CRC's own octets shift it out of the register. *)
LEMMA FeedHigh ==
    ASSUME NEW reg \in Reg
    PROVE  Feed(reg, High(reg), 16) = Raised(Low(reg))
BY HalfFacts, EightShift DEF Feed

LEMMA FeedLow ==
    ASSUME NEW reg \in Reg
    PROVE  Feed(Raised(Low(reg)), Low(reg), 16) = {}
BY FeedZero, RaisedReg, HalfFacts

(* Two octets of damage cannot cancel each other. *)
LEMMA TwoOctets ==
    ASSUME NEW d \in Octet, NEW e \in Octet
    PROVE  Feed(Feed({}, d, 16), e, 16) = {} => d = {} /\ e = {}
<1> SUFFICES ASSUME Feed(Feed({}, d, 16), e, 16) = {} PROVE d = {} /\ e = {}
  OBVIOUS
<1>1. {} \in Reg /\ Raised(d) \in Reg /\ d \in Reg /\ e \in Reg
  BY OctetFacts, RaisedReg DEF Reg
<1>2. Feed({}, d, 16) = EightTurns(Raised(d), 16)
  BY <1>1, XorFacts DEF Feed
<1>3. EightTurns(Raised(d), 16) = Raised(e)
  BY <1>1, <1>2, FeedReg, FeedZero
<1>4. EightTurns(Xor(Raised(d), e), 16) = {}
  <2>1. EightTurns(Xor(Raised(d), e), 16) = Xor(Raised(e), Raised(e))
    BY <1>1, <1>3, EightLinear, EightShift
  <2> QED
    BY <2>1, RaisedReg, XorFacts
<1>5. Raised(d) = e
  <2>1. Xor(Raised(d), e) = {}
    BY <1>1, <1>4, EightZero, XorReg
  <2> QED
    BY <1>1, <2>1, XorFacts
<1>6. d = {}
  BY <1>5, OctetFacts
<1>7. Raised(e) = {}
  BY <1>1, <1>3, <1>6, EightZero, OctetFacts
<1> QED
  BY <1>6, <1>7, OctetFacts

(* The test of xmodem_rx, the CRC over payload and check octets being 0,   *)
(* holds exactly when these are the CRC of the payload: what CheckGood of  *)
(* XmodemRx takes for granted.                                             *)
THEOREM ZeroMeansEqual ==
    ASSUME NEW reg \in Reg, NEW h \in Octet, NEW l \in Octet
    PROVE  Feed(Feed(reg, h, 16), l, 16) = {} <=> h = High(reg) /\ l = Low(reg)
<1> DEFINE d == Xor(High(reg), h)
           e == Xor(Low(reg), l)
<1>1. /\ High(reg) \in Octet /\ Low(reg) \in Octet /\ d \in Octet /\ e \in Octet
      /\ Xor(High(reg), d) = h /\ Xor(Low(reg), e) = l
      /\ d \in Reg /\ e \in Reg /\ {} \in Reg /\ Raised(Low(reg)) \in Reg
      /\ Feed({}, d, 16) \in Reg /\ Feed(Feed({}, d, 16), e, 16) \in Reg
  BY HalfFacts, OctetFacts, RaisedReg, FeedReg DEF Reg
<1>2. Feed(reg, h, 16) = Xor(Raised(Low(reg)), Feed({}, d, 16))
  <2>1. Feed(Xor(reg, {}), Xor(High(reg), d), 16) = Xor(Feed(reg, High(reg), 16), Feed({}, d, 16))
    BY <1>1, FeedLinear
  <2> QED
    BY <1>1, <2>1, FeedHigh, XorFacts
<1>3. Feed(Feed(reg, h, 16), l, 16) = Feed(Feed({}, d, 16), e, 16)
  <2>1. Feed(Xor(Raised(Low(reg)), Feed({}, d, 16)), Xor(Low(reg), e), 16)
          = Xor(Feed(Raised(Low(reg)), Low(reg), 16), Feed(Feed({}, d, 16), e, 16))
    BY <1>1, FeedLinear
  <2>2. Xor({}, Feed(Feed({}, d, 16), e, 16)) = Feed(Feed({}, d, 16), e, 16)
    BY <1>1, XorFacts
  <2> QED
    BY <1>1, <1>2, <2>1, <2>2, FeedLow
<1>4. d = {} /\ e = {} => Feed(Feed({}, d, 16), e, 16) = {}
  BY <1>1, FeedZero, OctetFacts
<1>5. d = {} <=> h = High(reg)
  BY DEF Xor
<1>6. e = {} <=> l = Low(reg)
  BY DEF Xor
<1> QED
  BY <1>1, <1>3, <1>4, <1>5, <1>6, TwoOctets

-----------------------------------------------------------------------------
(* What the low 16 bits of the receiver's register would be without        *)
(* damage, and the difference that damage has made to them.                *)
Ref == IF phase = "data" THEN Code(txCrc)
       ELSE IF phase = "low" THEN Raised(Low(txCrc)) ELSE {}
Err == Xor(Code(rxCrc), Ref)

CrcTyped ==
    /\ mode \in {"sum", "crc"} /\ phase \in {"data", "low", "end"}
    /\ len \in Nat /\ hits \subseteq 1 .. len
    /\ txWidth \in Widths /\ rxWidth \in Widths
    /\ mode = "sum" => phase # "low"

DamageInv ==
    /\ hits = {} => Err = {}
    /\ hits = {len} => \E d \in Octet \ {{}} : Err = Feed({}, d, 16)
    /\ hits # {} /\ hits # {len} /\ Adjacent(hits) => Err # {}

CrcInv == CrcTyped /\ (mode = "crc" => DamageInv)

LEMMA CodeReg == ASSUME NEW reg PROVE Code(reg) \in Reg
BY DEF Code, Reg

(* An octet goes through the low 16 bits of either end's register alike.   *)
LEMMA FeedEither ==
    \A w \in Widths : \A reg, o : Code(Feed(reg, o, w)) = Feed(Code(reg), o, 16)
BY FeedCode, CodeAssumption

LEMMA RefReg == Ref \in Reg
<1>1. Code(txCrc) \in Reg /\ {} \in Reg
  BY DEF Code, Reg
<1> QED
  BY <1>1, RaisedReg DEF Ref

LEMMA InitCrcInv == Init => CrcInv
<1> SUFFICES ASSUME Init PROVE CrcInv
  OBVIOUS
<1>1. Ref = {}
  BY DEF Init, Ref, Code
<1>2. Err = {}
  BY <1>1 DEF Init, Err, Xor, Code
<1> QED
  BY <1>2 DEF Init, CrcInv, CrcTyped, DamageInv, Reg

(* An octet goes through both registers: the difference goes through the   *)
(* same turns, with the damage as its octet.                               *)
LEMMA DamageStep ==
    ASSUME CrcInv, mode = "crc",
           NEW o \in Octet, NEW damage \in Octet,
           Ref' = Feed(Ref, o, 16),
           rxCrc' = Feed(rxCrc, Xor(o, damage), rxWidth),
           Hit(damage)
    PROVE  len' \in Nat /\ hits' \subseteq 1 .. len' /\ DamageInv'
<1>1. /\ len \in Nat /\ hits \subseteq 1 .. len /\ rxWidth \in Widths
      /\ Code(rxCrc) \in Reg /\ DamageInv
  BY CodeReg DEF CrcInv, CrcTyped
<1>2. Ref \in Reg /\ Err \in Reg /\ {} \in Reg /\ {} \in Octet
  BY <1>1, RefReg, XorReg DEF Err, Reg, Octet
<1>3. Code(rxCrc)' = Feed(Code(rxCrc), Xor(o, damage), 16)
  BY <1>1, FeedEither
<1>4. len' = len + 1 /\ hits' = (IF damage = {} THEN hits ELSE hits \cup {len + 1})
  BY DEF Hit
<1>5. len' \in Nat /\ hits' \subseteq 1 .. len' /\ len + 1 \notin hits
  BY <1>1, <1>4
<1>6. Err' = Feed(Err, damage, 16)
  <2>1. Code(rxCrc) = Xor(Ref, Err)
    <3>1. /\ Code(rxCrc) = Xor(Ref, Xor(Ref, Code(rxCrc)))
          /\ Xor(Ref, Code(rxCrc)) = Err
      BY <1>1, <1>2, XorFacts DEF Err, Xor
    <3> QED
      BY <3>1
  <2>2. Code(rxCrc)' = Xor(Feed(Ref, o, 16), Feed(Err, damage, 16))
    BY <1>2, <1>3, <2>1, FeedLinear
  <2>3. Feed(Ref, o, 16) \in Reg /\ Feed(Err, damage, 16) \in Reg
    BY <1>2, FeedReg
  <2>4. Xor(Code(rxCrc)', Feed(Ref, o, 16)) = Feed(Err, damage, 16)
    BY <2>2, <2>3, XorFacts DEF Xor
  <2> QED
    BY <2>4 DEF Err
<1>7. ASSUME hits' = {} PROVE Err' = {}
  <2>1. damage = {} /\ Err = {}
    BY <1>1, <1>4, <1>7 DEF DamageInv
  <2> QED
    BY <1>2, <1>6, <2>1, FeedZero, OctetFacts
<1>8. ASSUME hits' = {len'} PROVE \E d \in Octet \ {{}} : Err' = Feed({}, d, 16)
  <2>1. hits = {} /\ damage # {}
    BY <1>4, <1>5, <1>8
  <2>2. Err = {}
    BY <1>1, <2>1 DEF DamageInv
  <2> QED
    BY <1>6, <2>1, <2>2
<1>9. ASSUME hits' # {}, hits' # {len'}, Adjacent(hits') PROVE Err' # {}
  <2>1. hits # {}
    BY <1>4, <1>9
  <2>2. CASE hits = {len}
    <3>1. PICK d \in Octet \ {{}} : Err = Feed({}, d, 16)
      BY <1>1, <2>2 DEF DamageInv
    <3> QED
      BY <1>6, <3>1, TwoOctets
  <2>3. CASE hits # {len}
    <3>1. PICK i \in hits : i # len
      BY <2>1, <2>3
    <3>2. i \in Nat /\ i < len
      BY <1>1, <3>1
    <3>3. damage = {}
      <4>1. ASSUME damage # {} PROVE FALSE
        <5>1. len + 1 \in hits' /\ i \in hits'
          BY <1>4, <3>1, <4>1
        <5>2. len + 1 <= i + 1
          BY <1>9, <5>1 DEF Adjacent
        <5> QED
          BY <1>1, <3>2, <5>2
      <4> QED
        BY <4>1
    <3>4. hits' = hits /\ Err # {}
      BY <1>1, <1>4, <1>9, <2>1, <2>3, <3>3 DEF DamageInv
    <3>5. Feed(Err, damage, 16) = {} <=> Err = Raised(damage)
      BY <1>2, FeedZero
    <3>6. Raised(damage) = {}
      BY <3>3, OctetFacts
    <3> QED
      BY <1>6, <3>4, <3>5, <3>6
  <2> QED
    BY <2>2, <2>3
<1> QED
  BY <1>5, <1>7, <1>8, <1>9 DEF DamageInv

LEMMA NextCrcInv == CrcInv /\ [Next]_vars => CrcInv'
<1> SUFFICES ASSUME CrcInv, [Next]_vars PROVE CrcInv'
  OBVIOUS
<1>1. CASE UNCHANGED vars
  BY <1>1 DEF vars, CrcInv, CrcTyped, DamageInv, Err, Ref
<1>2. CASE Next
  <2>1. PICK damage \in Damages :
            \/ \E o \in Octets : Transmit(o, damage)
            \/ SendSum(damage) \/ SendHigh(damage) \/ SendLow(damage)
    BY <1>2 DEF Next
  <2>2. damage \in Octet
    BY CodeAssumption DEF Octet
  <2>3. ASSUME NEW o \in Octets, Transmit(o, damage) PROVE CrcInv'
    <3>1. o \in Octet /\ txWidth \in Widths
      BY CodeAssumption DEF Octet, CrcInv, CrcTyped
    <3>2. CASE mode = "crc"
      <4>1. Ref' = Feed(Ref, o, 16)
        BY <2>3, <3>1, FeedEither DEF Transmit, Ref
      <4>2. DamageInv' /\ len' \in Nat /\ hits' \subseteq 1 .. len'
        BY <2>2, <2>3, <3>1, <3>2, <4>1, DamageStep DEF Transmit
      <4> QED
        BY <2>3, <3>2, <4>2 DEF Transmit, Hit, CrcInv, CrcTyped
    <3>3. CASE mode = "sum"
      BY <2>3, <3>3 DEF Transmit, Hit, CrcInv, CrcTyped
    <3> QED
      BY <3>2, <3>3 DEF CrcInv, CrcTyped
  <2>4. CASE SendSum(damage)
    BY <2>4 DEF SendSum, Hit, CrcInv, CrcTyped
  <2>5. CASE SendHigh(damage)
    <3> DEFINE code == Code(txCrc)
    <3>1. code \in Reg /\ High(code) \in Octet
      BY CodeReg, HalfFacts
    <3>2. Low(code) = Low(txCrc)
      BY DEF Low, Code
    <3>3. Ref = code /\ Ref' = Raised(Low(code))
      BY <2>5, <3>2 DEF SendHigh, Ref
    <3>4. Ref' = Feed(Ref, High(code), 16)
      BY <3>1, <3>3, FeedHigh
    <3>5. DamageInv' /\ len' \in Nat /\ hits' \subseteq 1 .. len'
      BY <2>2, <2>5, <3>1, <3>4, DamageStep DEF SendHigh
    <3> QED
      BY <2>5, <3>5 DEF SendHigh, Hit, CrcInv, CrcTyped
  <2>6. CASE SendLow(damage)
    <3> DEFINE code == Code(txCrc)
    <3>1. code \in Reg /\ Low(code) \in Octet
      BY CodeReg, HalfFacts
    <3>2. Low(code) = Low(txCrc)
      BY DEF Low, Code
    <3>3. Ref = Raised(Low(code)) /\ Ref' = {}
      BY <2>6, <3>2 DEF SendLow, Ref
    <3>4. Ref' = Feed(Ref, Low(code), 16)
      BY <3>1, <3>3, FeedLow
    <3>5. mode = "crc"
      BY <2>6 DEF SendLow, CrcInv, CrcTyped
    <3>6. DamageInv' /\ len' \in Nat /\ hits' \subseteq 1 .. len'
      BY <2>2, <2>6, <3>1, <3>4, <3>5, DamageStep DEF SendLow
    <3> QED
      BY <2>6, <3>5, <3>6 DEF SendLow, Hit, CrcInv, CrcTyped
  <2> QED
    BY <2>1, <2>3, <2>4, <2>5, <2>6
<1> QED
  BY <1>1, <1>2

(* At the end what the receiver's generate_crc returns is the difference. *)
LEMMA EndOfPacket ==
    ASSUME CrcInv, mode = "crc", phase = "end"
    PROVE  /\ hits = {} => Accepted
           /\ hits # {} /\ Adjacent(hits) => ~Accepted
<1>1. Err = Code(rxCrc) /\ DamageInv
  BY DEF CrcInv, Err, Ref, Xor
<1>2. Accepted <=> Err = {}
  BY <1>1 DEF Accepted
<1>3. \A d \in Octet \ {{}} : Feed({}, d, 16) # {}
  <2> TAKE d \in Octet \ {{}}
  <2>1. {} \in Reg /\ {} \in Octet
    BY DEF Reg, Octet
  <2>2. Feed({}, d, 16) = {} <=> {} = Raised(d)
    BY <2>1, FeedZero
  <2> QED
    BY <2>1, <2>2, OctetFacts
<1> QED
  BY <1>1, <1>2, <1>3 DEF DamageInv

(* An intact packet passes the receiver's CRC test, for payloads of any    *)
(* length and ints of any two widths from 16 bits at the two ends.         *)
THEOREM CrcAcceptsIntact == Spec => []IntactAccepted
<1>1. CrcInv => IntactAccepted
  BY EndOfPacket DEF IntactAccepted
<1> QED
  BY <1>1, InitCrcInv, NextCrcInv, PTL DEF Spec

(* The CRC notices any damage within two adjacent octets of a packet, for  *)
(* payloads of any length, the CRC octets included.                        *)
THEOREM CrcDetectsBursts == Spec => []BurstDetected
<1>1. CrcInv => BurstDetected
  BY EndOfPacket DEF BurstDetected
<1> QED
  BY <1>1, InitCrcInv, NextCrcInv, PTL DEF Spec

-----------------------------------------------------------------------------
(* Octets and the numbers 0 .. 255 correspond. *)
LEMMA BitType == \A o, i : Bit(o, i) \in {0, 1} /\ (Bit(o, i) = 1 <=> i \in o)
  BY DEF Bit

LEMMA ValueType == ASSUME NEW o PROVE Value(o) \in 0 .. 255
<1>1. \A i \in {0, 4} : Nibble(o, i) \in 0 .. 15
  BY BitType DEF Nibble
<1> QED
  BY <1>1 DEF Value

LEMMA SameBits ==
    ASSUME NEW a \in Octet, NEW b \in Octet, NEW i \in {0, 4}, Nibble(a, i) = Nibble(b, i)
    PROVE  \A j \in i .. i + 3 : j \in a <=> j \in b
<1>1. /\ Bit(a, i) = Bit(b, i) /\ Bit(a, i + 1) = Bit(b, i + 1)
      /\ Bit(a, i + 2) = Bit(b, i + 2) /\ Bit(a, i + 3) = Bit(b, i + 3)
  BY BitType DEF Nibble
<1>2. \A j \in i .. i + 3 : j \in {i, i + 1, i + 2, i + 3}
  OBVIOUS
<1> QED
  BY <1>1, <1>2, BitType

LEMMA ValueInjective ==
    ASSUME NEW a \in Octet, NEW b \in Octet, Value(a) = Value(b)
    PROVE  a = b
<1>1. \A o \in {a, b}, i \in {0, 4} : Nibble(o, i) \in 0 .. 15
  BY BitType DEF Nibble
<1>2. \A w, x, y, z \in 0 .. 15 : w + 16 * x = y + 16 * z => w = y /\ x = z
  OBVIOUS
<1>3. Nibble(a, 0) = Nibble(b, 0) /\ Nibble(a, 4) = Nibble(b, 4)
  BY <1>1, <1>2 DEF Value
<1>4. \A j \in 0 .. 3 : j \in a <=> j \in b
  BY <1>3, SameBits
<1>5. \A j \in 4 .. 7 : j \in a <=> j \in b
  BY <1>3, SameBits
<1>6. \A j \in 0 .. 7 : j \in a <=> j \in b
  BY <1>4, <1>5
<1>7. \A j : j \in a \/ j \in b => j \in 0 .. 7
  BY DEF Octet
<1> QED
  BY <1>6, <1>7

LEMMA Binary ==
    ASSUME NEW n \in 0 .. 15
    PROVE  \E p, q, r, s \in {0, 1} : n = p + 2 * q + 4 * r + 8 * s
<1>1. \A k \in 0 .. 15 : \E h \in 0 .. 7, p \in {0, 1} : k = p + 2 * h
  OBVIOUS
<1>2. \A k \in 0 .. 7 : \E h \in 0 .. 3, p \in {0, 1} : k = p + 2 * h
  OBVIOUS
<1>3. \A k \in 0 .. 3 : \E h \in {0, 1}, p \in {0, 1} : k = p + 2 * h
  OBVIOUS
<1>4. PICK h \in 0 .. 7, p \in {0, 1} : n = p + 2 * h
  BY <1>1
<1>5. PICK k \in 0 .. 3, q \in {0, 1} : h = q + 2 * k
  BY <1>2
<1>6. PICK s \in {0, 1}, r \in {0, 1} : k = r + 2 * s
  BY <1>3
<1>7. n = p + 2 * q + 4 * r + 8 * s
  BY <1>4, <1>5, <1>6
<1> QED
  BY <1>7

LEMMA ValueOfOctet == ASSUME NEW n \in 0 .. 255 PROVE OctetOf(n) \in Octet /\ Value(OctetOf(n)) = n
<1>1. \E l, h \in 0 .. 15 : n = l + 16 * h
  <2>1. n = (n % 16) + 16 * (n \div 16) /\ n % 16 \in 0 .. 15 /\ n \div 16 \in 0 .. 15
    OBVIOUS
  <2> QED
    BY <2>1
<1>2. PICK l \in 0 .. 15, h \in 0 .. 15 : n = l + 16 * h
  BY <1>1
<1>3. PICK b0, b1, b2, b3 \in {0, 1} : l = b0 + 2 * b1 + 4 * b2 + 8 * b3
  BY Binary
<1>4. PICK b4, b5, b6, b7 \in {0, 1} : h = b4 + 2 * b5 + 4 * b6 + 8 * b7
  BY Binary
<1> DEFINE bits == <<b0, b1, b2, b3, b4, b5, b6, b7>>
           o == {i \in 0 .. 7 : bits[i + 1] = 1}
<1>5. /\ Bit(o, 0) = b0 /\ Bit(o, 1) = b1 /\ Bit(o, 2) = b2 /\ Bit(o, 3) = b3
      /\ Bit(o, 4) = b4 /\ Bit(o, 5) = b5 /\ Bit(o, 6) = b6 /\ Bit(o, 7) = b7
  BY <1>3, <1>4 DEF Bit
<1>6. o \in Octet
  BY DEF Octet
<1> HIDE DEF o
<1>7. Nibble(o, 0) = l /\ Nibble(o, 4) = h
  BY <1>3, <1>4, <1>5 DEF Nibble
<1>8. Value(o) = n
  BY <1>2, <1>7 DEF Value
<1> QED
  BY <1>6, <1>8 DEF OctetOf, Octet

(* Sums that differ stay different when the same octet is added, equal     *)
(* ones differ when different octets are.                                  *)
LEMMA SumWraps == ASSUME NEW n \in 0 .. 510 PROVE n % 256 = IF n < 256 THEN n ELSE n - 256
OBVIOUS

Sum(x, v) == (x + v) % 256

LEMMA SumsDiffer ==
    ASSUME NEW x \in 0 .. 255, NEW y \in 0 .. 255, NEW v \in 0 .. 255
    PROVE  /\ Sum(x, v) \in 0 .. 255
           /\ Sum(x, v) = Sum(y, v) => x = y
           /\ Sum(v, x) = Sum(v, y) => x = y
<1>1. x + v \in 0 .. 510 /\ y + v \in 0 .. 510 /\ x + v = v + x /\ y + v = v + y
  OBVIOUS
<1>2. Sum(x, v) = IF x + v < 256 THEN x + v ELSE x + v - 256
  BY <1>1, SumWraps DEF Sum
<1>3. Sum(y, v) = IF y + v < 256 THEN y + v ELSE y + v - 256
  BY <1>1, SumWraps DEF Sum
<1>4. Sum(x, v) \in 0 .. 255
  BY <1>2
<1>5. Sum(x, v) = Sum(y, v) => x = y
  BY <1>2, <1>3
<1>6. Sum(x, v) = Sum(v, x) /\ Sum(y, v) = Sum(v, y)
  BY <1>1 DEF Sum
<1> QED
  BY <1>4, <1>5, <1>6

LEMMA AddSame ==
    ASSUME NEW x \in 0 .. 255, NEW y \in 0 .. 255, NEW o
    PROVE  AddTo(x, o) \in 0 .. 255 /\ (AddTo(x, o) = AddTo(y, o) <=> x = y)
<1>1. Value(o) \in 0 .. 255
  BY ValueType
<1>2. AddTo(x, o) = Sum(x, Value(o)) /\ AddTo(y, o) = Sum(y, Value(o))
  BY DEF AddTo, Sum
<1>3. \A v \in 0 .. 255 : Sum(x, v) \in 0 .. 255 /\ (Sum(x, v) = Sum(y, v) => x = y)
  BY SumsDiffer
<1> QED
  BY <1>1, <1>2, <1>3, Zenon

LEMMA AddOther ==
    ASSUME NEW x \in 0 .. 255, NEW o \in Octet, NEW p \in Octet, o # p
    PROVE  AddTo(x, o) # AddTo(x, p)
<1>1. Value(o) \in 0 .. 255 /\ Value(p) \in 0 .. 255 /\ Value(o) # Value(p)
  BY ValueType, ValueInjective
<1>2. AddTo(x, o) = Sum(x, Value(o)) /\ AddTo(x, p) = Sum(x, Value(p))
  BY DEF AddTo, Sum
<1>3. \A v, w \in 0 .. 255 : Sum(x, v) = Sum(x, w) => v = w
  BY SumsDiffer
<1> QED
  BY <1>1, <1>2, <1>3, Zenon

(* What the line does to an octet. *)
LEMMA Damaged ==
    ASSUME NEW o \in Octet, NEW damage \in Octet
    PROVE  Xor(o, damage) \in Octet /\ (Xor(o, damage) = o <=> damage = {})
  BY DEF Xor, Octet

(* How many octets are damaged, as far as the checksum is good for. *)
LEMMA HitCount ==
    ASSUME NEW l \in Nat, NEW h, h \subseteq 1 .. l, Cardinality(h) <= 1
    PROVE  h = {} \/ \E i \in h : h = {i}
<1>1. IsFiniteSet(h)
  <2>1. IsFiniteSet(1 .. l)
    BY FS_Interval
  <2> QED
    BY <2>1, FS_Subset
<1>2. Cardinality(h) = 0 => h = {}
  BY <1>1, FS_EmptySet
<1>3. Cardinality(h) = 1 => \E i \in h : h = {i}
  BY <1>1, FS_Singleton
<1>4. Cardinality(h) = 0 \/ Cardinality(h) = 1
  BY <1>1, FS_CardinalityType
<1> QED
  BY <1>2, <1>3, <1>4

(* One damaged octet is the difference between the two sums, or between    *)
(* the sum and the checksum; without damage there is none.                 *)
Single(positions) == \E i \in positions : positions = {i}

SumInv ==
    /\ mode \in {"sum", "crc"} /\ phase \in {"data", "low", "end"}
    /\ mode = "sum" => phase # "low"
    /\ len \in Nat /\ hits \subseteq 1 .. len
    /\ txSum \in 0 .. 255 /\ rxSum \in 0 .. 255 /\ rxCheck \in 0 .. 255
    /\ phase = "data" => /\ hits = {} => rxSum = txSum
                         /\ Single(hits) => rxSum # txSum
    /\ mode = "sum" /\ phase # "data" => /\ hits = {} => rxSum = rxCheck
                                         /\ Single(hits) => rxSum # rxCheck

LEMMA InitSumInv == Init => SumInv
  BY DEF Init, SumInv, Single

(* A position is hit or not. *)
LEMMA HitCases ==
    ASSUME SumInv, NEW damage \in Octet, Hit(damage)
    PROVE  /\ len' \in Nat /\ hits' \subseteq 1 .. len'
           /\ damage = {} => hits' = hits
           /\ damage # {} => hits' # {} /\ (Single(hits') => hits = {})
<1>1. len \in Nat /\ hits \subseteq 1 .. len /\ len' = len + 1
  BY DEF SumInv, Hit
<1>2. hits' = IF damage = {} THEN hits ELSE hits \cup {len + 1}
  BY <1>1 DEF Hit
<1>3. len + 1 \notin hits
  BY <1>1
<1>4. len' \in Nat /\ hits' \subseteq 1 .. len'
  BY <1>1, <1>2
<1>5. damage # {} => hits' # {} /\ (Single(hits') => hits = {})
  BY <1>2, <1>3 DEF Single
<1> QED
  BY <1>2, <1>4, <1>5

LEMMA NextSumInv == SumInv /\ [Next]_vars => SumInv'
<1> SUFFICES ASSUME SumInv, [Next]_vars PROVE SumInv'
  OBVIOUS
<1>1. CASE UNCHANGED vars
  BY <1>1 DEF vars, SumInv
<1>2. CASE Next
  <2>1. PICK damage \in Damages :
            \/ \E o \in Octets : Transmit(o, damage)
            \/ SendSum(damage) \/ SendHigh(damage) \/ SendLow(damage)
    BY <1>2 DEF Next
  <2>2. damage \in Octet /\ Octets \subseteq Octet
    BY CodeAssumption DEF Octet
  <2>3. Hit(damage) /\ mode' = mode
    BY <2>1 DEF Transmit, SendSum, SendHigh, SendLow, Hit
  <2>4. /\ len' \in Nat /\ hits' \subseteq 1 .. len'
        /\ damage = {} => hits' = hits
        /\ damage # {} => hits' # {} /\ (Single(hits') => hits = {})
    BY <2>2, <2>3, HitCases
  <2>5. ASSUME NEW o \in Octets, Transmit(o, damage) PROVE SumInv'
    <3> DEFINE arrived == Xor(o, damage)
    <3>1. arrived \in Octet /\ (arrived = o <=> damage = {}) /\ o \in Octet
      BY <2>2, Damaged
    <3>2. /\ phase = "data" /\ phase' = phase /\ rxCheck' = rxCheck
          /\ txSum' = AddTo(txSum, o) /\ rxSum' = AddTo(rxSum, arrived)
      BY <2>5 DEF Transmit
    <3> HIDE DEF arrived
    <3>3. txSum \in 0 .. 255 /\ rxSum \in 0 .. 255
      BY DEF SumInv
    <3>4. txSum' \in 0 .. 255 /\ rxSum' \in 0 .. 255
      BY <3>2, <3>3, AddSame
    <3>5. ASSUME hits' = {} PROVE rxSum' = txSum'
      BY <2>4, <3>1, <3>2, <3>5 DEF SumInv
    <3>6. ASSUME Single(hits') PROVE rxSum' # txSum'
      <4>1. CASE damage = {}
        <5>1. rxSum # txSum /\ arrived = o
          BY <2>4, <3>1, <3>2, <3>6, <4>1 DEF SumInv, Single
        <5> QED
          BY <3>2, <3>3, <5>1, AddSame
      <4>2. CASE damage # {}
        <5>1. rxSum = txSum /\ arrived # o
          BY <2>4, <3>1, <3>2, <3>6, <4>2 DEF SumInv
        <5> QED
          BY <3>1, <3>2, <3>3, <5>1, AddOther
      <4> QED
        BY <4>1, <4>2
    <3> QED
      BY <2>3, <2>4, <3>2, <3>4, <3>5, <3>6 DEF SumInv
  <2>6. CASE SendSum(damage)
    <3> DEFINE arrived == Xor(OctetOf(txSum), damage)
    <3>1. txSum \in 0 .. 255 /\ rxSum \in 0 .. 255
      BY DEF SumInv
    <3>2. OctetOf(txSum) \in Octet /\ Value(OctetOf(txSum)) = txSum
      BY <3>1, ValueOfOctet
    <3>3. arrived \in Octet /\ (arrived = OctetOf(txSum) <=> damage = {})
      BY <2>2, <3>2, Damaged
    <3>4. /\ phase = "data" /\ phase' = "end" /\ txSum' = txSum /\ rxSum' = rxSum
          /\ rxCheck' = Value(arrived)
      BY <2>6 DEF SendSum
    <3> HIDE DEF arrived
    <3>5. rxCheck' \in 0 .. 255 /\ (rxCheck' = txSum <=> damage = {})
      BY <3>2, <3>3, <3>4, ValueType, ValueInjective
    <3>6. ASSUME hits' = {} PROVE rxSum' = rxCheck'
      BY <2>4, <3>4, <3>5, <3>6 DEF SumInv
    <3>7. ASSUME Single(hits') PROVE rxSum' # rxCheck'
      BY <2>4, <3>4, <3>5, <3>7 DEF SumInv, Single
    <3> QED
      BY <2>3, <2>4, <3>1, <3>4, <3>5, <3>6, <3>7 DEF SumInv
  <2>7. CASE SendHigh(damage)
    BY <2>3, <2>4, <2>7 DEF SendHigh, SumInv
  <2>8. CASE SendLow(damage)
    BY <2>3, <2>4, <2>8 DEF SendLow, SumInv
  <2> QED
    BY <2>1, <2>5, <2>6, <2>7, <2>8
<1> QED
  BY <1>1, <1>2

(* The checksum test tells a packet with one damaged octet, the checksum   *)
(* included, from an intact one, for payloads of any length.               *)
THEOREM ChecksumTells == Spec => []ChecksumTest
<1>1. SumInv => ChecksumTest
  <2> SUFFICES ASSUME SumInv, mode = "sum", phase = "end", Cardinality(hits) <= 1
               PROVE  Accepted <=> hits = {}
    BY DEF ChecksumTest
  <2>1. hits = {} \/ Single(hits)
    BY HitCount DEF SumInv, Single
  <2> QED
    BY <2>1 DEF SumInv, Accepted, Single
<1> QED
  BY <1>1, InitSumInv, NextSumInv, PTL DEF Spec

-----------------------------------------------------------------------------
(* The registers, each of the width of its end's int. *)
Wide(w) == SUBSET (0 .. w - 1)
RegsWide ==
    /\ txWidth \in Widths /\ rxWidth \in Widths
    /\ txCrc \in Wide(txWidth) /\ rxCrc \in Wide(rxWidth)

LEMMA TurnWide ==
    ASSUME NEW w \in Nat, w >= 16
    PROVE  \A reg \in Wide(w) : Turn(reg, w) \in Wide(w)
<1>1. Poly \in Wide(w)
  BY DEF Poly, Wide
<1>2. \A reg : Shl(reg, w) \in Wide(w)
  BY DEF Shl, Wide
<1>3. \A a, b \in Wide(w) : Xor(a, b) \in Wide(w)
  BY DEF Xor, Wide
<1> QED
  BY <1>1, <1>2, <1>3 DEF Turn

LEMMA FeedWide ==
    ASSUME NEW w \in Widths, NEW reg \in Wide(w), NEW o
    PROVE  Feed(reg, o, w) \in Wide(w)
<1>1. w \in Nat /\ w >= 16
  BY CodeAssumption
<1>2. Xor(reg, Raised(o)) \in Wide(w)
  <2>1. Raised(o) \in Wide(w)
    BY <1>1 DEF Raised, Wide
  <2> QED
    BY <2>1 DEF Xor, Wide
<1>3. \A r \in Wide(w) : TwoTurns(r, w) \in Wide(w)
  BY <1>1, TurnWide DEF TwoTurns
<1>4. \A r \in Wide(w) : FourTurns(r, w) \in Wide(w)
  BY <1>3 DEF FourTurns
<1>5. \A r \in Wide(w) : EightTurns(r, w) \in Wide(w)
  BY <1>4 DEF EightTurns
<1> QED
  BY <1>2, <1>5 DEF Feed

(* The sums stay bytes and the registers as wide as they are.              *)
THEOREM CodesTyped == Spec => []TypeOK
<1>1. Init => RegsWide
  BY DEF Init, RegsWide, Wide
<1>2. RegsWide /\ [Next]_vars => RegsWide'
  BY FeedWide DEF RegsWide, Next, Transmit, SendSum, SendHigh, SendLow, Hit, vars
<1>3. CrcInv /\ SumInv /\ RegsWide => TypeOK
  BY DEF RegsWide, CrcInv, CrcTyped, SumInv, TypeOK, Wide
<1> QED
  BY <1>1, <1>2, <1>3, InitCrcInv, NextCrcInv, InitSumInv, NextSumInv, PTL DEF Spec
=============================================================================
