-------------------------- MODULE ProxyRoutesProofs --------------------------
(***************************************************************************)
(* Proofs about ProxyRoutes: that what RealIP is given is the route, for   *)
(* routes of any length and headers of any lines, and what it makes of it. *)
(***************************************************************************)
EXTENDS ProxyRoutes, RealIPProofs, SequenceTheorems, WellFoundedInduction

-----------------------------------------------------------------------------
(***************************************************************************)
(* Induction, over the members of a set.                                   *)
(***************************************************************************)

(* A set that has 0 and with each number the next one has them all.        *)
LEMMA NatInSet ==
    ASSUME NEW S, 0 \in S, \A n \in Nat : n \in S => n + 1 \in S
    PROVE  \A n \in Nat : n \in S
<1> SUFFICES ASSUME NEW bad \in SUBSET Nat, bad = {n \in Nat : n \notin S}, bad # {}
             PROVE  FALSE
  OBVIOUS
<1>1. PICK x \in bad : \A y \in bad : ~(<<y, x>> \in OpToRel(<, Nat))
  BY NatLessThanWellFounded, WFMin, Zenon
<1>2. \A y \in bad : ~(y < x)
  BY <1>1 DEF OpToRel
<1>3. x \in Nat /\ x # 0
  OBVIOUS
<1>4. x - 1 \in Nat /\ (x - 1) + 1 = x /\ x - 1 < x
  BY <1>3
<1>5. x - 1 \in S
  BY <1>2, <1>4
<1> QED BY <1>3, <1>4, <1>5

-----------------------------------------------------------------------------
(***************************************************************************)
(* The recursive functions of rawHeaderValues, Parsed and ParsedLines are  *)
(* there, and satisfy their equations.                                     *)
(***************************************************************************)
Unread == [out |-> <<>>, inTarget |-> FALSE]

ReadTo(f, m, block, name) ==
    f = [n \in 0..m |-> IF n = 0 THEN Unread
                        ELSE ReadLine(f[n - 1], block[n], name)]

(* Reading a block of lines, line by line.                                 *)
LEMMA Reading ==
    ASSUME NEW block, Len(block) \in Nat, NEW name
    PROVE  \E f : /\ f[0] = Unread
                  /\ \A n \in 1..Len(block) :
                        f[n] = ReadLine(f[n - 1], block[n], name)
                  /\ rawHeaderValues(block, name) = f[Len(block)].out
<1> DEFINE S == {m \in Nat : \E f : ReadTo(f, m, block, name)}
<1>1. 0 \in S
  <2>1. ReadTo([n \in 0..0 |-> Unread], 0, block, name)
    BY DEF ReadTo
  <2> QED BY <2>1
<1>2. ASSUME NEW m \in Nat, m \in S PROVE m + 1 \in S
  <2>1. PICK f : ReadTo(f, m, block, name)
    BY <1>2
  <2>2. PICK g : g = [n \in 0..(m + 1) |->
                         IF n <= m THEN f[n] ELSE ReadLine(f[m], block[m + 1], name)]
    OBVIOUS
  <2>3. /\ DOMAIN g = 0..(m + 1) /\ \A n \in 0..m : g[n] = f[n]
        /\ g[m + 1] = ReadLine(f[m], block[m + 1], name)
    BY <2>2
  <2>4. g = [n \in 0..(m + 1) |-> IF n = 0 THEN Unread
                                  ELSE ReadLine(g[n - 1], block[n], name)]
    BY <2>1, <2>2, <2>3 DEF ReadTo
  <2> QED BY <2>4 DEF ReadTo
<1> HIDE DEF S
<1>3. Len(block) \in S
  BY <1>1, <1>2, NatInSet
<1>4. PICK f : f = CHOOSE h : ReadTo(h, Len(block), block, name)
  OBVIOUS
<1>5. ReadTo(f, Len(block), block, name)
  BY <1>3, <1>4 DEF S
<1>6. rawHeaderValues(block, name) = f[Len(block)].out
  BY <1>4 DEF rawHeaderValues, ReadTo, Unread
<1>7. /\ f[0] = Unread
      /\ \A n \in 1..Len(block) : f[n] = ReadLine(f[n - 1], block[n], name)
  BY <1>5 DEF ReadTo
<1> QED BY <1>6, <1>7

ParsedTo(f, m, parts) ==
    f = [n \in 0..m |-> IF n = 0 THEN <<>> ELSE ParsePart(f[n - 1], parts[n])]

(* Parsing the parts of a line, one by one.                                *)
LEMMA Parsing ==
    ASSUME NEW parts, Len(parts) \in Nat
    PROVE  \E f : /\ f[0] = <<>>
                  /\ \A n \in 1..Len(parts) : f[n] = ParsePart(f[n - 1], parts[n])
                  /\ Parsed(parts) = f[Len(parts)]
<1> DEFINE S == {m \in Nat : \E f : ParsedTo(f, m, parts)}
<1>1. 0 \in S
  <2>1. ParsedTo([n \in 0..0 |-> <<>>], 0, parts)
    BY DEF ParsedTo
  <2> QED BY <2>1
<1>2. ASSUME NEW m \in Nat, m \in S PROVE m + 1 \in S
  <2>1. PICK f : ParsedTo(f, m, parts)
    BY <1>2
  <2>2. PICK g : g = [n \in 0..(m + 1) |->
                         IF n <= m THEN f[n] ELSE ParsePart(f[m], parts[m + 1])]
    OBVIOUS
  <2>3. /\ DOMAIN g = 0..(m + 1) /\ \A n \in 0..m : g[n] = f[n]
        /\ g[m + 1] = ParsePart(f[m], parts[m + 1])
    BY <2>2
  <2>4. g = [n \in 0..(m + 1) |-> IF n = 0 THEN <<>>
                                  ELSE ParsePart(g[n - 1], parts[n])]
    BY <2>1, <2>2, <2>3 DEF ParsedTo
  <2> QED BY <2>4 DEF ParsedTo
<1> HIDE DEF S
<1>3. Len(parts) \in S
  BY <1>1, <1>2, NatInSet
<1>4. PICK f : f = CHOOSE h : ParsedTo(h, Len(parts), parts)
  OBVIOUS
<1>5. ParsedTo(f, Len(parts), parts)
  BY <1>3, <1>4 DEF S
<1>6. Parsed(parts) = f[Len(parts)]
  BY <1>4 DEF Parsed, ParsedTo
<1>7. /\ f[0] = <<>>
      /\ \A n \in 1..Len(parts) : f[n] = ParsePart(f[n - 1], parts[n])
  BY <1>5 DEF ParsedTo
<1> QED BY <1>6, <1>7

(* What parses of a line is a sequence of addresses, and a part more is    *)
(* an address more, if it is one.                                          *)
LEMMA ParsedIsSeq ==
    ASSUME NEW T, NEW parts \in Seq(T)
    PROVE  Parsed(parts) \in Seq(Addrs)
<1>1. Len(parts) \in Nat
  OBVIOUS
<1>2. PICK f : /\ f[0] = <<>>
               /\ \A n \in 1..Len(parts) : f[n] = ParsePart(f[n - 1], parts[n])
               /\ Parsed(parts) = f[Len(parts)]
  BY <1>1, Parsing
<1> DEFINE S == {n \in Nat : n \in 0..Len(parts) => f[n] \in Seq(Addrs)}
<1>3. 0 \in S
  <2>1. <<>> \in Seq(Addrs)
    BY EmptySeq
  <2> QED BY <1>2, <2>1
<1>4. ASSUME NEW n \in Nat, n \in S PROVE n + 1 \in S
  <2> SUFFICES ASSUME n + 1 \in 0..Len(parts) PROVE f[n + 1] \in Seq(Addrs)
    OBVIOUS
  <2>1. n \in 0..Len(parts) /\ n + 1 \in 1..Len(parts) /\ (n + 1) - 1 = n
    BY <1>1
  <2>2. f[n] \in Seq(Addrs)
    BY <1>4, <2>1
  <2>3. f[n + 1] = ParsePart(f[n], parts[n + 1])
    BY <1>2, <2>1
  <2> QED BY <2>2, <2>3 DEF ParsePart
<1> HIDE DEF S
<1>5. Len(parts) \in S
  BY <1>1, <1>3, <1>4, NatInSet
<1> QED BY <1>1, <1>2, <1>5 DEF S

LEMMA ParsedGrows ==
    ASSUME NEW T, NEW parts \in Seq(T), NEW part \in T
    PROVE  Parsed(Append(parts, part)) =
              ParsePart(Parsed(parts), part)
<1>1. PICK longer : longer = Append(parts, part)
  OBVIOUS
<1>2. /\ Len(parts) \in Nat /\ Len(longer) = Len(parts) + 1
      /\ \A n \in 1..Len(parts) : longer[n] = parts[n]
      /\ longer[Len(parts) + 1] = part
  BY <1>1
<1>3. PICK f : /\ f[0] = <<>>
               /\ \A n \in 1..Len(parts) : f[n] = ParsePart(f[n - 1], parts[n])
               /\ Parsed(parts) = f[Len(parts)]
  BY <1>2, Parsing
<1>4. PICK g : /\ g[0] = <<>>
               /\ \A n \in 1..Len(longer) : g[n] = ParsePart(g[n - 1], longer[n])
               /\ Parsed(longer) = g[Len(longer)]
  BY <1>2, Parsing
<1> DEFINE S == {n \in Nat : n \in 0..Len(parts) => f[n] = g[n]}
<1>5. 0 \in S
  BY <1>3, <1>4
<1>6. ASSUME NEW n \in Nat, n \in S PROVE n + 1 \in S
  <2> SUFFICES ASSUME n + 1 \in 0..Len(parts) PROVE f[n + 1] = g[n + 1]
    OBVIOUS
  <2>1. /\ n \in 0..Len(parts) /\ n + 1 \in 1..Len(parts)
        /\ n + 1 \in 1..Len(longer) /\ (n + 1) - 1 = n
    BY <1>2
  <2>2. f[n] = g[n] /\ longer[n + 1] = parts[n + 1]
    BY <1>2, <1>6, <2>1
  <2> QED BY <1>3, <1>4, <2>1, <2>2
<1> HIDE DEF S
<1>7. Len(parts) \in S
  BY <1>2, <1>5, <1>6, NatInSet
<1>8. f[Len(parts)] = g[Len(parts)]
  BY <1>2, <1>7 DEF S
<1>9. Len(longer) \in 1..Len(longer) /\ Len(longer) - 1 = Len(parts)
  BY <1>2
<1> QED BY <1>1, <1>2, <1>3, <1>4, <1>8, <1>9

LinesTo(f, m, lines) ==
    f = [n \in 0..m |-> IF n = 0 THEN <<>> ELSE ParseLine(f[n - 1], lines[n])]

(* Parsing the lines of a header, one by one.                              *)
LEMMA ParsingLines ==
    ASSUME NEW lines, Len(lines) \in Nat
    PROVE  \E f : /\ f[0] = <<>>
                  /\ \A n \in 1..Len(lines) : f[n] = ParseLine(f[n - 1], lines[n])
                  /\ ParsedLines(lines) = f[Len(lines)]
<1> DEFINE S == {m \in Nat : \E f : LinesTo(f, m, lines)}
<1>1. 0 \in S
  <2>1. LinesTo([n \in 0..0 |-> <<>>], 0, lines)
    BY DEF LinesTo
  <2> QED BY <2>1
<1>2. ASSUME NEW m \in Nat, m \in S PROVE m + 1 \in S
  <2>1. PICK f : LinesTo(f, m, lines)
    BY <1>2
  <2>2. PICK g : g = [n \in 0..(m + 1) |->
                         IF n <= m THEN f[n] ELSE ParseLine(f[m], lines[m + 1])]
    OBVIOUS
  <2>3. /\ DOMAIN g = 0..(m + 1) /\ \A n \in 0..m : g[n] = f[n]
        /\ g[m + 1] = ParseLine(f[m], lines[m + 1])
    BY <2>2
  <2>4. g = [n \in 0..(m + 1) |-> IF n = 0 THEN <<>>
                                  ELSE ParseLine(g[n - 1], lines[n])]
    BY <2>1, <2>2, <2>3 DEF LinesTo
  <2> QED BY <2>4 DEF LinesTo
<1> HIDE DEF S
<1>3. Len(lines) \in S
  BY <1>1, <1>2, NatInSet
<1>4. PICK f : f = CHOOSE h : LinesTo(h, Len(lines), lines)
  OBVIOUS
<1>5. LinesTo(f, Len(lines), lines)
  BY <1>3, <1>4 DEF S
<1>6. ParsedLines(lines) = f[Len(lines)]
  BY <1>4 DEF ParsedLines, LinesTo
<1>7. f[0] = <<>> /\ \A n \in 1..Len(lines) : f[n] = ParseLine(f[n - 1], lines[n])
  BY <1>5 DEF LinesTo
<1> QED BY <1>6, <1>7

(* What parses of the lines is a sequence of addresses, and a line more is *)
(* what parses of it more.                                                 *)
LEMMA ParsedLinesIsSeq ==
    ASSUME NEW T, NEW lines \in Seq(Seq(T))
    PROVE  ParsedLines(lines) \in Seq(Addrs)
<1>1. Len(lines) \in Nat
  OBVIOUS
<1>2. PICK f : /\ f[0] = <<>>
               /\ \A n \in 1..Len(lines) : f[n] = ParseLine(f[n - 1], lines[n])
               /\ ParsedLines(lines) = f[Len(lines)]
  BY <1>1, ParsingLines
<1> DEFINE S == {n \in Nat : n \in 0..Len(lines) => f[n] \in Seq(Addrs)}
<1>3. 0 \in S
  <2>1. <<>> \in Seq(Addrs)
    BY EmptySeq
  <2> QED BY <1>2, <2>1
<1>4. ASSUME NEW n \in Nat, n \in S PROVE n + 1 \in S
  <2> SUFFICES ASSUME n + 1 \in 0..Len(lines) PROVE f[n + 1] \in Seq(Addrs)
    OBVIOUS
  <2>1. n \in 0..Len(lines) /\ n + 1 \in 1..Len(lines) /\ (n + 1) - 1 = n
    BY <1>1
  <2>2. f[n] \in Seq(Addrs)
    BY <1>4, <2>1
  <2>3. Parsed(lines[n + 1]) \in Seq(Addrs)
    BY <2>1, ParsedIsSeq
  <2>4. f[n + 1] = f[n] \o Parsed(lines[n + 1])
    BY <1>2, <2>1 DEF ParseLine
  <2> QED BY <2>2, <2>3, <2>4
<1> HIDE DEF S
<1>5. Len(lines) \in S
  BY <1>1, <1>3, <1>4, NatInSet
<1> QED BY <1>1, <1>2, <1>5 DEF S

LEMMA ParsedLinesGrow ==
    ASSUME NEW T, NEW lines \in Seq(Seq(T)), NEW line \in Seq(T)
    PROVE  ParsedLines(Append(lines, line)) = ParsedLines(lines) \o Parsed(line)
<1>1. PICK longer : longer = Append(lines, line)
  OBVIOUS
<1>2. /\ Len(lines) \in Nat /\ Len(longer) = Len(lines) + 1
      /\ \A n \in 1..Len(lines) : longer[n] = lines[n]
      /\ longer[Len(lines) + 1] = line
  BY <1>1
<1>3. PICK f : /\ f[0] = <<>>
               /\ \A n \in 1..Len(lines) : f[n] = ParseLine(f[n - 1], lines[n])
               /\ ParsedLines(lines) = f[Len(lines)]
  BY <1>2, ParsingLines
<1>4. PICK g : /\ g[0] = <<>>
               /\ \A n \in 1..Len(longer) : g[n] = ParseLine(g[n - 1], longer[n])
               /\ ParsedLines(longer) = g[Len(longer)]
  BY <1>2, ParsingLines
<1> DEFINE S == {n \in Nat : n \in 0..Len(lines) => f[n] = g[n]}
<1>5. 0 \in S
  BY <1>3, <1>4
<1>6. ASSUME NEW n \in Nat, n \in S PROVE n + 1 \in S
  <2> SUFFICES ASSUME n + 1 \in 0..Len(lines) PROVE f[n + 1] = g[n + 1]
    OBVIOUS
  <2>1. /\ n \in 0..Len(lines) /\ n + 1 \in 1..Len(lines)
        /\ n + 1 \in 1..Len(longer) /\ (n + 1) - 1 = n
    BY <1>2
  <2>2. f[n] = g[n] /\ longer[n + 1] = lines[n + 1]
    BY <1>2, <1>6, <2>1
  <2> QED BY <1>3, <1>4, <2>1, <2>2
<1> HIDE DEF S
<1>7. Len(lines) \in S
  BY <1>2, <1>5, <1>6, NatInSet
<1>8. f[Len(lines)] = g[Len(lines)]
  BY <1>2, <1>7 DEF S
<1>9. Len(longer) \in 1..Len(longer) /\ Len(longer) - 1 = Len(lines)
  BY <1>2
<1>10. ParsedLines(longer) = ParseLine(ParsedLines(lines), line)
  BY <1>2, <1>3, <1>4, <1>8, <1>9
<1> QED BY <1>1, <1>10 DEF ParseLine

-----------------------------------------------------------------------------
(***************************************************************************)
(* What a hop appends is what parses more.                                 *)
(***************************************************************************)

(* A proxy appends an address, in a line of its own or in the last one.    *)
LEMMA Appended ==
    ASSUME NEW lines \in HeaderLines, NEW ip \in Addrs
    PROVE  /\ Append(lines, <<ip>>) \in HeaderLines
           /\ ParsedLines(Append(lines, <<ip>>)) = Append(ParsedLines(lines), ip)
           /\ lines # <<>> =>
                 LET longer == Front(lines) \o <<Append(Last(lines), ip)>>
                 IN  /\ longer \in HeaderLines
                     /\ ParsedLines(longer) = Append(ParsedLines(lines), ip)
<1>1. /\ lines \in Seq(Seq(Part)) /\ ip \in Part /\ <<ip>> \in Seq(Part)
      /\ ParsedLines(lines) \in Seq(Addrs)
  <2>1. lines \in Seq(Seq(Part)) /\ ip \in Part
    BY DEF HeaderLines, Part
  <2>2. ParsedLines(lines) \in Seq(Addrs)
    BY <2>1, ParsedLinesIsSeq
  <2> QED BY <2>1, <2>2
<1>2. Append(lines, <<ip>>) \in HeaderLines
  BY DEF HeaderLines, Part
<1>3. Parsed(<<ip>>) = <<ip>>
  <2>1. Len(<<>>) = 0 /\ <<>> \in Seq(Part) /\ Append(<<>>, ip) = <<ip>>
    OBVIOUS
  <2>2. Parsed(<<>>) = <<>>
    BY <2>1, Parsing
  <2>3. Parsed(Append(<<>>, ip)) = ParsePart(<<>>, ip)
    BY <1>1, <2>1, <2>2, ParsedGrows
  <2> QED BY <2>1, <2>3 DEF ParsePart
<1>4. ParsedLines(Append(lines, <<ip>>)) = Append(ParsedLines(lines), ip)
  <2>1. ParsedLines(Append(lines, <<ip>>)) = ParsedLines(lines) \o <<ip>>
    BY <1>1, <1>3, ParsedLinesGrow
  <2> QED BY <1>1, <2>1, AppendIsConcat
<1>5. ASSUME lines # <<>>
      PROVE  /\ Front(lines) \o <<Append(Last(lines), ip)>> \in HeaderLines
             /\ ParsedLines(Front(lines) \o <<Append(Last(lines), ip)>>)
                   = Append(ParsedLines(lines), ip)
  <2>1. PICK front, last : front = Front(lines) /\ last = Last(lines)
    OBVIOUS
  <2>2. /\ front \in HeaderLines /\ last \in Seq(Part) \ {<<>>}
        /\ lines = Append(front, last)
    BY <1>5, <2>1 DEF Front, Last, HeaderLines
  <2>3. PICK longer : longer = Append(last, ip)
    OBVIOUS
  <2>4. longer \in Seq(Part) \ {<<>>}
    <3>1. longer \in Seq(Part) /\ Len(longer) = Len(last) + 1 /\ Len(last) \in Nat
      BY <1>1, <2>2, <2>3
    <3>2. Len(longer) # 0
      BY <3>1
    <3> QED BY <3>1, <3>2
  <2>5. /\ front \o <<longer>> = Append(front, longer)
        /\ Append(front, longer) \in HeaderLines
    BY <2>2, <2>4, AppendIsConcat DEF HeaderLines
  <2>6. front \in Seq(Seq(Part)) /\ last \in Seq(Part)
    BY <2>2 DEF HeaderLines
  <2>7. /\ ParsedLines(Append(front, longer)) = ParsedLines(front) \o Parsed(longer)
        /\ ParsedLines(lines) = ParsedLines(front) \o Parsed(last)
    BY <2>2, <2>4, <2>6, ParsedLinesGrow
  <2>8. Parsed(longer) = Append(Parsed(last), ip)
    BY <1>1, <2>3, <2>6, ParsedGrows DEF ParsePart
  <2>9. ParsedLines(front) \in Seq(Addrs) /\ Parsed(last) \in Seq(Addrs)
    BY <2>6, ParsedIsSeq, ParsedLinesIsSeq
  <2>10. ParsedLines(front) \o Append(Parsed(last), ip)
            = Append(ParsedLines(front) \o Parsed(last), ip)
    BY <2>9
  <2> QED BY <2>1, <2>3, <2>5, <2>7, <2>8, <2>10
<1> QED BY <1>2, <1>4, <1>5

-----------------------------------------------------------------------------
(***************************************************************************)
(* What is read of a header is what was written, folded or not.            *)
(***************************************************************************)

(* The last of a sequence, and what comes before it.                       *)
LEMMA LastAppended ==
    ASSUME NEW T, NEW o \in Seq(T), NEW x \in T, NEW y \in T
    PROVE  /\ Front(Append(o, x)) = o /\ Last(Append(o, x)) = x
           /\ o \o <<y>> = Append(o, y)
<1>1. PICK s : s = Append(o, x)
  OBVIOUS
<1>2. /\ s \in Seq(T) /\ Len(s) = Len(o) + 1 /\ Len(o) \in Nat
      /\ s[Len(o) + 1] = x /\ \A n \in 1..Len(o) : s[n] = o[n]
  BY <1>1
<1>3. Last(s) = x
  BY <1>2 DEF Last
<1>4. PICK front : front = Front(s)
  OBVIOUS
<1>5. front = SubSeq(s, 1, Len(o))
  BY <1>2, <1>4 DEF Front
<1>6. /\ front \in Seq(T) /\ Len(front) = Len(o)
      /\ \A n \in 1..Len(o) : front[n] = s[n]
  BY <1>2, <1>5
<1>7. front = o
  BY <1>2, <1>6, SeqEqual
<1>8. o \o <<y>> = Append(o, y)
  BY AppendIsConcat
<1> QED BY <1>1, <1>3, <1>4, <1>7, <1>8

(* A line that continues the header goes on with the last value.           *)
Continues(o, x, p, name) ==
    ReadLine([out |-> Append(o, x), inTarget |-> TRUE], Fold(p), name)
       = [out |-> Append(o, x \o p), inTarget |-> TRUE]

LEMMA FoldContinues ==
    ASSUME NEW T, NEW o \in Seq(T), NEW x \in T, NEW p, x \o p \in T,
           NEW name, name # "blank"
    PROVE  Continues(o, x, p, name)
<1>1. Front(Append(o, x)) = o /\ Last(Append(o, x)) = x
  BY LastAppended
<1>2. o \o <<x \o p>> = Append(o, x \o p)
  BY LastAppended
<1>3. /\ Fold(p).name # name /\ Fold(p).name = "blank" /\ Fold(p).parts = p
  BY DEF Fold, Line
<1> QED BY <1>1, <1>2, <1>3 DEF ReadLine, Continues

(* A line that begins a header or continues it is a line of the block.     *)
LEMMA IsLine ==
    ASSUME NEW name, NEW parts \in Seq(Part)
    PROVE  /\ Line(name, parts) \in [name : {name, "blank"}, parts : Seq(Part)]
           /\ Fold(parts) \in [name : {name, "blank"}, parts : Seq(Part)]
<1>1. Line(name, parts) \in [name : {name, "blank"}, parts : Seq(Part)]
  BY DEF Line
<1>2. "blank" \in {name, "blank"}
  OBVIOUS
<1>3. Line("blank", parts) \in [name : {name, "blank"}, parts : Seq(Part)]
  BY <1>2 DEF Line
<1> QED BY <1>1, <1>3 DEF Fold

(* The lines of a header, not folded and folded.                           *)
LEMMA HeaderIs ==
    ASSUME NEW name, NEW lines \in HeaderLines, NEW folds \in BOOLEAN
    PROVE  /\ Header(name, lines, folds) \in Seq([name : {name, "blank"}, parts : Seq(Part)])
           /\ ~folds => /\ Len(Header(name, lines, folds)) = Len(lines)
                        /\ \A k \in 1..Len(lines) :
                              Header(name, lines, folds)[k] = Line(name, lines[k])
           /\ folds =>
                 /\ Len(Header(name, lines, folds)) = 2 * Len(lines)
                 /\ \A k \in 1..Len(lines) :
                       /\ Header(name, lines, folds)[2 * k - 1]
                             = Line(name, <<Head(lines[k])>>)
                       /\ Header(name, lines, folds)[2 * k] = Fold(Tail(lines[k]))
<1>1. /\ Len(lines) \in Nat
      /\ \A k \in 1..Len(lines) :
            /\ lines[k] \in Seq(Part) /\ lines[k] # <<>>
            /\ <<Head(lines[k])>> \in Seq(Part) /\ Tail(lines[k]) \in Seq(Part)
  BY DEF HeaderLines
<1>2. CASE ~folds
  <2>1. Header(name, lines, folds) = [n \in 1..Len(lines) |-> Line(name, lines[n])]
    BY <1>2 DEF Header
  <2> QED BY <1>1, <1>2, <2>1 DEF Line
<1>3. CASE folds
  <2>1. Header(name, lines, folds) =
           [n \in 1..(2 * Len(lines)) |->
              IF n % 2 = 1 THEN Line(name, <<Head(lines[(n + 1) \div 2])>>)
                           ELSE Fold(Tail(lines[n \div 2]))]
    BY <1>3 DEF Header
  <2>2. \A n \in 1..(2 * Len(lines)) :
           /\ n % 2 = 1 => (n + 1) \div 2 \in 1..Len(lines)
           /\ n % 2 # 1 => n \div 2 \in 1..Len(lines)
    BY <1>1
  <2>3. \A k \in 1..Len(lines) :
           /\ 2 * k - 1 \in 1..(2 * Len(lines)) /\ 2 * k \in 1..(2 * Len(lines))
           /\ (2 * k - 1) % 2 = 1 /\ ((2 * k - 1) + 1) \div 2 = k
           /\ (2 * k) % 2 # 1 /\ (2 * k) \div 2 = k
    BY <1>1
  <2>4. \A n \in 1..(2 * Len(lines)) :
           Header(name, lines, folds)[n] \in [name : {name, "blank"}, parts : Seq(Part)]
    <3>1. ASSUME NEW n \in 1..(2 * Len(lines)), n % 2 = 1
          PROVE  Header(name, lines, folds)[n] \in [name : {name, "blank"}, parts : Seq(Part)]
      <4>1. PICK k \in 1..Len(lines) : k = (n + 1) \div 2
        BY <2>2, <3>1
      <4>2. Header(name, lines, folds)[n] = Line(name, <<Head(lines[k])>>)
        BY <2>1, <3>1, <4>1
      <4> QED BY <1>1, <4>2 DEF Line
    <3>2. ASSUME NEW n \in 1..(2 * Len(lines)), n % 2 # 1
          PROVE  Header(name, lines, folds)[n] \in [name : {name, "blank"}, parts : Seq(Part)]
      <4>1. PICK k \in 1..Len(lines) : k = n \div 2
        BY <2>2, <3>2
      <4>2. Header(name, lines, folds)[n] = Fold(Tail(lines[k]))
        BY <2>1, <3>2, <4>1
      <4>3. Tail(lines[k]) \in Seq(Part)
        BY <1>1
      <4>4. Fold(Tail(lines[k])) \in [name : {name, "blank"}, parts : Seq(Part)]
        BY <4>3, IsLine
      <4> QED BY <4>2, <4>4, Zenon
    <3> QED BY <3>1, <3>2
  <2>5. /\ Header(name, lines, folds) \in Seq([name : {name, "blank"}, parts : Seq(Part)])
        /\ Len(Header(name, lines, folds)) = 2 * Len(lines)
    <3>1. PICK h : h = Header(name, lines, folds)
      OBVIOUS
    <3>2. PICK m \in Nat : m = 2 * Len(lines)
      BY <1>1
    <3>3. DOMAIN h = 1..m /\ h = [n \in 1..m |-> h[n]]
      BY <2>1, <3>1, <3>2
    <3>4. PICK K : K = [name : {name, "blank"}, parts : Seq(Part)]
      OBVIOUS
    <3>5. h \in [1..m -> K]
      BY <2>4, <3>1, <3>2, <3>3, <3>4, Zenon
    <3>6. h \in Seq(K) /\ Len(h) = m
      BY <3>2, <3>5
    <3> QED BY <3>1, <3>2, <3>4, <3>6
  <2>6. \A k \in 1..Len(lines) :
           /\ Header(name, lines, folds)[2 * k - 1] = Line(name, <<Head(lines[k])>>)
           /\ Header(name, lines, folds)[2 * k] = Fold(Tail(lines[k]))
    BY <2>1, <2>3
  <2> QED BY <1>3, <2>5, <2>6
<1> QED BY <1>2, <1>3

(* f reads lines m + 1 to m + c of block b.                                *)
ReadsOn(f, b, m, c, name) ==
    \A n \in 1..c : f[m + n] = ReadLine(f[m + n - 1], b[m + n], name)

OthersOn(b, m, c, name) == \A n \in 1..c : b[m + n].name # name

Between(read, lines) == read = [out |-> lines, inTarget |-> FALSE]

(* Lines of other headers leave what has been read.                        *)
LEMMA OthersAreSkipped ==
    ASSUME NEW T, NEW o \in Seq(T), NEW f, NEW b, NEW m \in Nat, NEW c \in Nat,
           NEW name, Between(f[m], o), ReadsOn(f, b, m, c, name),
           OthersOn(b, m, c, name)
    PROVE  Between(f[m + c], o)
<1> DEFINE S == {n \in Nat : n <= c => f[m + n] = [out |-> o, inTarget |-> FALSE]}
<1>1. 0 \in S
  <2>1. m + 0 = m
    OBVIOUS
  <2> QED BY <2>1 DEF Between
<1>2. ASSUME NEW n \in Nat, n \in S PROVE n + 1 \in S
  <2> SUFFICES ASSUME n + 1 <= c
               PROVE  f[m + (n + 1)] = [out |-> o, inTarget |-> FALSE]
    OBVIOUS
  <2>1. n + 1 \in 1..c /\ n <= c /\ m + (n + 1) - 1 = m + n
    OBVIOUS
  <2>2. f[m + n] = [out |-> o, inTarget |-> FALSE]
    BY <1>2, <2>1
  <2>3. PICK line : line = b[m + (n + 1)]
    OBVIOUS
  <2>4. line.name # name
    BY <2>1, <2>3 DEF OthersOn
  <2>5. f[m + (n + 1)] = ReadLine(f[m + n], line, name)
    BY <2>1, <2>3 DEF ReadsOn
  <2>6. ReadLine([out |-> o, inTarget |-> FALSE], line, name)
           = [out |-> o, inTarget |-> FALSE]
    BY <2>4 DEF ReadLine
  <2> QED BY <2>2, <2>5, <2>6
<1> HIDE DEF S
<1>3. c \in S
  BY <1>1, <1>2, NatInSet
<1>4. c <= c
  OBVIOUS
<1> QED BY <1>3, <1>4 DEF S, Between

(* The first lines of a header, and one more.                              *)
LEMMA PrefixGrows ==
    ASSUME NEW T, NEW lines \in Seq(T), NEW k \in Nat, k + 1 <= Len(lines)
    PROVE  /\ SubSeq(lines, 1, k) \in Seq(T) /\ lines[k + 1] \in T
           /\ Append(SubSeq(lines, 1, k), lines[k + 1]) = SubSeq(lines, 1, k + 1)
<1>1. Len(lines) \in Nat /\ k + 1 \in 1..Len(lines)
  OBVIOUS
<1>2. PICK s : s = SubSeq(lines, 1, k)
  OBVIOUS
<1>3. /\ s \in Seq(T) /\ Len(s) = k /\ lines[k + 1] \in T
      /\ \A n \in 1..k : s[n] = lines[n]
  BY <1>1, <1>2
<1>4. PICK longer, prefix : /\ longer = Append(s, lines[k + 1])
                            /\ prefix = SubSeq(lines, 1, k + 1)
  OBVIOUS
<1>5. /\ longer \in Seq(T) /\ Len(longer) = k + 1
      /\ longer[k + 1] = lines[k + 1] /\ \A n \in 1..k : longer[n] = lines[n]
  BY <1>3, <1>4
<1>6. /\ prefix \in Seq(T) /\ Len(prefix) = k + 1
      /\ \A n \in 1..(k + 1) : prefix[n] = lines[n]
  BY <1>1, <1>4
<1>7. longer = prefix
  <2>1. \A n \in 1..(k + 1) : n \in 1..k \/ n = k + 1
    OBVIOUS
  <2> QED BY <1>5, <1>6, <2>1, SeqEqual
<1> QED BY <1>2, <1>3, <1>4, <1>7

(* Of the header, lines have been read, and perhaps one is being read.     *)
HasRead(read, lines) == \E t \in BOOLEAN : read = [out |-> lines, inTarget |-> t]

(* A header is read line by line, whether it is folded or not.             *)
LEMMA HeaderIsRead ==
    ASSUME NEW name, name # "blank", NEW lines \in HeaderLines, NEW folds \in BOOLEAN,
           NEW f, NEW b, NEW m \in Nat, f[m] = Unread,
           ReadsOn(f, b, m, Len(Header(name, lines, folds)), name),
           \A n \in 1..Len(Header(name, lines, folds)) :
              b[m + n] = Header(name, lines, folds)[n]
    PROVE  HasRead(f[m + Len(Header(name, lines, folds))], lines)
<1>1. PICK T : T = Seq(Part) \ {<<>>}
  OBVIOUS
<1>2. lines \in Seq(T) /\ Len(lines) \in Nat
  BY <1>1 DEF HeaderLines
<1>3. PICK h : h = Header(name, lines, folds)
  OBVIOUS
<1>4. ReadsOn(f, b, m, Len(h), name) /\ \A n \in 1..Len(h) : b[m + n] = h[n]
  BY <1>3
<1> DEFINE At(k) == IF folds THEN 2 * k ELSE k
           S == {k \in Nat : k <= Len(lines) =>
                    HasRead(f[m + At(k)], SubSeq(lines, 1, k))}
<1>5. 0 \in S
  <2>1. SubSeq(lines, 1, 0) = <<>> /\ m + At(0) = m
    BY <1>2
  <2>2. f[m + At(0)] = Unread
    BY <2>1
  <2>3. HasRead(f[m + At(0)], SubSeq(lines, 1, 0))
    BY <2>1, <2>2 DEF Unread, HasRead
  <2> QED BY <2>3
<1>6. ASSUME NEW k \in Nat, k \in S PROVE k + 1 \in S
  <2> SUFFICES ASSUME k + 1 <= Len(lines)
               PROVE  HasRead(f[m + At(k + 1)], SubSeq(lines, 1, k + 1))
    OBVIOUS
  <2>1. PICK o : o = SubSeq(lines, 1, k)
    OBVIOUS
  <2>2. /\ k + 1 \in 1..Len(lines) /\ o \in Seq(T)
        /\ lines[k + 1] \in T /\ Append(o, lines[k + 1]) = SubSeq(lines, 1, k + 1)
    BY <1>2, <2>1, PrefixGrows
  <2>3. PICK t \in BOOLEAN : f[m + At(k)] = [out |-> o, inTarget |-> t]
    <3>1. k <= Len(lines)
      BY <1>2
    <3>2. HasRead(f[m + At(k)], o)
      BY <1>6, <2>1, <3>1
    <3> QED BY <3>2 DEF HasRead
  <2> HIDE DEF S
  <2>4. CASE ~folds
    <3>1. Len(h) = Len(lines) /\ h[k + 1] = Line(name, lines[k + 1])
      BY <1>3, <2>2, <2>4, HeaderIs
    <3>2. /\ k + 1 \in 1..Len(h) /\ m + (k + 1) - 1 = m + At(k)
          /\ m + (k + 1) = m + At(k + 1)
      BY <1>2, <2>2, <2>4, <3>1
    <3>3. f[m + At(k + 1)] = ReadLine([out |-> o, inTarget |-> t],
                                      Line(name, lines[k + 1]), name)
      BY <1>4, <2>3, <3>1, <3>2 DEF ReadsOn
    <3> QED BY <2>2, <3>3 DEF ReadLine, Line, HasRead
  <2>5. CASE folds
    <3>1. PICK first, rest : first = <<Head(lines[k + 1])>> /\ rest = Tail(lines[k + 1])
      OBVIOUS
    <3>2. first \in T /\ first \o rest = lines[k + 1]
      BY <1>1, <2>2, <3>1
    <3>3. /\ Len(h) = 2 * Len(lines)
          /\ h[2 * (k + 1) - 1] = Line(name, first) /\ h[2 * (k + 1)] = Fold(rest)
      BY <1>3, <2>2, <2>5, <3>1, HeaderIs
    <3>4. PICK n \in 1..Len(h) : n = 2 * (k + 1) - 1
      BY <1>2, <2>2, <3>3
    <3>5. /\ m + n - 1 = m + At(k) /\ m + (n + 1) - 1 = m + n
          /\ m + (n + 1) = m + At(k + 1)
          /\ n + 1 \in 1..Len(h) /\ n + 1 = 2 * (k + 1)
      BY <1>2, <2>2, <2>5, <3>3, <3>4
    <3>6. f[m + n] = ReadLine([out |-> o, inTarget |-> t], Line(name, first), name)
      <4>1. f[m + n] = ReadLine(f[m + n - 1], b[m + n], name) /\ b[m + n] = h[n]
        BY <1>4 DEF ReadsOn
      <4>2. f[m + n - 1] = [out |-> o, inTarget |-> t]
        BY <2>3, <3>5
      <4>3. h[n] = Line(name, first)
        BY <3>3, <3>4
      <4> QED BY <4>1, <4>2, <4>3
    <3>7. f[m + n] = [out |-> Append(o, first), inTarget |-> TRUE]
      BY <3>6 DEF ReadLine, Line
    <3>8. f[m + (n + 1)] = ReadLine(f[m + n], Fold(rest), name)
      <4>1. /\ f[m + (n + 1)] = ReadLine(f[m + (n + 1) - 1], b[m + (n + 1)], name)
            /\ b[m + (n + 1)] = h[n + 1]
        BY <1>4, <3>5 DEF ReadsOn
      <4>2. h[n + 1] = Fold(rest)
        BY <3>3, <3>5
      <4>3. m + (n + 1) - 1 = m + n
        BY <3>5
      <4> QED BY <4>1, <4>2, <4>3
    <3>9. ReadLine([out |-> Append(o, first), inTarget |-> TRUE], Fold(rest), name)
             = [out |-> Append(o, first \o rest), inTarget |-> TRUE]
      <4>1. first \o rest \in T /\ o \in Seq(T) /\ first \in T
        BY <2>2, <3>2
      <4>2. Continues(o, first, rest, name)
        BY <4>1, FoldContinues
      <4> QED BY <4>2 DEF Continues
    <3>10. f[m + (n + 1)] = [out |-> SubSeq(lines, 1, k + 1), inTarget |-> TRUE]
      BY <2>2, <3>2, <3>7, <3>8, <3>9
    <3>11. HasRead(f[m + (n + 1)], SubSeq(lines, 1, k + 1))
      BY <3>10 DEF HasRead
    <3> QED BY <3>5, <3>11
  <2> QED BY <2>4, <2>5
<1>7. At(Len(lines)) = Len(h)
  BY <1>3, HeaderIs
<1> HIDE DEF S, At
<1>8. Len(lines) \in S
  BY <1>2, <1>5, <1>6, NatInSet
<1>9. HasRead(f[m + Len(h)], SubSeq(lines, 1, Len(lines)))
  <2>1. Len(lines) <= Len(lines)
    BY <1>2
  <2> QED BY <1>7, <1>8, <2>1 DEF S
<1>10. SubSeq(lines, 1, Len(lines)) = lines
  BY <1>2, SubSeqFull
<1> QED BY <1>3, <1>9, <1>10

(* Where the lines of a block are that is put together from three.         *)
LEMMA Blocks ==
    ASSUME NEW L, NEW A \in Seq(L), NEW B \in Seq(L), NEW C \in Seq(L),
           NEW block, block = A \o B \o C
    PROVE  /\ block \in Seq(L)
           /\ Len(A) \in Nat /\ Len(B) \in Nat /\ Len(C) \in Nat
           /\ Len(block) = Len(A) + Len(B) + Len(C)
           /\ \A n \in 1..Len(A) : block[n] = A[n]
           /\ \A n \in 1..Len(B) : block[Len(A) + n] = B[n]
           /\ \A n \in 1..Len(C) : block[Len(A) + Len(B) + n] = C[n]
<1>1. PICK front : front = A \o B
  OBVIOUS
<1>2. /\ front \in Seq(L) /\ Len(front) = Len(A) + Len(B)
      /\ Len(A) \in Nat /\ Len(B) \in Nat /\ Len(C) \in Nat
      /\ \A n \in 1..Len(A) : front[n] = A[n]
      /\ \A n \in 1..Len(B) : front[Len(A) + n] = B[n]
  BY <1>1
<1>3. /\ block \in Seq(L) /\ Len(block) = Len(front) + Len(C)
      /\ \A n \in 1..Len(front) : block[n] = front[n]
      /\ \A n \in 1..Len(C) : block[Len(front) + n] = C[n]
  BY <1>1, <1>2
<1>4. /\ \A n \in 1..Len(A) : n \in 1..Len(front)
      /\ \A n \in 1..Len(B) : Len(A) + n \in 1..Len(front)
  BY <1>2
<1> QED BY <1>2, <1>3, <1>4

(* Lines none of which begins the header, and the first does not fold.     *)
Others(s, name) == \A n \in 1..Len(s) : s[n].name # name
Starts(s) == s # <<>> => s[1].name # "blank"

ReadAs(block, name, lines) == rawHeaderValues(block, name) = lines

(* A header is read from wherever it stands between lines of others.       *)
LEMMA BlockIsRead ==
    ASSUME NEW name, name # "blank", NEW lines \in HeaderLines, NEW folds \in BOOLEAN,
           NEW L, NEW A \in Seq(L), NEW h \in Seq(L), NEW C \in Seq(L), NEW block,
           h = Header(name, lines, folds), block = A \o h \o C,
           Others(A, name), Others(C, name), Starts(C)
    PROVE  ReadAs(block, name, lines)
<1> SUFFICES rawHeaderValues(block, name) = lines
  BY DEF ReadAs
<1>1. PICK a, c, m : a = Len(A) /\ c = Len(C) /\ m = Len(A) + Len(h)
  OBVIOUS
<1>2. /\ block \in Seq(L) /\ a \in Nat /\ c \in Nat /\ Len(h) \in Nat
      /\ m = a + Len(h) /\ m \in Nat /\ Len(block) = m + c /\ Len(block) \in Nat
      /\ \A n \in 1..a : block[n] = A[n]
      /\ \A n \in 1..Len(h) : block[a + n] = h[n]
      /\ \A n \in 1..c : block[m + n] = C[n]
  BY <1>1, Blocks
<1>3. PICK f : /\ f[0] = Unread
               /\ \A n \in 1..Len(block) : f[n] = ReadLine(f[n - 1], block[n], name)
               /\ rawHeaderValues(block, name) = f[Len(block)].out
  <2>1. Len(block) \in Nat
    BY <1>2
  <2> QED BY <2>1, Reading, Zenon
<1>4. \A k, d \in Nat : k + d <= Len(block) => ReadsOn(f, block, k, d, name)
  <2> SUFFICES ASSUME NEW k \in Nat, NEW d \in Nat, k + d <= Len(block), NEW n \in 1..d
               PROVE  f[k + n] = ReadLine(f[k + n - 1], block[k + n], name)
    BY DEF ReadsOn
  <2>1. PICK n0 : n0 = k + n
    OBVIOUS
  <2>2. n0 \in 1..Len(block)
    BY <1>2, <2>1
  <2>3. f[n0] = ReadLine(f[n0 - 1], block[n0], name)
    BY <1>3, <2>2
  <2> QED BY <2>1, <2>3
<1>5. f[a] = Unread
  <2>1. ReadsOn(f, block, 0, a, name) /\ OthersOn(block, 0, a, name)
    <3>1. 0 + a <= Len(block) /\ 0 \in Nat
      BY <1>2
    <3>2. \A n \in 1..a : 0 + n = n
      BY <1>2
    <3> QED BY <1>1, <1>2, <1>4, <3>1, <3>2 DEF Others, OthersOn
  <2>2. Between(f[0], <<>>) /\ <<>> \in Seq(L)
    BY <1>3, EmptySeq DEF Unread, Between
  <2>3. Between(f[0 + a], <<>>)
    BY <1>2, <2>1, <2>2, OthersAreSkipped
  <2>4. 0 + a = a
    BY <1>2
  <2> QED BY <2>3, <2>4 DEF Unread, Between
<1>6. HasRead(f[m], lines)
  <2>1. /\ ReadsOn(f, block, a, Len(h), name)
        /\ \A n \in 1..Len(h) : block[a + n] = h[n]
    <3>1. a + Len(h) <= Len(block)
      BY <1>2
    <3> QED BY <1>2, <1>4, <3>1
  <2>2. HasRead(f[a + Len(h)], lines)
    BY <1>1, <1>2, <1>5, <2>1, HeaderIsRead
  <2> QED BY <1>2, <2>2
<1>7. PICK t \in BOOLEAN : f[m] = [out |-> lines, inTarget |-> t]
  BY <1>6 DEF HasRead
<1>8. CASE C = <<>>
  <2>1. Len(block) = m
    BY <1>1, <1>2, <1>8
  <2> QED BY <1>3, <1>7, <2>1
<1>9. CASE C # <<>>
  <2>1. c # 0
    BY <1>1, <1>9
  <2>2. PICK d \in Nat : d = c - 1
    BY <1>2, <2>1
  <2>3. /\ m + 1 \in 1..Len(block) /\ m + 1 - 1 = m /\ 1 \in 1..c
        /\ m + 1 \in Nat /\ (m + 1) + d = Len(block)
    BY <1>2, <2>1, <2>2
  <2>4. block[m + 1] = C[1] /\ C[1].name # name /\ C[1].name # "blank"
    BY <1>1, <1>2, <1>9, <2>3 DEF Others, Starts
  <2>5. f[m + 1] = ReadLine([out |-> lines, inTarget |-> t], C[1], name)
    <3>1. PICK k \in 1..Len(block) : k = m + 1
      BY <2>3
    <3>2. f[k] = ReadLine(f[k - 1], block[k], name)
      BY <1>3
    <3>3. k - 1 = m
      BY <1>2, <3>1
    <3>4. f[k] = ReadLine(f[m], C[1], name)
      BY <2>4, <3>1, <3>2, <3>3
    <3> QED BY <1>7, <3>1, <3>4
  <2>6. Between(f[m + 1], lines)
    BY <2>4, <2>5 DEF ReadLine, Between
  <2>7. ReadsOn(f, block, m + 1, d, name)
    <3>1. (m + 1) + d <= Len(block)
      BY <1>2, <2>3
    <3> QED BY <1>4, <2>3, <3>1
  <2>8. OthersOn(block, m + 1, d, name)
    <3> SUFFICES ASSUME NEW n \in 1..d PROVE block[(m + 1) + n].name # name
      BY DEF OthersOn
    <3>1. n + 1 \in 1..c /\ (m + 1) + n = m + (n + 1)
      BY <1>2, <2>2
    <3>2. block[m + (n + 1)] = C[n + 1] /\ C[n + 1].name # name
      BY <1>1, <1>2, <3>1 DEF Others
    <3> QED BY <3>1, <3>2
  <2>9. lines \in Seq(Seq(Part))
    BY DEF HeaderLines
  <2>10. Between(f[(m + 1) + d], lines)
    BY <2>3, <2>6, <2>7, <2>8, <2>9, OthersAreSkipped
  <2> QED BY <1>3, <2>3, <2>10 DEF Between
<1> QED BY <1>8, <1>9

(***************************************************************************)
(* What the service reads of the block the last hop sends.                 *)
(***************************************************************************)
Names == {"xff", "other", "edge"}
BlockLine == [name : Names \cup {"blank"}, parts : Seq(Part)]

(* The lines of a header are lines of the block, and none of another one.  *)
LEMMA InBlock ==
    ASSUME NEW name \in Names, NEW lines \in HeaderLines, NEW folds \in BOOLEAN,
           NEW h, h = Header(name, lines, folds)
    PROVE  /\ h \in Seq(BlockLine) /\ Starts(h)
           /\ \A n \in 1..Len(h) : h[n].name \in {name, "blank"}
<1>1. PICK K : K = [name : {name, "blank"}, parts : Seq(Part)]
  OBVIOUS
<1>2. h \in Seq(K)
  BY <1>1, HeaderIs
<1>3. \A x \in K : x \in BlockLine /\ x.name \in {name, "blank"}
  BY <1>1 DEF BlockLine
<1>4. h \in Seq(BlockLine) /\ \A n \in 1..Len(h) : h[n].name \in {name, "blank"}
  <2>1. Len(h) \in Nat /\ h \in [1..Len(h) -> K]
    BY <1>2
  <2>2. h \in [1..Len(h) -> BlockLine]
    BY <1>3, <2>1
  <2>3. h \in Seq(BlockLine)
    BY <2>1, <2>2
  <2> QED BY <1>3, <2>1, <2>3
<1>5. Starts(h)
  <2> SUFFICES ASSUME h # <<>> PROVE h[1].name # "blank"
    BY DEF Starts
  <2>1. Len(lines) \in Nat /\ Len(h) # 0
    BY <1>2 DEF HeaderLines
  <2>2. /\ folds => /\ Len(h) = 2 * Len(lines)
                    /\ \A k \in 1..Len(lines) :
                          h[2 * k - 1] = Line(name, <<Head(lines[k])>>)
        /\ ~folds => /\ Len(h) = Len(lines)
                     /\ \A k \in 1..Len(lines) : h[k] = Line(name, lines[k])
    BY HeaderIs, Zenon
  <2>3. \E parts : h[1] = Line(name, parts)
    <3>1. CASE folds
      <4>1. 2 * 1 - 1 = 1 /\ 1 \in 1..Len(lines)
        <5>1. Len(h) = 2 * Len(lines)
          BY <2>2, <3>1
        <5> QED BY <2>1, <5>1
      <4>2. h[2 * 1 - 1] = Line(name, <<Head(lines[1])>>)
        BY <2>2, <3>1, <4>1
      <4> QED BY <4>1, <4>2
    <3>2. CASE ~folds
      <4>1. 1 \in 1..Len(lines)
        BY <2>1, <2>2, <3>2
      <4> QED BY <2>2, <3>2, <4>1
    <3> QED BY <3>1, <3>2
  <2>4. h[1].name = name
    BY <2>3 DEF Line
  <2> QED BY <2>4 DEF Names
<1> QED BY <1>4, <1>5

(* The block holds the two headers' lines, whether they are folded or not. *)
LEMMA HeadersAreRead ==
    ASSUME xff \in HeaderLines, edgeLines \in HeaderLines, NEW folds \in BOOLEAN
    PROVE  /\ rawHeaderValues(RawHeaders(folds), "xff") = xff
           /\ rawHeaderValues(RawHeaders(folds), "edge") = edgeLines
<1>1. PICK A, B, C : /\ A = Header("xff", xff, folds)
                     /\ B = Header("other", <<<<Junk, Junk>>>>, folds)
                     /\ C = Header("edge", edgeLines, folds)
  OBVIOUS
<1>2. <<<<Junk, Junk>>>> \in HeaderLines
  BY DEF HeaderLines, Part
<1>3. /\ A \in Seq(BlockLine) /\ B \in Seq(BlockLine) /\ C \in Seq(BlockLine)
      /\ Starts(A) /\ Starts(B) /\ Starts(C)
      /\ \A n \in 1..Len(A) : A[n].name \in {"xff", "blank"}
      /\ \A n \in 1..Len(B) : B[n].name \in {"other", "blank"}
      /\ \A n \in 1..Len(C) : C[n].name \in {"edge", "blank"}
  BY <1>1, <1>2, InBlock DEF Names
<1>4. RawHeaders(folds) = A \o B \o C
  BY <1>1 DEF RawHeaders
<1>5. rawHeaderValues(RawHeaders(folds), "edge") = edgeLines
  <2>1. PICK front : front = A \o B
    OBVIOUS
  <2>2. front \in Seq(BlockLine) /\ Others(front, "edge")
    <3>1. /\ front \in Seq(BlockLine) /\ Len(front) = Len(A) + Len(B)
          /\ Len(A) \in Nat /\ Len(B) \in Nat
          /\ \A n \in 1..Len(front) : IF n <= Len(A) THEN front[n] = A[n]
                                                     ELSE front[n] = B[n - Len(A)]
      BY <1>3, <2>1
    <3>2. \A n \in 1..Len(front) : front[n].name \in {"xff", "other", "blank"}
      <4> SUFFICES ASSUME NEW n \in 1..Len(front)
                   PROVE  front[n].name \in {"xff", "other", "blank"}
        OBVIOUS
      <4>1. CASE n <= Len(A)
        BY <1>3, <3>1, <4>1
      <4>2. CASE ~(n <= Len(A))
        <5>1. n - Len(A) \in 1..Len(B)
          BY <3>1, <4>2
        <5> QED BY <1>3, <3>1, <4>2, <5>1
      <4> QED BY <4>1, <4>2
    <3> QED BY <3>1, <3>2 DEF Others
  <2>3. RawHeaders(folds) = front \o C \o <<>>
    BY <1>3, <1>4, <2>1, <2>2
  <2>4. <<>> \in Seq(BlockLine) /\ Others(<<>>, "edge") /\ Starts(<<>>)
    BY EmptySeq DEF Others, Starts
  <2>5. ReadAs(RawHeaders(folds), "edge", edgeLines)
    BY <1>1, <1>3, <2>2, <2>3, <2>4, BlockIsRead
  <2> QED BY <2>5 DEF ReadAs
<1>6. rawHeaderValues(RawHeaders(folds), "xff") = xff
  <2>1. PICK tail : tail = B \o C
    OBVIOUS
  <2>2. /\ tail \in Seq(BlockLine) /\ Len(tail) = Len(B) + Len(C)
        /\ Len(B) \in Nat /\ Len(C) \in Nat
        /\ \A n \in 1..Len(tail) : IF n <= Len(B) THEN tail[n] = B[n]
                                                  ELSE tail[n] = C[n - Len(B)]
    BY <1>3, <2>1
  <2>3. Others(tail, "xff")
    <3>1. \A n \in 1..Len(tail) : tail[n].name \in {"other", "edge", "blank"}
      BY <1>3, <2>2
    <3> QED BY <3>1 DEF Others
  <2>4. Starts(tail)
    <3>1. ASSUME tail # <<>> PROVE tail[1].name # "blank"
      <4>1. Len(tail) # 0 /\ 1 \in 1..Len(tail)
        BY <2>2, <3>1
      <4>2. CASE Len(B) = 0
        BY <1>3, <2>2, <4>1, <4>2 DEF Starts
      <4>3. CASE Len(B) # 0
        BY <1>3, <2>2, <4>1, <4>3 DEF Starts
      <4> QED BY <4>2, <4>3
    <3> QED BY <3>1 DEF Starts
  <2>5. RawHeaders(folds) = <<>> \o A \o tail
    BY <1>3, <1>4, <2>1
  <2>6. <<>> \in Seq(BlockLine) /\ Others(<<>>, "xff")
    BY EmptySeq DEF Others
  <2>7. ReadAs(RawHeaders(folds), "xff", xff)
    BY <1>1, <1>3, <2>2, <2>3, <2>4, <2>5, <2>6, BlockIsRead
  <2> QED BY <2>7 DEF ReadAs
<1> QED BY <1>5, <1>6

-----------------------------------------------------------------------------
(***************************************************************************)
(* The inductive invariant: RealIP's, and what the headers say of a route. *)
(***************************************************************************)

(* A request that is being answered has come from somewhere.               *)
RouteTypes ==
    /\ route \in Seq(Addrs)
    /\ xff \in HeaderLines /\ edgeLines \in HeaderLines
    /\ route = <<>> => pc = "idle"

(* What parses of the lines ends in the hops the next one has been called  *)
(* by, after whatever the visitor wrote.                                   *)
Vouched ==
    route # <<>> =>
        \E written \in Seq(Addrs) : ParsedLines(xff) = written \o Front(route)

(* Once an edge has been passed its header holds what called the last one, *)
(* or a proxy has dropped it.                                              *)
EdgeTold ==
    EdgeHops # {} => edgeLines \in {<<>>, <<<<route[Max(EdgeHops) - 1]>>>>}

(* RealIP was given what the request holds.                                *)
Delivered ==
    pc # "idle" => /\ peer = Last(route) /\ chain = ParsedLines(xff)
                   /\ header = OneAddress(edgeLines)

RouteInv == IInv /\ RouteTypes /\ Vouched /\ EdgeTold /\ Delivered

(* What comes before the last of a route, and the route with a hop more.   *)
LEMMA Routes ==
    ASSUME NEW r \in Seq(Addrs), r # <<>>, NEW p \in Addrs
    PROVE  /\ Last(r) \in Addrs /\ Len(r) \in Nat \ {0} /\ Last(r) = r[Len(r)]
           /\ Front(r) \in Seq(Addrs) /\ Len(Front(r)) = Len(r) - 1
           /\ \A k \in 1..(Len(r) - 1) : Front(r)[k] = r[k]
           /\ Append(Front(r), Last(r)) = r
           /\ Front(Append(r, p)) = r
<1>1. Front(r) = SubSeq(r, 1, Len(r) - 1) /\ Last(r) = r[Len(r)]
  BY DEF Front, Last
<1>2. Len(r) \in Nat \ {0}
  BY EmptySeq
<1>3. Append(Front(r), Last(r)) = r
  BY <1>1, <1>2
<1>4. Front(Append(r, p)) = r
  BY LastAppended
<1> QED BY <1>1, <1>2, <1>3, <1>4

(* What is to be read of a block is read: the address the provider's       *)
(* header gives, if it gives one.                                          *)
LEMMA BlockSays ==
    ASSUME RouteTypes, NEW folds \in BOOLEAN
    PROVE  /\ forwardedFor(RawHeaders(folds)) = ParsedLines(xff)
           /\ clientIP(RawHeaders(folds)) = OneAddress(edgeLines)
           /\ ParsedLines(xff) \in Seq(Addrs)
           /\ OneAddress(edgeLines) \in AddrOrNone
<1>1. /\ rawHeaderValues(RawHeaders(folds), "xff") = xff
      /\ rawHeaderValues(RawHeaders(folds), "edge") = edgeLines
  BY HeadersAreRead DEF RouteTypes
<1>2. xff \in Seq(Seq(Part))
  BY DEF RouteTypes, HeaderLines
<1>3. ParsedLines(xff) \in Seq(Addrs)
  BY <1>2, ParsedLinesIsSeq
<1>4. OneAddress(edgeLines) \in AddrOrNone
  BY DEF OneAddress, AddrOrNone
<1> QED BY <1>1, <1>3, <1>4 DEF forwardedFor, clientIP

(* A set of indices has a greatest member, which Max gives: had it none,   *)
(* each would have a greater one.                                          *)
LEMMA MaxIsGreatest ==
    ASSUME NEW n \in Nat, NEW S \in SUBSET (1..n), S # {}
    PROVE  Max(S) \in S /\ \A y \in S : y <= Max(S)
<1>1. \E x \in S : \A y \in S : x >= y
  <2> SUFFICES ASSUME \A x \in S : \E y \in S : ~(x >= y) PROVE FALSE
    OBVIOUS
  <2> DEFINE exceeded == {m \in Nat : \E x \in S : x > m}
  <2>1. 0 \in exceeded
    <3>1. PICK x \in S : x \in 1..n
      OBVIOUS
    <3> QED BY <3>1
  <2>2. ASSUME NEW m \in Nat, m \in exceeded PROVE m + 1 \in exceeded
    <3>1. PICK x \in S : x > m
      BY <2>2
    <3>2. PICK y \in S : ~(x >= y)
      OBVIOUS
    <3>3. y > m + 1
      BY <3>1, <3>2
    <3> QED BY <3>3
  <2> HIDE DEF exceeded
  <2>3. n \in exceeded
    BY <2>1, <2>2, NatInSet
  <2> QED BY <2>3 DEF exceeded
<1>2. Max(S) \in S /\ \A y \in S : Max(S) >= y
  BY <1>1, Zenon DEF Max
<1> QED BY <1>2

-----------------------------------------------------------------------------
(***************************************************************************)
(* The steps of a request.                                                 *)
(***************************************************************************)

(* A request leaves its visitor.                                           *)
LEMMA DepartInv == ASSUME RouteInv, Depart PROVE RouteInv'
<1>1. PICK v \in Visitors : route' = <<v>>
  BY DEF Depart
<1>2. v \in Addrs /\ xff' \in HeaderLines /\ edgeLines' \in HeaderLines
  BY RouteAssumption DEF Depart
<1>3. IInv' /\ pc = "idle" /\ pc' = "idle"
  BY StutterInv DEF RouteInv, RouteTypes, Depart, vars
<1>4. RouteTypes'
  BY <1>1, <1>2 DEF RouteTypes
<1>5. Vouched'
  <2>1. xff' \in Seq(Seq(Part))
    BY <1>2 DEF HeaderLines
  <2>2. ParsedLines(xff') \in Seq(Addrs)
    BY <2>1, ParsedLinesIsSeq
  <2>3. Len(route') = 1 /\ Front(route') = <<>>
    BY <1>1, <1>2 DEF Front
  <2>4. ParsedLines(xff') = ParsedLines(xff') \o Front(route')
    BY <2>2, <2>3
  <2> QED BY <2>2, <2>4 DEF Vouched
<1>6. EdgeTold'
  <2>1. Len(route') = 1
    BY <1>1
  <2>2. EdgeHops' = {}
    BY <2>1 DEF EdgeHops
  <2> QED BY <2>2 DEF EdgeTold
<1>7. Delivered'
  BY <1>3 DEF Delivered
<1> QED BY <1>3, <1>4, <1>5, <1>6, <1>7 DEF RouteInv

(* It passes a hop.                                                        *)
LEMMA HopInv ==
    ASSUME RouteInv, NEW p \in Hops, NEW ownLine \in BOOLEAN, NEW drops \in BOOLEAN,
           Hop(p, ownLine, drops)
    PROVE  RouteInv'
<1>1. PICK caller : caller = Last(route)
  OBVIOUS
<1>2. /\ route \in Seq(Addrs) /\ route # <<>> /\ p \in Addrs
      /\ xff \in HeaderLines /\ edgeLines \in HeaderLines
  BY RouteAssumption DEF RouteInv, RouteTypes, Hop
<1>3. /\ pc = "idle" /\ route' = Append(route, p)
      /\ xff' = IF ownLine \/ xff = <<>>
                THEN Append(xff, <<caller>>)
                ELSE Front(xff) \o <<Append(Last(xff), caller)>>
      /\ edgeLines' = IF p \in EdgeRanges THEN <<<<caller>>>>
                      ELSE IF drops THEN <<>> ELSE edgeLines
      /\ UNCHANGED vars
  BY <1>1 DEF Hop
<1>4. /\ caller \in Addrs /\ Len(route) \in Nat \ {0} /\ caller = route[Len(route)]
      /\ Append(Front(route), caller) = route /\ Front(route') = route
      /\ Front(route) \in Seq(Addrs)
  BY <1>1, <1>2, <1>3, Routes
<1>5. xff' \in HeaderLines /\ ParsedLines(xff') = Append(ParsedLines(xff), caller)
  BY <1>2, <1>3, <1>4, Appended
<1>6. IInv' /\ pc' = "idle"
  BY <1>3, StutterInv DEF RouteInv, vars
<1>7. RouteTypes'
  <2>1. edgeLines' \in HeaderLines
    <3>1. <<>> \in HeaderLines
      BY EmptySeq DEF HeaderLines
    <3>2. <<<<caller>>>> \in HeaderLines
      <4>1. caller \in Part
        BY <1>4 DEF Part
      <4> QED BY <4>1 DEF HeaderLines
    <3> QED BY <1>2, <1>3, <3>1, <3>2
  <2>2. route' \in Seq(Addrs)
    BY <1>2, <1>3
  <2> QED BY <1>5, <1>6, <2>1, <2>2 DEF RouteTypes
<1>8. Vouched'
  <2>1. PICK written \in Seq(Addrs) : ParsedLines(xff) = written \o Front(route)
    BY <1>2 DEF RouteInv, Vouched
  <2>2. PICK front, read : front = Front(route) /\ read = ParsedLines(xff)
    OBVIOUS
  <2>3. /\ front \in Seq(Addrs) /\ route = Append(front, caller)
        /\ read = written \o front /\ caller \in Addrs
    BY <1>4, <2>1, <2>2
  <2>4. Append(read, caller) = written \o route
    <3>1. Append(written \o front, caller) = written \o Append(front, caller)
      <4>1. front \in Seq(Addrs) /\ caller \in Addrs
        BY <2>3
      <4> QED BY <4>1
    <3> QED BY <2>3, <3>1
  <2>5. ParsedLines(xff') = written \o Front(route')
    BY <1>4, <1>5, <2>2, <2>4
  <2> QED BY <2>5 DEF Vouched
<1>9. EdgeTold'
  <2>1. PICK n : n = Len(route)
    OBVIOUS
  <2>2. /\ n \in Nat \ {0} /\ Len(route') = n + 1
        /\ route'[n + 1] = p /\ \A k \in 1..n : route'[k] = route[k]
    BY <1>2, <1>3, <1>4, <2>1
  <2>3. CASE p \in EdgeRanges
    <3>1. n + 1 \in EdgeHops' /\ EdgeHops' \in SUBSET (1..(n + 1))
      BY <2>2, <2>3 DEF EdgeHops, IsEdge
    <3>2. /\ Max(EdgeHops') \in 1..(n + 1)
          /\ \A y \in EdgeHops' : y <= Max(EdgeHops')
      <4>1. PICK S, m : S = EdgeHops' /\ m = n + 1
        OBVIOUS
      <4>2. S \in SUBSET (1..m) /\ S # {} /\ m \in Nat
        BY <2>2, <3>1, <4>1
      <4>3. Max(S) \in S /\ \A y \in S : y <= Max(S)
        BY <4>2, MaxIsGreatest
      <4> QED BY <4>1, <4>2, <4>3
    <3>3. Max(EdgeHops') = n + 1
      <4>1. n + 1 <= Max(EdgeHops')
        BY <3>1, <3>2
      <4> QED BY <2>2, <3>2, <4>1
    <3>4. route'[Max(EdgeHops') - 1] = caller
      BY <1>4, <2>1, <2>2, <3>3
    <3>5. edgeLines' = <<<<caller>>>>
      BY <1>3, <2>3
    <3> QED BY <3>4, <3>5 DEF EdgeTold
  <2>4. CASE p \notin EdgeRanges
    <3>1. EdgeHops' = EdgeHops
      <4>1. \A k : k \in 2..(n + 1) /\ IsEdge(route'[k])
                      <=> k \in 2..n /\ IsEdge(route[k])
        BY <2>2, <2>4 DEF IsEdge
      <4>2. EdgeHops' = {k \in 2..(n + 1) : IsEdge(route'[k])}
        BY <2>2 DEF EdgeHops, IsEdge
      <4> QED BY <2>1, <4>1, <4>2 DEF EdgeHops
    <3>2. ASSUME EdgeHops # {}
          PROVE  edgeLines' \in {<<>>, <<<<route'[Max(EdgeHops) - 1]>>>>}
      <4>1. Max(EdgeHops) \in 2..n
        <5>1. PICK S : S = EdgeHops
          OBVIOUS
        <5>2. S \in SUBSET (1..n) /\ S \in SUBSET (2..n) /\ S # {} /\ n \in Nat
          BY <2>1, <2>2, <3>2, <5>1 DEF EdgeHops
        <5>3. Max(S) \in S
          BY <5>2, MaxIsGreatest
        <5> QED BY <5>1, <5>2, <5>3
      <4>2. route'[Max(EdgeHops) - 1] = route[Max(EdgeHops) - 1]
        BY <2>2, <4>1
      <4>3. edgeLines \in {<<>>, <<<<route[Max(EdgeHops) - 1]>>>>}
        BY <3>2 DEF RouteInv, EdgeTold
      <4> QED BY <1>3, <2>4, <4>2, <4>3
    <3> QED BY <3>1, <3>2 DEF EdgeTold
  <2> QED BY <2>3, <2>4
<1>10. Delivered'
  BY <1>6 DEF Delivered
<1> QED BY <1>6, <1>7, <1>8, <1>9, <1>10 DEF RouteInv

(* The service receives it.                                                *)
LEMMA DeliverInv == ASSUME RouteInv, Deliver PROVE RouteInv'
<1>1. PICK folds \in BOOLEAN :
         Receive(Last(route), forwardedFor(RawHeaders(folds)), clientIP(RawHeaders(folds)))
  BY DEF Deliver
<1>2. route \in Seq(Addrs) /\ route # <<>> /\ UNCHANGED <<route, xff, edgeLines>>
  BY DEF RouteInv, RouteTypes, Deliver, messageVars
<1>3. /\ forwardedFor(RawHeaders(folds)) = ParsedLines(xff)
      /\ clientIP(RawHeaders(folds)) = OneAddress(edgeLines)
      /\ ParsedLines(xff) \in Seq(Addrs) /\ OneAddress(edgeLines) \in AddrOrNone
  BY BlockSays DEF RouteInv
<1>4. Last(route) \in Addrs
  BY <1>2, Routes
<1>5. Receive(Last(route), ParsedLines(xff), OneAddress(edgeLines))
  BY <1>1, <1>3
<1>6. IInv'
  BY <1>3, <1>4, <1>5, ReceiveInv DEF RouteInv
<1>7. Delivered'
  BY <1>2, <1>5 DEF Receive, Delivered
<1>8. RouteTypes' /\ Vouched' /\ EdgeTold'
  BY <1>2 DEF RouteInv, RouteTypes, Vouched, EdgeTold, EdgeHops
<1> QED BY <1>6, <1>7, <1>8 DEF RouteInv

(* What the resolver does leaves the request as it is.                     *)
LEMMA SameRequest ==
    ASSUME RouteInv, IInv', UNCHANGED messageVars,
           UNCHANGED requestVars, pc = "idle" => pc' = "idle",
           pc' = "idle" => pc = "idle"
    PROVE  RouteInv'
<1>1. RouteTypes' /\ Vouched' /\ EdgeTold'
  BY DEF RouteInv, RouteTypes, Vouched, EdgeTold, EdgeHops, messageVars
<1>2. Delivered'
  BY DEF RouteInv, Delivered, messageVars, requestVars
<1> QED BY <1>1, <1>2 DEF RouteInv

(* Every step preserves the invariant.                                     *)
LEMMA RouteStep == RouteInv /\ [RouteNext]_routeVars => RouteInv'
<1> SUFFICES ASSUME RouteInv, [RouteNext]_routeVars PROVE RouteInv'
  OBVIOUS
<1>1. CASE Depart
  BY <1>1, DepartInv
<1>2. CASE \E p \in Hops, ownLine, drops \in BOOLEAN : Hop(p, ownLine, drops)
  BY <1>2, HopInv
<1>3. CASE Deliver
  BY <1>3, DeliverInv
<1>4. CASE Resolve /\ UNCHANGED messageVars
  <2>1. IInv'
    BY <1>4, ResolveInv DEF RouteInv
  <2>2. UNCHANGED requestVars /\ pc # "idle" /\ pc' # "idle"
    BY <1>4 DEF Resolve, PeerUntrusted, PeerTrusted, EntryUntrusted, EntryTrusted,
                ChainExhausted, ResolveAt, requestVars
  <2> QED BY <1>4, <2>1, <2>2, SameRequest
<1>5. CASE Reset
  <2>1. IInv' /\ pc' = "idle"
    BY <1>5, HandledInv DEF RouteInv, Reset, Handled
  <2>2. route' = <<>> /\ xff' = <<>> /\ edgeLines' = <<>>
    BY <1>5 DEF Reset
  <2>3. RouteTypes' /\ Vouched'
    BY <2>1, <2>2, EmptySeq DEF RouteTypes, Vouched, HeaderLines
  <2>4. EdgeHops' = {}
    BY <2>2 DEF EdgeHops
  <2>5. EdgeTold' /\ Delivered'
    BY <2>1, <2>4 DEF EdgeTold, Delivered
  <2> QED BY <2>1, <2>3, <2>5 DEF RouteInv
<1>6. CASE UNCHANGED routeVars
  <2>1. UNCHANGED vars /\ UNCHANGED messageVars /\ UNCHANGED requestVars /\ pc' = pc
    BY <1>6 DEF routeVars, vars
  <2>2. IInv'
    BY <2>1, StutterInv DEF RouteInv
  <2> QED BY <2>1, <2>2, SameRequest
<1> QED BY <1>1, <1>2, <1>3, <1>4, <1>5, <1>6 DEF RouteNext

(* Requests keep to the invariant on their way.                            *)
LEMMA RouteInvariance == RouteSpec => []RouteInv
<1>1. RouteInit => RouteInv
  <2> SUFFICES ASSUME RouteInit PROVE RouteInv
    OBVIOUS
  <2>1. IInv /\ pc = "idle"
    BY InitInv DEF RouteInit, Init
  <2>2. RouteTypes /\ Vouched
    BY <2>1, EmptySeq DEF RouteInit, RouteTypes, Vouched, HeaderLines
  <2>3. EdgeHops = {}
    BY DEF RouteInit, EdgeHops
  <2> QED BY <2>1, <2>2, <2>3 DEF RouteInv, EdgeTold, Delivered
<1> QED BY <1>1, RouteStep, PTL DEF RouteSpec

-----------------------------------------------------------------------------
(***************************************************************************)
(* What holds of every request.                                            *)
(***************************************************************************)

(* The end of a sequence put together from two.                            *)
LEMMA EndOfConcat ==
    ASSUME NEW T, NEW s \in Seq(T), NEW t \in Seq(T), NEW both, both = s \o t
    PROVE  /\ Len(s) \in Nat /\ Len(t) \in Nat /\ Len(both) = Len(s) + Len(t)
           /\ \A k \in 1..Len(t) : both[Len(s) + k] = t[k]
           /\ SubSeq(both, Len(both) - Len(t) + 1, Len(both)) = t
<1>1. /\ both \in Seq(T) /\ Len(s) \in Nat /\ Len(t) \in Nat
      /\ Len(both) = Len(s) + Len(t)
      /\ \A k \in 1..Len(t) : both[Len(s) + k] = t[k]
  OBVIOUS
<1>2. PICK a, e : a = Len(s) + 1 /\ e = Len(both)
  OBVIOUS
<1>3. PICK end : end = SubSeq(both, a, e)
  OBVIOUS
<1>4. /\ end \in Seq(T) /\ Len(end) = Len(t)
      /\ \A k \in 1..Len(t) : end[k] = both[a + k - 1]
  BY <1>1, <1>2, <1>3
<1>5. end = t
  <2>1. \A k \in 1..Len(t) : a + k - 1 = Len(s) + k
    BY <1>1, <1>2
  <2>2. \A k \in 1..Len(t) : end[k] = t[k]
    BY <1>1, <1>4, <2>1
  <2> QED BY <1>4, <2>2, SeqEqual
<1>6. a = Len(both) - Len(t) + 1
  BY <1>1, <1>2
<1> QED BY <1>1, <1>2, <1>3, <1>5, <1>6

(* The chain RealIP is given, and where the route stands in it.            *)
LEMMA ChainHolds ==
    ASSUME RouteInv, pc # "idle"
    PROVE  \E m \in Nat :
              /\ route \in Seq(Addrs) /\ Len(route) \in Nat \ {0}
              /\ peer = route[Len(route)] /\ chain \in Seq(Addrs)
              /\ Len(chain) = m + (Len(route) - 1)
              /\ \A k \in 1..(Len(route) - 1) : chain[m + k] = route[k]
              /\ SubSeq(chain, Len(chain) - (Len(route) - 1) + 1, Len(chain))
                    = SubSeq(route, 1, Len(route) - 1)
<1>1. route \in Seq(Addrs) /\ route # <<>>
  BY DEF RouteInv, RouteTypes
<1>2. PICK written \in Seq(Addrs) : chain = written \o Front(route)
  BY <1>1 DEF RouteInv, Vouched, Delivered
<1>3. PICK front : front = Front(route)
  OBVIOUS
<1>4. /\ Len(route) \in Nat \ {0} /\ Last(route) = route[Len(route)]
      /\ front \in Seq(Addrs) /\ Len(front) = Len(route) - 1
      /\ \A k \in 1..(Len(route) - 1) : front[k] = route[k]
  <2>1. Last(route) \in Addrs
    BY <1>1 DEF Last
  <2> QED BY <1>1, <1>3, <2>1, Routes
<1>5. chain \in Seq(Addrs) /\ chain = written \o front
  BY <1>2, <1>3, <1>4
<1>6. /\ Len(written) \in Nat /\ Len(chain) = Len(written) + Len(front)
      /\ \A k \in 1..Len(front) : chain[Len(written) + k] = front[k]
      /\ SubSeq(chain, Len(chain) - Len(front) + 1, Len(chain)) = front
  BY <1>4, <1>5, EndOfConcat
<1>7. peer = route[Len(route)] /\ front = SubSeq(route, 1, Len(route) - 1)
  BY <1>1, <1>3, <1>4 DEF RouteInv, Delivered, Front
<1> QED BY <1>1, <1>4, <1>5, <1>6, <1>7

(* However lines are broken up or added to, the chain a request is         *)
(* resolved by ends in the addresses its route really took, in order.      *)
THEOREM ChainIsTheRoute == RouteSpec => []ChainEndsInRoute
<1>1. RouteInv => ChainEndsInRoute
  <2> SUFFICES ASSUME RouteInv, pc # "idle"
               PROVE  /\ Len(chain) >= Len(route) - 1
                      /\ SubSeq(chain, Len(chain) - (Len(route) - 1) + 1, Len(chain))
                            = SubSeq(route, 1, Len(route) - 1)
    BY DEF ChainEndsInRoute
  <2>1. PICK m \in Nat :
           /\ Len(route) \in Nat \ {0} /\ Len(chain) = m + (Len(route) - 1)
           /\ SubSeq(chain, Len(chain) - (Len(route) - 1) + 1, Len(chain))
                 = SubSeq(route, 1, Len(route) - 1)
    BY ChainHolds
  <2> QED BY <2>1
<1> QED BY <1>1, RouteInvariance, PTL

(* On its way a request is still resolved as RealIP defines it.            *)
THEOREM RoutesAreResolvedAsDefined ==
    RouteSpec => [](ClientAsDefined /\ CDNAnswersAreNoted)
<1>1. RouteInv => ClientAsDefined /\ CDNAnswersAreNoted
  BY DEF RouteInv, IInv
<1> QED BY <1>1, RouteInvariance, PTL

(* The walk ends at the last hop it cannot pass.                           *)
LEMMA EndsAtLast ==
    ASSUME RouteInv, pc = "done", Ends # {}
    PROVE  Max(Ends) \in 1..Len(route) /\ res.client = Answer(route[Max(Ends)])
<1>1. PICK m \in Nat :
         /\ Len(route) \in Nat \ {0} /\ peer = route[Len(route)]
         /\ chain \in Seq(Addrs) /\ Len(chain) = m + (Len(route) - 1)
         /\ \A k \in 1..(Len(route) - 1) : chain[m + k] = route[k]
  BY ChainHolds
<1>2. Last(route) = peer
  BY DEF RouteInv, Delivered
<1>3. PICK last, ends : last = Max(ends) /\ ends = Ends
  OBVIOUS
<1>4. ends \in SUBSET (1..Len(route))
  <2>1. Reached \in SUBSET (1..Len(route))
    BY <1>1 DEF Reached
  <2> QED BY <1>3, <2>1 DEF Ends
<1>5. last \in ends /\ \A y \in ends : y <= last
  BY <1>1, <1>3, <1>4, MaxIsGreatest
<1>6. ClientAsDefined
  BY DEF RouteInv, IInv
<1>7. CASE ~IsTrustedProxy(peer)
  <2>1. last = Len(route)
    BY <1>2, <1>3, <1>5, <1>7 DEF Ends, Reached
  <2>2. res.client = Answer(peer)
    BY <1>6, <1>7 DEF ClientAsDefined
  <2> QED BY <1>1, <1>3, <2>1, <2>2
<1>8. CASE IsTrustedProxy(peer)
  <2>1. ends = {k \in 1..(Len(route) - 1) : Stops(route[k])}
    BY <1>2, <1>3, <1>8 DEF Ends, Reached
  <2>2. last \in 1..(Len(route) - 1) /\ Stops(route[last])
    BY <1>5, <2>1
  <2>3. m + last \in 1..Len(chain) /\ Stops(chain[m + last])
    BY <1>1, <2>2
  <2>4. \A j \in (m + last + 1)..Len(chain) : ~Stops(chain[j])
    <3> SUFFICES ASSUME NEW j \in (m + last + 1)..Len(chain), Stops(chain[j])
                 PROVE  FALSE
      OBVIOUS
    <3>1. PICK k \in 1..(Len(route) - 1) : j = m + k /\ k > last
      <4>1. j - m \in 1..(Len(route) - 1) /\ j = m + (j - m) /\ j - m > last
        BY <1>1, <2>2
      <4> QED BY <4>1
    <3>2. k \in ends
      BY <1>1, <2>1, <3>1
    <3> QED BY <1>5, <2>2, <3>1, <3>2
  <2>5. PICK k \in 1..Len(chain) :
           /\ Stops(chain[k]) /\ res.client = Answer(chain[k])
           /\ \A j \in (k + 1)..Len(chain) : ~Stops(chain[j])
    <3>1. ~\A j \in 1..Len(chain) : ~Stops(chain[j])
      BY <2>3
    <3> QED BY <1>6, <1>8, <3>1 DEF ClientAsDefined
  <2>6. k = m + last
    <3>1. Len(chain) \in Nat
      BY <1>1
    <3>2. ~(k < m + last)
      BY <1>1, <2>2, <2>3, <2>5
    <3>3. ~(k > m + last)
      BY <1>1, <2>2, <2>4, <2>5
    <3> QED BY <1>1, <2>2, <3>2, <3>3
  <2>7. chain[k] = route[last]
    BY <1>1, <2>2, <2>6
  <2> QED BY <1>1, <1>3, <2>2, <2>5, <2>7
<1> QED BY <1>7, <1>8

(* Whatever a visitor wrote, the address its request is resolved to is its *)
(* own or that of the first hop nobody vouches for, for routes of any      *)
(* length.                                                                 *)
THEOREM ResolvesTheRoute == RouteSpec => []RouteIsResolved
<1>1. RouteInv => RouteIsResolved
  <2> SUFFICES ASSUME RouteInv, pc = "done", Ends # {}
               PROVE  LET published == IsEdge(route[Max(Ends)]) /\ header # None
                      IN  /\ ~published => res.client = route[Max(Ends)]
                          /\ published /\ EdgeHops # {} =>
                                res.client = route[Max(EdgeHops) - 1]
    BY DEF RouteIsResolved
  <2>1. res.client = Answer(route[Max(Ends)])
    BY EndsAtLast
  <2>2. ASSUME header # None, EdgeHops # {}
        PROVE  header = route[Max(EdgeHops) - 1]
    <3>1. PICK told : told = route[Max(EdgeHops) - 1]
      OBVIOUS
    <3>2. edgeLines \in {<<>>, <<<<told>>>>} /\ header = OneAddress(edgeLines)
      BY <2>2, <3>1 DEF RouteInv, EdgeTold, Delivered
    <3>3. OneAddress(<<>>) = None
      BY DEF OneAddress
    <3>4. OneAddress(<<<<told>>>>) \in {told, None}
      BY DEF OneAddress
    <3> QED BY <2>2, <3>1, <3>2, <3>3, <3>4
  <2> QED BY <2>1, <2>2 DEF Answer
<1> QED BY <1>1, RouteInvariance, PTL
=============================================================================
