---------------------------- MODULE ProxyRoutes ----------------------------
(***************************************************************************)
(* A request on its way from a visitor over CDN edges and proxies to the   *)
(* service, and RealIP resolving the address it came from.  The visitor    *)
(* may write any headers.  A proxy appends the address it was called from  *)
(* to X-Forwarded-For, in the line it found or in one of its own; an edge  *)
(* also overwrites the provider's client-IP header with that address, and  *)
(* a proxy may drop that header.                                           *)
(*                                                                         *)
(* A header line is the sequence of its comma-separated parts; a part is   *)
(* an address in any form parseHeaderIP takes, or Junk.                    *)
(***************************************************************************)
EXTENDS RealIP, FiniteSetsExt, SequencesExt

CONSTANTS
    Visitors,       \* addresses requests come from
    Hops,           \* addresses of proxies and edges
    MaxHops,        \* bound: how many of them a request passes
    ForgedLines,    \* X-Forwarded-For lines a visitor may write itself
    ForgedHeaders,  \* lines of the client-IP header it may write itself
    Junk            \* a part that is no address

(* The lines of a header: each has at least one part. *)
Part == Addrs \cup {Junk}
HeaderLines == Seq(Seq(Part) \ {<<>>})

ASSUME RouteAssumption ==
    /\ Visitors \cup Hops \subseteq Addrs /\ Junk \notin Addrs
    /\ MaxHops \in Nat
    /\ ForgedLines \cup ForgedHeaders \subseteq HeaderLines

VARIABLES
    route,      \* where the request really was, the visitor first
    xff,        \* its X-Forwarded-For lines
    edgeLines   \* its lines of the provider's header

messageVars == <<route, xff, edgeLines>>
routeVars == <<vars, messageVars>>

RouteInit ==
    /\ Init
    /\ route = <<>> /\ xff = <<>> /\ edgeLines = <<>>

Depart ==
    /\ route = <<>>
    /\ \E v \in Visitors : route' = <<v>>
    /\ xff' \in ForgedLines
    /\ edgeLines' \in ForgedHeaders
    /\ UNCHANGED vars

Hop(p, ownLine, drops) ==
    LET caller == Last(route)
    IN  /\ pc = "idle" /\ Len(route) \in 1..MaxHops
        /\ route' = Append(route, p)
        /\ xff' = IF ownLine \/ xff = <<>>
                  THEN Append(xff, <<caller>>)
                  ELSE Front(xff) \o <<Append(Last(xff), caller)>>
        /\ edgeLines' = IF p \in EdgeRanges THEN <<<<caller>>>>
                        ELSE IF drops THEN <<>> ELSE edgeLines
        /\ UNCHANGED vars

(***************************************************************************)
(* What the service reads: the raw header block, line by line.  A line     *)
(* that starts with a blank continues the header above it.                 *)
(***************************************************************************)
Line(name, parts) == [name |-> name, parts |-> parts]
Fold(parts) == Line("blank", parts)

(* Whether a sender folds its lines, after the first part, is its affair. *)
Header(name, lines, folds) ==
    IF ~folds THEN [n \in 1..Len(lines) |-> Line(name, lines[n])]
    ELSE [n \in 1..(2 * Len(lines)) |->
             IF n % 2 = 1 THEN Line(name, <<Head(lines[(n + 1) \div 2])>>)
                          ELSE Fold(Tail(lines[n \div 2]))]

RawHeaders(folds) ==
    Header("xff", xff, folds) \o Header("other", <<<<Junk, Junk>>>>, folds)
                              \o Header("edge", edgeLines, folds)

(***************************************************************************)
(* The parts of every header called name, in order.  Mutant: the lines     *)
(* that continue a header are dropped.                                     *)
(***************************************************************************)
UnfoldedLine(read, line, name) ==
    IF line.name = name
    THEN [out |-> Append(read.out, line.parts), inTarget |-> TRUE]
    ELSE [out |-> read.out, inTarget |-> FALSE]

ReadLine(read, line, name) ==
    IF line.name = name
    THEN [out |-> Append(read.out, line.parts), inTarget |-> TRUE]
    ELSE IF line.name = "blank" /\ read.inTarget
    THEN [out |-> Front(read.out) \o <<Last(read.out) \o line.parts>>,
          inTarget |-> TRUE]
    ELSE [out |-> read.out, inTarget |-> FALSE]

rawHeaderValues(block, name) ==
    LET read[n \in 0..Len(block)] ==
            IF n = 0 THEN [out |-> <<>>, inTarget |-> FALSE]
            ELSE ReadLine(read[n - 1], block[n], name)
    IN  read[Len(block)].out

(* The parts of a line that parse; what does not is dropped on its own. *)
ParsePart(ips, part) == IF part \in Addrs THEN Append(ips, part) ELSE ips

Parsed(parts) ==
    LET ips[n \in 0..Len(parts)] ==
            IF n = 0 THEN <<>> ELSE ParsePart(ips[n - 1], parts[n])
    IN  ips[Len(parts)]

ParseLine(ips, parts) == ips \o Parsed(parts)

ParsedLines(lines) ==
    LET ips[n \in 0..Len(lines)] ==
            IF n = 0 THEN <<>> ELSE ParseLine(ips[n - 1], lines[n])
    IN  ips[Len(lines)]

forwardedFor(block) == ParsedLines(rawHeaderValues(block, "xff"))

(* One line with one address, or nothing. *)
OneAddress(values) ==
    IF Len(values) = 1 /\ Len(values[1]) = 1 /\ values[1][1] \in Addrs
    THEN values[1][1] ELSE None

clientIP(block) == OneAddress(rawHeaderValues(block, "edge"))

Deliver ==
    /\ route # <<>>
    /\ \E folds \in BOOLEAN :
          LET block == RawHeaders(folds)
          IN  Receive(Last(route), forwardedFor(block), clientIP(block))
    /\ UNCHANGED messageVars

Reset ==
    /\ Handled
    /\ route' = <<>> /\ xff' = <<>> /\ edgeLines' = <<>>

RouteNext ==
    \/ Depart
    \/ \E p \in Hops, ownLine, drops \in BOOLEAN : Hop(p, ownLine, drops)
    \/ Deliver
    \/ Resolve /\ UNCHANGED messageVars
    \/ Reset

RouteSpec == RouteInit /\ [][RouteNext]_routeVars
-----------------------------------------------------------------------------
(***************************************************************************)
(* Properties.                                                             *)
(***************************************************************************)

(* The hops from which the service is reached, and among them the last one *)
(* that the walk cannot pass: the one at which the route stops being       *)
(* vouched for, or an edge whose header has come through.                  *)
Reached == IF IsTrustedProxy(Last(route)) THEN 1..(Len(route) - 1)
                                          ELSE {Len(route)}
Ends == {k \in Reached : Stops(route[k])}
EdgeHops == {k \in 2..Len(route) : IsEdge(route[k])}

(* The visitor's address, or the first hop nobody vouches for, is what is  *)
(* resolved, whatever the visitor wrote into its headers; unless a visitor *)
(* has an address that is trusted itself, or is an edge's and came by no   *)
(* other edge (realip.go:196-213, README.md:466-472).                      *)
RouteIsResolved ==
    pc = "done" /\ Ends # {} =>
        LET k == Max(Ends)
            published == IsEdge(route[k]) /\ header # None
        IN  /\ ~published => res.client = route[k]
            /\ published /\ EdgeHops # {} =>
                  res.client = route[Max(EdgeHops) - 1]

(* However a line is broken up, the chain ends in the addresses the route  *)
(* really took, in order: dropping a continued line or a line of its own   *)
(* would move a part the visitor wrote to the trusted end                  *)
(* (realip.go:336-350, 366-368).                                           *)
ChainEndsInRoute ==
    pc # "idle" =>
        LET n == Len(route) - 1
        IN  /\ Len(chain) >= n
            /\ SubSeq(chain, Len(chain) - n + 1, Len(chain)) = SubSeq(route, 1, n)
=============================================================================
