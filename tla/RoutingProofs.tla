----------------------------- MODULE RoutingProofs -----------------------------
(***************************************************************************)
(* The two routing passes choose the same engine for every URL and every   *)
(* answer of a server.                                                     *)
(***************************************************************************)
EXTENDS Routing, TLAPS

\* A loop over engines ends with the first that is not nil.
LEMMA FirstIsFound ==
  ASSUME NEW s, Len(s) \in Nat, NEW i \in 1 .. Len(s), s[i] # "nil",
         \A k \in 1 .. Len(s) : k < i => s[k] = "nil"
  PROVE  FirstOf(s) = s[i]
<1> DEFINE fits == {k \in 1 .. Len(s) : s[k] # "nil"}
<1>1. i \in fits /\ \A k \in fits : i <= k
  OBVIOUS
<1>2. \A m \in fits : (\A k \in fits : m <= k) => m = i
  BY <1>1
<1>3. (CHOOSE m \in fits : \A k \in fits : m <= k) = i
  BY <1>1, <1>2
<1>4. QED
  BY <1>1, <1>3 DEF FirstOf

LEMMA FirstOrSecond ==
  ASSUME NEW s, Len(s) \in Nat, Len(s) >= 2
  PROVE  /\ s[1] # "nil" => FirstOf(s) = s[1]
         /\ s[1] = "nil" /\ s[2] # "nil" => FirstOf(s) = s[2]
<1>1. ASSUME s[1] # "nil" PROVE FirstOf(s) = s[1]
  <2>1. 1 \in 1 .. Len(s) /\ \A k \in 1 .. Len(s) : k < 1 => s[k] = "nil"
    OBVIOUS
  <2>2. QED
    BY <1>1, <2>1, FirstIsFound, Zenon
<1>2. ASSUME s[1] = "nil", s[2] # "nil" PROVE FirstOf(s) = s[2]
  <2>1. 2 \in 1 .. Len(s) /\ \A k \in 1 .. Len(s) : k < 2 => s[k] = "nil"
    BY <1>2
  <2>2. QED
    BY <1>2, <2>1, FirstIsFound, Zenon
<1>3. QED
  BY <1>1, <1>2

LEMMA NoneIsFound ==
  ASSUME NEW s, \A k \in 1 .. Len(s) : s[k] = "nil"
  PROVE  FirstOf(s) = "nil"
<1>1. {k \in 1 .. Len(s) : s[k] # "nil"} = {}
  OBVIOUS
<1>2. QED
  BY <1>1 DEF FirstOf

\* The first pass, by what the engines can handle.
LEMMA RouteIs ==
  ASSUME NEW u \in Raws
  PROVE  route(u) = IF u.host = "media" THEN "media"
                    ELSE IF FileExt(u) \/ Web(u) THEN "file" ELSE "nil"
<1> DEFINE s == [i \in 1 .. Len(Engines) |-> Handles(Engines[i], u)]
<1>1. Len(Engines) = 3 /\ Engines[1] = "media" /\ Engines[2] = "file" /\ Engines[3] = "article"
  BY DEF Engines
<1>2. Len(s) = 3 /\ s[1] = Handles("media", u) /\ s[2] = Handles("file", u)
        /\ s[3] = Handles("article", u)
  BY <1>1
<1>3. route(u) = FirstOf(s)
  BY DEF route
<1> HIDE DEF s
<1>4. CASE u.host = "media"
  <2>1. s[1] = "media"
    BY <1>2, <1>4 DEF Handles, CanHandle
  <2>2. FirstOf(s) = s[1]
    <3>1. Len(s) \in Nat /\ Len(s) >= 2
      BY <1>2
    <3>2. s[1] # "nil"
      BY <2>1
    <3>3. QED
      BY <3>1, <3>2, FirstOrSecond, Zenon
  <2>3. QED
    BY <1>3, <1>4, <2>1, <2>2
<1>5. CASE u.host # "media" /\ (FileExt(u) \/ Web(u))
  <2>1. s[1] = "nil" /\ s[2] = "file"
    BY <1>2, <1>5 DEF Handles, CanHandle
  <2>2. FirstOf(s) = s[2]
    <3>1. Len(s) \in Nat /\ Len(s) >= 2
      BY <1>2
    <3>2. s[1] = "nil" /\ s[2] # "nil"
      BY <2>1
    <3>3. QED
      BY <3>1, <3>2, FirstOrSecond, Zenon
  <2>3. QED
    BY <1>3, <1>5, <2>1, <2>2
<1>6. CASE u.host # "media" /\ ~FileExt(u) /\ ~Web(u)
  <2>1. s[1] = "nil" /\ s[2] = "nil" /\ s[3] = "nil"
    BY <1>2, <1>6 DEF Handles, CanHandle
  <2>2. FirstOf(s) = "nil"
    <3>1. \A k \in 1 .. Len(s) : s[k] = "nil"
      BY <1>2, <2>1
    <3>2. QED
      BY <3>1, NoneIsFound, Zenon
  <2>3. QED
    BY <1>3, <1>6, <2>2
<1>7. QED
  BY <1>4, <1>5, <1>6

\* The second pass, whatever its probe says.
LEMMA SelectIsRoute ==
  ASSUME NEW u \in Raws
  PROVE  selectRunner(u) = route(u)
<1> DEFINE s == Choices(u)
<1>1. /\ Len(s) = 5 /\ s[1] = Handles("media", u) /\ s[2] = Handles("file", u)
      /\ s[3] = IF probeKind(u) = "unknown" THEN "nil" ELSE Handles(probeKind(u), u)
      /\ s[4] = Handles("article", u) /\ s[5] = Handles("file", u)
  BY DEF Choices
<1>2. selectRunner(u) = FirstOf(s)
  BY DEF selectRunner
<1> HIDE DEF s
<1>3. CASE u.host = "media"
  <2>1. s[1] = "media"
    BY <1>1, <1>3 DEF Handles, CanHandle
  <2>2. FirstOf(s) = s[1]
    <3>1. Len(s) \in Nat /\ Len(s) >= 2
      BY <1>1
    <3>2. s[1] # "nil"
      BY <2>1
    <3>3. QED
      BY <3>1, <3>2, FirstOrSecond, Zenon
  <2>3. QED
    BY <1>2, <1>3, <2>1, <2>2, RouteIs
<1>4. CASE u.host # "media" /\ (FileExt(u) \/ Web(u))
  <2>1. s[1] = "nil" /\ s[2] = "file"
    BY <1>1, <1>4 DEF Handles, CanHandle
  <2>2. FirstOf(s) = s[2]
    <3>1. Len(s) \in Nat /\ Len(s) >= 2
      BY <1>1
    <3>2. s[1] = "nil" /\ s[2] # "nil"
      BY <2>1
    <3>3. QED
      BY <3>1, <3>2, FirstOrSecond, Zenon
  <2>3. QED
    BY <1>2, <1>4, <2>1, <2>2, RouteIs
<1>5. CASE u.host # "media" /\ ~FileExt(u) /\ ~Web(u)
  <2>1. probeKind(u) = "unknown"
    BY <1>5 DEF probeKind
  <2>2. s[1] = "nil" /\ s[2] = "nil" /\ s[3] = "nil" /\ s[4] = "nil" /\ s[5] = "nil"
    BY <1>1, <1>5, <2>1 DEF Handles, CanHandle
  <2>3. FirstOf(s) = "nil"
    <3>1. \A k \in 1 .. Len(s) : s[k] = "nil"
      BY <1>1, <2>2
    <3>2. QED
      BY <3>1, NoneIsFound, Zenon
  <2>4. QED
    BY <1>2, <1>5, <2>3, RouteIs
<1>6. QED
  BY <1>3, <1>4, <1>5

-----------------------------------------------------------------------------

\* A queued URL was routed, and what runs it was chosen for the same URL.
IInv ==
  /\ raw \in Raws /\ url \in Raws
  /\ phase \in {"given", "refused", "queued", "selected", "ended"}
  /\ phase \in {"queued", "selected", "ended"} => kind = route(url) /\ kind # "nil"
  /\ phase \in {"selected", "ended"} => runner = kind

LEMMA InitIsRight == Init => IInv
BY DEF Init, IInv

\* route does not depend on what a step changes: neither pass reads a variable
\* but ctype, which the first does not read and nobody sets.
LEMMA StepIsRight == IInv /\ [Next]_vars => IInv'
<1> SUFFICES ASSUME IInv, [Next]_vars PROVE IInv'
  OBVIOUS
<1>1. CASE AddURL
  <2>1. url' \in Raws
    BY <1>1 DEF AddURL, IInv, Raws
  <2>2. QED
    BY <1>1, <2>1 DEF AddURL, IInv
<1>2. CASE SelectRunner
  <2>1. runner' = route(url) /\ runner' # "nil" /\ url' = url /\ raw' = raw /\ kind' = kind
    BY <1>2, SelectIsRoute DEF SelectRunner, IInv
  <2>2. phase' = "selected" /\ kind = route(url)
    BY <1>2, <2>1 DEF SelectRunner, IInv
  <2>3. QED
    BY <2>1, <2>2 DEF IInv
<1>3. CASE Run
  BY <1>3 DEF Run, IInv
<1>4. CASE UNCHANGED vars
  BY <1>4 DEF vars, IInv
<1>5. QED
  BY <1>1, <1>2, <1>3, <1>4 DEF Next

\* A job runs in the engine of the Kind shown for it, and a URL that AddURL accepted
\* always has one, for every URL and every answer to the probe.
THEOREM RoutingAgrees == Spec => []RunnerIsKind
<1>1. IInv => RunnerIsKind
  BY DEF IInv, RunnerIsKind
<1>2. QED
  BY <1>1, InitIsRight, StepIsRight, PTL DEF Spec

=============================================================================
