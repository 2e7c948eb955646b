---------------------------- MODULE ToolsProofs -----------------------------
(* Connected tools and the gate in front of them, for any requests, tools,   *)
(* organisation lists and connectors: rows and receipts tell the same, the   *)
(* policy and the list of shared tools are what was asked for, and the gate  *)
(* files what the policy forces, counts what got out and offers what runs.   *)
EXTENDS ConnectedTools, ConnectorGate, SequenceTheorems, TLAPS

-----------------------------------------------------------------------------
(* Lists of shared tools.                                                    *)

\* A sequence without its k-th element.
LEMMA Shortened ==
  ASSUME NEW S, NEW s \in Seq(S), NEW k \in DOMAIN s
  PROVE  /\ RemoveAt(s, k) \in Seq(S) /\ Len(RemoveAt(s, k)) = Len(s) - 1
         /\ \A j \in DOMAIN RemoveAt(s, k) :
              RemoveAt(s, k)[j] = IF j < k THEN s[j] ELSE s[j + 1]
<1> DEFINE n == Len(s)
           a == SubSeq(s, 1, k - 1)
           b == SubSeq(s, k + 1, n)
<1>1. n \in Nat /\ DOMAIN s = 1..n /\ k \in 1..n /\ \A i \in 1..n : s[i] \in S
  OBVIOUS
<1>2. /\ a \in Seq(S) /\ Len(a) = k - 1
      /\ \A i \in 1..(k - 1) : a[i] = s[i]
  <2>1. 1 \in Int /\ k - 1 \in Int /\ (\A i \in 1..(k - 1) : s[i] \in S)
    BY <1>1
  <2>2. /\ a \in Seq(S) /\ Len(a) = IF 1 <= k - 1 THEN (k - 1) - 1 + 1 ELSE 0
        /\ \A i \in 1..((k - 1) - 1 + 1) : a[i] = s[1 + i - 1]
    BY <2>1, SubSeqProperties
  <2> HIDE DEF a, n
  <2>3. k \in Nat /\ k >= 1 /\ 1..((k - 1) - 1 + 1) = 1..(k - 1)
    BY <1>1
  <2>4. Len(a) = k - 1
    BY <2>2, <2>3
  <2>5. \A i \in 1..(k - 1) : a[i] = s[i]
    <3> SUFFICES ASSUME NEW i \in 1..(k - 1)  PROVE a[i] = s[i]
      OBVIOUS
    <3>1. 1 + i - 1 = i
      OBVIOUS
    <3> QED
      BY <2>2, <2>3, <3>1
  <2> QED
    BY <2>2, <2>4, <2>5
<1>3. /\ b \in Seq(S) /\ Len(b) = n - k
      /\ \A i \in 1..(n - k) : b[i] = s[k + i]
  <2>1. k + 1 \in Int /\ n \in Int /\ (\A i \in (k + 1)..n : s[i] \in S)
    BY <1>1
  <2>2. /\ b \in Seq(S) /\ Len(b) = IF k + 1 <= n THEN n - (k + 1) + 1 ELSE 0
        /\ \A i \in 1..(n - (k + 1) + 1) : b[i] = s[(k + 1) + i - 1]
    BY <2>1, SubSeqProperties
  <2> HIDE DEF b, n
  <2>3. n \in Nat /\ k \in 1..n /\ n - (k + 1) + 1 = n - k
    BY <1>1
  <2>4. Len(b) = n - k
    BY <2>2, <2>3
  <2>5. \A i \in 1..(n - k) : b[i] = s[k + i]
    <3> SUFFICES ASSUME NEW i \in 1..(n - k)  PROVE b[i] = s[k + i]
      OBVIOUS
    <3>1. (k + 1) + i - 1 = k + i
      BY <2>3
    <3>2. b[i] = s[(k + 1) + i - 1]
      BY <2>2, <2>3
    <3> QED
      BY <3>1, <3>2
  <2> QED
    BY <2>2, <2>4, <2>5
<1>4. /\ a \o b \in Seq(S) /\ Len(a \o b) = n - 1
      /\ \A i \in 1..(n - 1) : (a \o b)[i] = IF i <= k - 1 THEN a[i] ELSE b[i - (k - 1)]
  <2>1. /\ a \o b \in Seq(S) /\ Len(a \o b) = Len(a) + Len(b)
        /\ \A i \in 1..(Len(a) + Len(b)) :
              (a \o b)[i] = IF i <= Len(a) THEN a[i] ELSE b[i - Len(a)]
    BY <1>2, <1>3, ConcatProperties
  <2> HIDE DEF a, b, n
  <2> QED
    BY SMTT(40), <1>1, <1>2, <1>3, <2>1
<1> HIDE DEF a, b
<1>5. ASSUME NEW i \in 1..(n - 1)
      PROVE  (a \o b)[i] = IF i < k THEN s[i] ELSE s[i + 1]
  <2> HIDE DEF n
  <2>1. CASE i < k
    BY <1>1, <1>2, <1>4, <2>1
  <2>2. CASE ~(i < k)
    <3>1. i - (k - 1) \in 1..(n - k) /\ k + (i - (k - 1)) = i + 1
      BY <1>1, <2>2
    <3>2. b[i - (k - 1)] = s[k + (i - (k - 1))]
      BY <1>3, <3>1
    <3> QED
      BY <1>1, <1>4, <2>2, <3>1, <3>2
  <2> QED
    BY <2>1, <2>2
<1>6. RemoveAt(s, k) = a \o b
  BY DEF RemoveAt, a, b
<1>7. DOMAIN (a \o b) = 1..(n - 1)
  <2> DEFINE c == a \o b
  <2>1. c \in Seq(S) /\ Len(c) = n - 1
    BY <1>4
  <2> HIDE DEF c
  <2>2. DOMAIN c = 1..Len(c)
    BY <2>1
  <2> QED
    BY <2>1, <2>2 DEF c
<1> QED
  BY <1>4, <1>5, <1>6, <1>7

\* The first n elements of a longer sequence.
LEMMA Cut ==
  ASSUME NEW S, NEW s \in Seq(S), NEW n \in Nat, Len(s) > n
  PROVE  /\ SubSeq(s, 1, n) \in Seq(S) /\ Len(SubSeq(s, 1, n)) = n
         /\ \A i \in 1..n : i \in DOMAIN s /\ SubSeq(s, 1, n)[i] = s[i]
<1> DEFINE c == SubSeq(s, 1, n)
<1>1. Len(s) \in Nat /\ DOMAIN s = 1..Len(s)
  OBVIOUS
<1>2. 1 \in Int /\ n \in Int /\ \A i \in 1..n : s[i] \in S
  BY <1>1
<1>3. /\ c \in Seq(S) /\ Len(c) = IF 1 <= n THEN n - 1 + 1 ELSE 0
      /\ \A i \in 1..(n - 1 + 1) : c[i] = s[1 + i - 1]
  BY <1>2, SubSeqProperties
<1> HIDE DEF c
<1> QED
  BY <1>1, <1>3 DEF c

\* A list of shared tools, its keys apart.
Lists == {l \in Seq(OrgIds) : IsInjective(l)}
KeysOf(l) == {l[i] : i \in DOMAIN l}

\* A list contains the keys at its places.
LEMMA ContainsKey ==
  ASSUME NEW l \in Seq(OrgIds), NEW o
  PROVE  Contains(l, o) <=> o \in KeysOf(l)
BY DEF Contains, KeysOf

\* A new key at the end keeps the keys apart.
LEMMA AddedKeys ==
  ASSUME NEW l \in Lists, NEW o \in OrgIds, o \notin KeysOf(l)
  PROVE  /\ Append(l, o) \in Lists /\ KeysOf(Append(l, o)) = KeysOf(l) \cup {o}
         /\ Len(Append(l, o)) = Len(l) + 1
<1>1. l \in Seq(OrgIds) /\ \A i, j \in DOMAIN l : l[i] = l[j] => i = j
  BY DEF Lists, IsInjective
<1>2. /\ Append(l, o) \in Seq(OrgIds) /\ Len(Append(l, o)) = Len(l) + 1
      /\ DOMAIN Append(l, o) = DOMAIN l \cup {Len(l) + 1} /\ Len(l) + 1 \notin DOMAIN l
      /\ Append(l, o)[Len(l) + 1] = o
      /\ \A i \in DOMAIN l : Append(l, o)[i] = l[i]
  BY <1>1
<1>3. \A i \in DOMAIN l : l[i] # o
  BY DEF KeysOf
<1> DEFINE m == Append(l, o)
<1> HIDE DEF m
<1>4. \A i, j \in DOMAIN m : m[i] = m[j] => i = j
  BY <1>1, <1>2, <1>3 DEF m
<1>5. KeysOf(m) = KeysOf(l) \cup {o}
  BY <1>2 DEF m, KeysOf
<1> QED
  BY <1>2, <1>4, <1>5 DEF m, Lists, IsInjective

\* Without a key that is there once, the others stay, each once.
LEMMA RemovedKeys ==
  ASSUME NEW l \in Lists, NEW o
  PROVE  /\ Without(l, o) \in Lists /\ KeysOf(Without(l, o)) = KeysOf(l) \ {o}
         /\ Len(Without(l, o)) <= Len(l)
<1>1. l \in Seq(OrgIds) /\ (\A i, j \in DOMAIN l : l[i] = l[j] => i = j)
      /\ Len(l) \in Nat /\ DOMAIN l = 1..Len(l)
  BY DEF Lists, IsInjective
<1>2. CASE o \notin KeysOf(l)
  BY <1>1, <1>2, ContainsKey DEF Without
<1>3. CASE o \in KeysOf(l)
  <2> DEFINE k == CHOOSE i \in DOMAIN l : l[i] = o
             m == RemoveAt(l, k)
  <2>1. k \in DOMAIN l /\ l[k] = o
    BY <1>3 DEF KeysOf
  <2>2. Without(l, o) = m
    BY <1>1, <1>3, ContainsKey DEF Without
  <2> HIDE DEF k
  <2>3. /\ m \in Seq(OrgIds) /\ Len(m) = Len(l) - 1
        /\ \A j \in DOMAIN m : m[j] = IF j < k THEN l[j] ELSE l[j + 1]
    <3>1. l \in Seq(OrgIds) /\ k \in DOMAIN l
      BY <1>1, <2>1
    <3> HIDE DEF m
    <3>2. /\ RemoveAt(l, k) \in Seq(OrgIds) /\ Len(RemoveAt(l, k)) = Len(l) - 1
          /\ \A j \in DOMAIN RemoveAt(l, k) :
               RemoveAt(l, k)[j] = IF j < k THEN l[j] ELSE l[j + 1]
      BY ONLY <3>1, Shortened
    <3> QED
      BY <3>2 DEF m
  <2>4. DOMAIN m = 1..(Len(l) - 1)
    BY <1>1, <2>3
  <2> HIDE DEF m
  <2>5. \A i, j \in DOMAIN m : m[i] = m[j] => i = j
    <3> SUFFICES ASSUME NEW i \in DOMAIN m, NEW j \in DOMAIN m, m[i] = m[j]  PROVE i = j
      OBVIOUS
    <3> DEFINE x == IF i < k THEN i ELSE i + 1
               y == IF j < k THEN j ELSE j + 1
    <3>1. x \in DOMAIN l /\ y \in DOMAIN l /\ m[i] = l[x] /\ m[j] = l[y]
      BY <1>1, <2>1, <2>3, <2>4
    <3>2. x = y
      BY <1>1, <3>1
    <3> QED
      BY <1>1, <2>1, <2>4, <3>2
  <2>6. ASSUME NEW i \in DOMAIN m
        PROVE  m[i] \in KeysOf(l) \ {o}
    <3> DEFINE x == IF i < k THEN i ELSE i + 1
    <3>1. x \in DOMAIN l /\ m[i] = l[x] /\ x # k
      BY <1>1, <2>1, <2>3, <2>4
    <3> QED
      BY <1>1, <2>1, <3>1 DEF KeysOf
  <2>7. ASSUME NEW i \in DOMAIN l, l[i] # o
        PROVE  l[i] \in KeysOf(m)
    <3> DEFINE x == IF i < k THEN i ELSE i - 1
    <3>1. x \in DOMAIN m /\ m[x] = l[i]
      BY <1>1, <2>1, <2>3, <2>4, <2>7
    <3> QED
      BY <3>1 DEF KeysOf
  <2>8. KeysOf(m) = KeysOf(l) \ {o}
    BY <2>6, <2>7 DEF KeysOf
  <2> QED
    BY <1>1, <2>2, <2>3, <2>5, <2>8 DEF Lists, IsInjective
<1> QED
  BY <1>2, <1>3

\* The first MaxOrgTools keys are apart still.
LEMMA KeptKeys ==
  ASSUME NEW l \in Lists, MaxOrgTools \in Nat
  PROVE  /\ Kept(l) \in Lists /\ KeysOf(Kept(l)) \subseteq KeysOf(l)
         /\ Len(Kept(l)) <= MaxOrgTools
<1>1. l \in Seq(OrgIds) /\ (\A i, j \in DOMAIN l : l[i] = l[j] => i = j)
      /\ Len(l) \in Nat /\ DOMAIN l = 1..Len(l)
  BY DEF Lists, IsInjective
<1>2. CASE ~(Len(l) > MaxOrgTools)
  BY <1>1, <1>2 DEF Kept
<1>3. CASE Len(l) > MaxOrgTools
  <2> DEFINE c == SubSeq(l, 1, MaxOrgTools)
  <2>1. /\ c \in Seq(OrgIds) /\ Len(c) = MaxOrgTools
        /\ \A i \in 1..MaxOrgTools : i \in DOMAIN l /\ c[i] = l[i]
    BY <1>1, <1>3, Cut
  <2>2. Kept(l) = c
    BY <1>3 DEF Kept
  <2> HIDE DEF c
  <2>3. DOMAIN c = 1..MaxOrgTools
    BY <2>1
  <2>4. \A i, j \in DOMAIN c : c[i] = c[j] => i = j
    BY <1>1, <2>1, <2>3
  <2>5. KeysOf(c) \subseteq KeysOf(l)
    BY <2>1, <2>3 DEF KeysOf
  <2> QED
    BY <2>1, <2>2, <2>4, <2>5 DEF Lists, IsInjective
<1> QED
  BY <1>2, <1>3

\* A full list with one tool added is the full list again.
LEMMA FullList ==
  ASSUME NEW l \in Lists, NEW o \in OrgIds, MaxOrgTools \in Nat, Len(l) <= MaxOrgTools,
         Len(Append(l, o)) > MaxOrgTools
  PROVE  Kept(Append(l, o)) = l
<1>1. /\ l \in Seq(OrgIds) /\ Len(l) \in Nat /\ Append(l, o) \in Seq(OrgIds)
      /\ Len(Append(l, o)) = Len(l) + 1 /\ DOMAIN l = 1..Len(l)
      /\ \A i \in 1..Len(l) : Append(l, o)[i] = l[i]
  <2>1. l \in Seq(OrgIds)
    BY DEF Lists
  <2> QED
    BY <2>1, AppendProperties, LenProperties
<1> DEFINE m == Append(l, o)
           c == SubSeq(m, 1, MaxOrgTools)
<1>2. Len(l) = MaxOrgTools
  <2>1. Len(l) \in Nat /\ Len(l) <= MaxOrgTools /\ Len(l) + 1 > MaxOrgTools
    BY <1>1
  <2> QED
    BY <2>1
<1>3. Kept(m) = c
  BY DEF Kept
<1> HIDE DEF m
<1>4. /\ c \in Seq(OrgIds) /\ Len(c) = MaxOrgTools
      /\ \A i \in 1..MaxOrgTools : c[i] = m[i]
  BY <1>1, Cut DEF m
<1> HIDE DEF c
<1>5. c = l
  BY <1>1, <1>2, <1>4, SeqEqual DEF m
<1> QED
  BY <1>3, <1>5 DEF m
-----------------------------------------------------------------------------
(* Connected tools: the inductive invariant.                                  *)

Handler == [at : Stages, event : Events \cup {"none"}, tool : Tools \cup {Gone},
            row : Row \cup {Gone}, patch : Patches \cup {<<>>}, policy : Policy,
            list : Seq(OrgIds), org : OrgIds \cup {Gone}]

OnTools == {"lookup", "save", "exchange", "delete", "run", "receipt"}

There(t) == connected[t] # Gone

\* The receipt of what happened to a tool is in the trail, or about to be.
Telling(q, e, t) == handler[q].at = "receipt" /\ handler[q].event = e /\ handler[q].tool = t
Told(e, t) == <<e, t>> \in trail \/ \E q \in Requests : Telling(q, e, t)

\* A connect that has not saved its row yet.
Opening(q, t) ==
    handler[q].tool = t /\ handler[q].event = "connected" /\ handler[q].at \in {"lookup", "save"}

ToolTypeInv ==
    /\ connected \in [Tools -> Row \cup {Gone}]
    /\ policy \in Policy /\ asked \in Policy
    /\ shared \in Lists /\ Len(shared) <= MaxOrgTools /\ KeysOf(shared) \subseteq minted
    /\ minted \subseteq Tools \cup OrgIds
    /\ handler \in [Requests -> Handler]
    /\ trail \subseteq Events \X Tools
    /\ removed \subseteq Tools /\ overtaken \subseteq removed /\ failed \subseteq Tools
    /\ smuggled \subseteq Tools /\ listed \subseteq OrgIds /\ cut \subseteq OrgIds
    /\ stale \subseteq Requests /\ mixed \subseteq {"policy", "list"}

\* What a handler is about, by its stage, and what it knows of the row it holds.
Works(h) ==
    /\ h.at \in OnTools => h.tool \in Tools \cap minted /\ h.event \in Events
    /\ h.at \notin OnTools => h.tool = Gone
    /\ h.at = "lookup" => h.event = "connected"
    /\ h.at = "save" => h.event \in {"connected", "oauth_completed"}
    /\ h.at = "exchange" => h.event = "oauth_completed"
    /\ h.at = "delete" => h.event = "disconnected"
    /\ h.at = "run" => h.event = "invoked"
    /\ h.at \in {"lookup", "save", "exchange"} => h.row \in Row
    /\ h.at \in {"lookup", "save"} /\ h.event = "connected" =>
         (h.row.provider => h.row.auth = "pending")
    /\ h.at = "save" /\ h.event = "oauth_completed" => h.row.auth = "connected"

\* A copy of the policy or of the list that is in date is the one in force,
\* with the change the administrator asked for.
Decides(q) ==
    LET h == handler[q] IN
    /\ h.at = "patch" =>
         /\ h.patch \in Patches
         /\ q \notin stale => h.policy = Over(h.patch, policy)
    /\ h.at = "list" =>
         /\ h.list \in Lists /\ KeysOf(h.list) \subseteq minted /\ h.org \in OrgIds \cap minted
         /\ h.org \notin KeysOf(h.list) => Len(h.list) <= MaxOrgTools
         /\ q \notin stale => \/ h.list = Append(shared, h.org) /\ h.org \notin KeysOf(shared)
                              \/ h.list = Without(shared, h.org)

\* The life of one tool.
ToolInv(t) ==
    /\ t \notin minted => ~There(t) /\ t \notin removed /\ \A e \in Events : <<e, t>> \notin trail
    /\ \A q \in Requests : Opening(q, t) =>
         ~There(t) /\ t \notin removed /\ \A r \in Requests : handler[r].tool = t => r = q
    /\ \A q \in Requests : handler[q].tool = t /\ ~Opening(q, t) => There(t) \/ t \in removed
    /\ Told("oauth_completed", t) => There(t) \/ t \in removed
    /\ t \in removed /\ (There(t) \/ Consenting(t)) => t \in overtaken
    /\ Told("oauth_completed", t) /\ There(t) => connected[t].auth = "connected"
    /\ t \notin failed =>
         /\ There(t) \/ t \in removed <=> Told("connected", t)
         /\ t \in removed <=> Told("disconnected", t)
         /\ There(t) /\ connected[t].provider /\ connected[t].auth = "connected" =>
              Told("oauth_completed", t)

ToolsInv ==
    /\ ToolTypeInv
    /\ \A q \in Requests : Works(handler[q]) /\ Decides(q)
    /\ \A t \in Tools : ToolInv(t)
    /\ PolicyStands

-----------------------------------------------------------------------------
(* Connected tools: what a handler's step leaves alone.                       *)

\* A row is not the mark of a missing one.
LEMMA RowNotGone == \A r \in Row : r # Gone
BY GoneAssumption

\* A free request is about no tool.
LEMMA IdleFacts ==
  /\ Idle \in Handler
  /\ Idle.at = "free" /\ Idle.event = "none" /\ Idle.tool = Gone /\ Idle.row = Gone
  /\ Idle.at \notin OnTools
<1>1. Defaults \in Policy
  BY DEF Defaults, Policy
<1>2. <<>> \in Seq(OrgIds)
  OBVIOUS
<1> QED
  BY <1>1, <1>2 DEF Idle, Handler, Stages, OnTools

OnlyHandler(q) ==
    /\ handler' \in [Requests -> Handler]
    /\ \A r \in Requests \ {q} : handler'[r] = handler[r]

\* A request that moves leaves the others where they are.
LEMMA CarriedOn ==
  ASSUME ToolTypeInv, NEW q \in Requests, NEW h \in Handler, Carry(q, h)
  PROVE  OnlyHandler(q) /\ handler'[q] = h
BY DEF ToolTypeInv, Carry, OnlyHandler

\* What the invariant says of one request.
LEMMA HandlerFacts ==
  ASSUME ToolsInv, NEW q \in Requests
  PROVE  /\ ToolTypeInv /\ handler[q] \in Handler /\ Works(handler[q]) /\ Decides(q)
         /\ handler[q].event \in Events \cup {"none"} /\ handler[q].tool \in Tools \cup {Gone}
         /\ handler[q].row \in Row \cup {Gone} /\ handler[q].at \in Stages
BY DEF ToolsInv, ToolTypeInv, Handler

\* A step that leaves rows, receipts and history of a tool alone keeps its life
\* as long as the handler does not turn to a row that is not there.
LEMMA QuietTool ==
  ASSUME ToolsInv, NEW q \in Requests, NEW t \in Tools, OnlyHandler(q),
         connected'[t] = connected[t], t \in removed' <=> t \in removed,
         t \in overtaken' <=> t \in overtaken, trail' = trail,
         minted \subseteq minted', failed \subseteq failed',
         Opening(q, t)' => Opening(q, t),
         handler'[q].tool = t => There(t) \/ (handler[q].tool = t /\ (Opening(q, t) => Opening(q, t)')),
         \A e \in {"connected", "oauth_completed", "disconnected"} :
            /\ Telling(q, e, t)' => Telling(q, e, t)
            /\ Telling(q, e, t) => Telling(q, e, t)' \/ t \in failed',
         handler'[q].tool = t /\ handler'[q].event = "oauth_completed"
           /\ handler'[q].at \in {"exchange", "save"} => There(t) \/ Consenting(t)
  PROVE  ToolInv(t)'
<1>0. ToolInv(t)
  BY DEF ToolsInv
<1>1. There(t)' <=> There(t)
  BY DEF There
<1>2. \A r \in Requests \ {q} : (Opening(r, t)' <=> Opening(r, t))
  BY DEF OnlyHandler, Opening
<1>3. \A e : \A r \in Requests \ {q} : (Telling(r, e, t)' <=> Telling(r, e, t))
  BY DEF OnlyHandler, Telling
<1>4. \A e \in {"connected", "oauth_completed", "disconnected"} :
         /\ Told(e, t)' => Told(e, t)
         /\ Told(e, t) => Told(e, t)' \/ t \in failed'
  BY <1>3 DEF Told
<1>5. Consenting(t)' => There(t) \/ Consenting(t)
  BY DEF Consenting, OnlyHandler
<1>6. \A r \in Requests \ {q} : handler'[r].tool = t <=> handler[r].tool = t
  BY DEF OnlyHandler
<1>7. t \notin minted' => ~There(t)' /\ t \notin removed' /\ \A e \in Events : <<e, t>> \notin trail'
  BY <1>0, <1>1 DEF ToolInv
<1>8. ASSUME NEW p \in Requests, Opening(p, t)'
      PROVE  ~There(t)' /\ t \notin removed' /\ \A r \in Requests : handler'[r].tool = t => r = p
  <2>1. Opening(p, t)
    BY <1>2, <1>8
  <2>2. ~There(t) /\ t \notin removed /\ \A r \in Requests : handler[r].tool = t => r = p
    BY <1>0, <2>1 DEF ToolInv
  <2> QED
    BY <1>1, <1>6, <2>2
<1>9. ASSUME NEW p \in Requests, handler'[p].tool = t, ~Opening(p, t)'
      PROVE  There(t)' \/ t \in removed'
  <2>1. CASE p = q
    BY <1>0, <1>1, <1>9, <2>1 DEF ToolInv
  <2>2. CASE p # q
    BY <1>0, <1>1, <1>2, <1>6, <1>9, <2>2 DEF ToolInv
  <2> QED
    BY <2>1, <2>2
<1>10. /\ Told("oauth_completed", t)' => There(t)' \/ t \in removed'
       /\ t \in removed' /\ (There(t)' \/ Consenting(t)') => t \in overtaken'
       /\ Told("oauth_completed", t)' /\ There(t)' => connected'[t].auth = "connected"
  BY <1>0, <1>1, <1>4, <1>5 DEF ToolInv
<1>11. t \notin failed' =>
         /\ There(t)' \/ t \in removed' <=> Told("connected", t)'
         /\ t \in removed' <=> Told("disconnected", t)'
         /\ There(t)' /\ connected'[t].provider /\ connected'[t].auth = "connected" =>
              Told("oauth_completed", t)'
  BY <1>0, <1>1, <1>4 DEF ToolInv
<1> QED
  BY <1>7, <1>8, <1>9, <1>10, <1>11 DEF ToolInv

\* A step that changes no policy and no list keeps what administrators decided.
LEMMA StepInv ==
  ASSUME ToolsInv, NEW q \in Requests, OnlyHandler(q),
         UNCHANGED <<policy, shared, asked, listed, cut, mixed>>,
         minted \subseteq minted', minted' \subseteq Tools \cup OrgIds,
         stale \ {q} \subseteq stale', stale' \subseteq Requests,
         connected' \in [Tools -> Row \cup {Gone}], trail' \subseteq Events \X Tools,
         removed' \subseteq Tools, overtaken' \subseteq removed', failed' \subseteq Tools,
         smuggled' \subseteq Tools, BlockHolds',
         Works(handler[q])', Decides(q)', \A t \in Tools : ToolInv(t)'
  PROVE  ToolsInv'
<1>1. ToolTypeInv'
  BY DEF ToolsInv, ToolTypeInv, OnlyHandler, KeysOf
<1>2. ASSUME NEW r \in Requests, r # q
      PROVE  Works(handler[r])' /\ Decides(r)'
  <2>1. Works(handler[r]) /\ Decides(r) /\ handler'[r] = handler[r]
    BY <1>2 DEF ToolsInv, OnlyHandler
  <2>2. Works(handler[r])'
    BY <2>1 DEF Works
  <2>3. r \notin stale' => r \notin stale
    BY <1>2
  <2>4. Decides(r)'
    BY <2>1, <2>3 DEF Decides
  <2> QED
    BY <2>2, <2>4
<1>3. PolicyStands'
  BY DEF ToolsInv, PolicyStands, PatchesStick, AddedIsOffered, Contains
<1> QED
  BY <1>1, <1>2, <1>3 DEF ToolsInv

\* A handler begins to work on a tool that is there.
LEMMA BeginWork ==
  ASSUME ToolsInv, NEW q \in Requests, NEW t \in Tools, There(t), handler[q] = Idle,
         NEW h \in Handler, Carry(q, h), h.tool = t, h.event # "connected",
         h.at \in {"exchange", "delete", "run"}, Works(h),
         UNCHANGED <<connected, policy, shared, minted, trail, rowHistory, orgHistory,
                     smuggled, failed>>
  PROVE  ToolsInv'
<1>1. OnlyHandler(q) /\ handler'[q] = h /\ handler[q].tool = Gone /\ handler[q].at = "free"
  BY HandlerFacts, CarriedOn, IdleFacts
<1>2. UNCHANGED <<connected, policy, shared, minted, trail, removed, overtaken, asked, listed,
                  cut, stale, mixed, smuggled, failed>>
  BY DEF rowHistory, orgHistory
<1>3. ASSUME NEW s \in Tools
      PROVE  ToolInv(s)'
  <2>1. ~Opening(q, s)' /\ \A e : ~Telling(q, e, s)' /\ ~Telling(q, e, s)
    BY <1>1 DEF Opening, Telling
  <2>2. handler'[q].tool = s => There(s)
    BY <1>1
  <2> QED
    BY <1>1, <1>2, <2>1, <2>2, QuietTool
<1>4. Works(handler[q])' /\ Decides(q)'
  BY <1>1, <1>2 DEF Works, Decides
<1>5. BlockHolds'
  BY <1>2 DEF ToolsInv, PolicyStands, BlockHolds
<1> QED
  BY <1>1, <1>2, <1>3, <1>4, <1>5, StepInv DEF ToolsInv, ToolTypeInv

\* A handler ends, before its receipt or on a tool on which a request failed.
LEMMA EndWork ==
  ASSUME ToolsInv, NEW q \in Requests, Free(q),
         handler[q].at # "receipt" \/ handler[q].tool \in failed',
         failed \subseteq failed', failed' \subseteq Tools,
         stale \ {q} \subseteq stale', stale' \subseteq Requests,
         UNCHANGED <<connected, policy, shared, minted, trail, rowHistory, asked, listed, cut,
                     mixed, smuggled>>
  PROVE  ToolsInv'
<1>1. OnlyHandler(q) /\ handler'[q] = Idle /\ handler'[q].tool = Gone /\ handler'[q].at = "free"
  BY HandlerFacts, CarriedOn, IdleFacts DEF Free
<1>2. UNCHANGED <<connected, policy, shared, minted, trail, removed, overtaken, asked, listed,
                  cut, mixed, smuggled>>
  BY DEF rowHistory
<1>3. ASSUME NEW s \in Tools
      PROVE  ToolInv(s)'
  <2>1. ~Opening(q, s)' /\ \A e : ~Telling(q, e, s)' /\ (Telling(q, e, s) => s \in failed')
    BY <1>1 DEF Opening, Telling
  <2>2. handler'[q].tool # s
    BY <1>1, ToolsAssumption
  <2> QED
    BY <1>1, <1>2, <2>1, <2>2, QuietTool
<1>4. Works(handler[q])' /\ Decides(q)'
  BY <1>1, IdleFacts DEF Works, Decides, OnTools
<1>5. BlockHolds'
  BY <1>2 DEF ToolsInv, PolicyStands, BlockHolds
<1> QED
  BY <1>1, <1>2, <1>3, <1>4, <1>5, StepInv DEF ToolsInv, ToolTypeInv

\* A handler goes on with its tool: an org key was found, the provider answered,
\* the connector answered.
LEMMA GoOn ==
  ASSUME ToolsInv, NEW q \in Requests, NEW h \in Handler, Carry(q, h),
         h.tool = handler[q].tool, h.event = handler[q].event, Works(h),
         \/ handler[q].at = "lookup" /\ h.at = "save"
         \/ handler[q].at = "exchange" /\ h.at = "save"
         \/ handler[q].at = "run" /\ h.at = "receipt",
         UNCHANGED <<connected, policy, shared, minted, trail, rowHistory, orgHistory,
                     smuggled, failed>>
  PROVE  ToolsInv'
<1>1. OnlyHandler(q) /\ handler'[q] = h /\ Works(handler[q])
  BY HandlerFacts, CarriedOn
<1>2. UNCHANGED <<connected, policy, shared, minted, trail, removed, overtaken, asked, listed,
                  cut, stale, mixed, smuggled, failed>>
  BY DEF rowHistory, orgHistory
<1>3. ASSUME NEW s \in Tools
      PROVE  ToolInv(s)'
  <2>1. Opening(q, s)' <=> Opening(q, s)
    BY <1>1 DEF Opening, Works
  <2>2. \A e \in {"connected", "oauth_completed", "disconnected"} :
          ~Telling(q, e, s)' /\ ~Telling(q, e, s)
    BY <1>1 DEF Telling, Works
  <2>3. handler'[q].tool = s /\ handler'[q].event = "oauth_completed"
          /\ handler'[q].at \in {"exchange", "save"} => Consenting(s)
    BY <1>1 DEF Works, Consenting
  <2>4. handler'[q].tool = s => handler[q].tool = s
    BY <1>1
  <2> QED
    BY <1>1, <1>2, <2>1, <2>2, <2>3, <2>4, QuietTool
<1>4. Works(handler[q])' /\ Decides(q)'
  BY <1>1, <1>2 DEF Works, Decides
<1>5. BlockHolds'
  BY <1>2 DEF ToolsInv, PolicyStands, BlockHolds
<1> QED
  BY <1>1, <1>2, <1>3, <1>4, <1>5, StepInv DEF ToolsInv, ToolTypeInv

\* An administrator's handler has read the policy or the list.
LEMMA BeginDecision ==
  ASSUME ToolsInv, NEW q \in Requests, NEW h \in Handler, Carry(q, h), handler[q] = Idle,
         h.tool = Gone, h.at \in {"patch", "list"},
         minted \subseteq minted', minted' \subseteq Tools \cup OrgIds, Decides(q)',
         UNCHANGED <<connected, policy, shared, trail, rowHistory, orgHistory, smuggled, failed>>
  PROVE  ToolsInv'
<1>1. OnlyHandler(q) /\ handler'[q] = h /\ handler[q].tool = Gone /\ handler[q].at = "free"
  BY HandlerFacts, CarriedOn, IdleFacts
<1>2. UNCHANGED <<connected, policy, shared, trail, removed, overtaken, asked, listed,
                  cut, stale, mixed, smuggled, failed>>
  BY DEF rowHistory, orgHistory
<1>3. ASSUME NEW s \in Tools
      PROVE  ToolInv(s)'
  <2>1. ~Opening(q, s)' /\ \A e : ~Telling(q, e, s)' /\ ~Telling(q, e, s)
    BY <1>1 DEF Opening, Telling
  <2>2. handler'[q].tool # s
    BY <1>1, ToolsAssumption
  <2> QED
    BY <1>1, <1>2, <2>1, <2>2, QuietTool
<1>4. Works(handler[q])'
  BY <1>1 DEF Works, OnTools
<1>5. BlockHolds'
  BY <1>2 DEF ToolsInv, PolicyStands, BlockHolds
<1> QED
  BY <1>1, <1>2, <1>3, <1>4, <1>5, StepInv DEF ToolsInv, ToolTypeInv

-----------------------------------------------------------------------------
(* Connected tools: the actions.                                              *)

\* The provider calls back for a tool that is there.
LEMMA CompleteOAuthInv ==
  ASSUME ToolsInv, NEW q \in Requests, NEW t \in Tools, CompleteOAuth(q, t)
  PROVE  ToolsInv'
<1> DEFINE h == [Idle EXCEPT !.at = "exchange", !.event = "oauth_completed",
                             !.tool = t, !.row = connected[t]]
<1>1. handler[q] = Idle /\ There(t) /\ connected[t].provider /\ Carry(q, h)
      /\ UNCHANGED <<connected, policy, shared, minted, trail, rowHistory, orgHistory,
                     smuggled, failed>>
  BY DEF CompleteOAuth, There
<1>2. connected[t] \in Row /\ t \in minted
  BY <1>1 DEF ToolsInv, ToolTypeInv, ToolInv, There
<1>3. /\ h \in Handler /\ h.at = "exchange" /\ h.event = "oauth_completed" /\ h.tool = t
      /\ h.row = connected[t]
  BY <1>2, IdleFacts DEF Handler, Stages, Events
<1> HIDE DEF h
<1>4. Works(h)
  BY <1>2, <1>3 DEF Works, OnTools, Events
<1> QED
  BY <1>1, <1>3, <1>4, BeginWork

\* A tool that is there is to go.
LEMMA DisconnectInv ==
  ASSUME ToolsInv, NEW q \in Requests, NEW t \in Tools, Disconnect(q, t)
  PROVE  ToolsInv'
<1> DEFINE h == [Idle EXCEPT !.at = "delete", !.event = "disconnected", !.tool = t]
<1>1. handler[q] = Idle /\ There(t) /\ Carry(q, h)
      /\ UNCHANGED <<connected, policy, shared, minted, trail, rowHistory, orgHistory,
                     smuggled, failed>>
  BY DEF Disconnect, There
<1>2. t \in minted
  BY <1>1 DEF ToolsInv, ToolInv
<1>3. h \in Handler /\ h.at = "delete" /\ h.event = "disconnected" /\ h.tool = t
  BY IdleFacts DEF Handler, Stages, Events
<1> HIDE DEF h
<1>4. Works(h)
  BY <1>2, <1>3 DEF Works, OnTools, Events
<1> QED
  BY <1>1, <1>3, <1>4, BeginWork

\* A tool that is there is called.
LEMMA InvokeInv ==
  ASSUME ToolsInv, NEW q \in Requests, NEW t \in Tools, Invoke(q, t)
  PROVE  ToolsInv'
<1> DEFINE h == [Idle EXCEPT !.at = "run", !.event = "invoked", !.tool = t]
<1>1. handler[q] = Idle /\ There(t) /\ Carry(q, h)
      /\ UNCHANGED <<connected, policy, shared, minted, trail, rowHistory, orgHistory,
                     smuggled, failed>>
  BY DEF Invoke, There
<1>2. t \in minted
  BY <1>1 DEF ToolsInv, ToolInv
<1>3. h \in Handler /\ h.at = "run" /\ h.event = "invoked" /\ h.tool = t
  BY IdleFacts DEF Handler, Stages, Events
<1> HIDE DEF h
<1>4. Works(h)
  BY <1>2, <1>3 DEF Works, OnTools, Events
<1> QED
  BY <1>1, <1>3, <1>4, BeginWork

\* A request fails: its tool is no longer told of in full.
LEMMA AbortInv ==
  ASSUME ToolsInv, NEW q \in Requests, Abort(q)
  PROVE  ToolsInv'
<1>1. /\ failed' = failed \cup ({handler[q].tool} \ {Gone}) /\ stale' = stale \ {q} /\ Free(q)
      /\ UNCHANGED <<connected, policy, shared, minted, trail, rowHistory, asked, smuggled,
                     listed, cut, mixed>>
  BY DEF Abort
<1>2. failed \subseteq Tools /\ stale \subseteq Requests /\ handler[q].tool \in Tools \cup {Gone}
      /\ Works(handler[q])
  BY HandlerFacts DEF ToolTypeInv
<1>3. failed' \subseteq Tools /\ failed \subseteq failed' /\ stale \ {q} \subseteq stale'
      /\ stale' \subseteq Requests
  BY <1>1, <1>2
<1>4. handler[q].at = "receipt" => handler[q].tool \in failed'
  BY <1>1, <1>2, ToolsAssumption DEF Works, OnTools
<1> QED
  BY <1>1, <1>3, <1>4, EndWork

\* A shared tool is looked up, or is no longer offered.
LEMMA LookUpInv ==
  ASSUME ToolsInv, NEW q \in Requests, LookUpOrgTool(q)
  PROVE  ToolsInv'
<1>0. /\ handler[q].at = "lookup" /\ failed \subseteq Tools /\ stale \subseteq Requests
      /\ UNCHANGED <<connected, policy, shared, minted, trail, rowHistory, orgHistory,
                     smuggled, failed>>
  BY HandlerFacts DEF LookUpOrgTool, ToolTypeInv
<1>1. CASE Free(q)
  BY <1>0, <1>1, EndWork DEF orgHistory
<1>2. CASE Carry(q, [handler[q] EXCEPT !.at = "save"])
  <2> DEFINE h == [handler[q] EXCEPT !.at = "save"]
  <2>1. /\ h \in Handler /\ h.at = "save" /\ h.event = handler[q].event
        /\ h.tool = handler[q].tool /\ h.row = handler[q].row
    BY HandlerFacts DEF Handler, Stages
  <2>2. Carry(q, h)
    BY <1>2
  <2> HIDE DEF h
  <2>3. Works(h)
    BY <1>0, <2>1, HandlerFacts DEF Works, OnTools
  <2> QED
    BY <1>0, <2>1, <2>2, <2>3, GoOn
<1> QED
  BY <1>1, <1>2 DEF LookUpOrgTool

\* The provider answers, with or without a token.
LEMMA ExchangeInv ==
  ASSUME ToolsInv, NEW q \in Requests, Exchange(q)
  PROVE  ToolsInv'
<1>0. /\ handler[q].at = "exchange" /\ failed \subseteq Tools /\ stale \subseteq Requests
      /\ UNCHANGED <<connected, policy, shared, minted, trail, rowHistory, orgHistory,
                     smuggled, failed>>
  BY HandlerFacts DEF Exchange, ToolTypeInv
<1>1. CASE Free(q)
  BY <1>0, <1>1, EndWork DEF orgHistory
<1>2. ASSUME NEW got \in BOOLEAN,
             Carry(q, [handler[q] EXCEPT !.at = "save", !.row.auth = "connected",
                                         !.row.token = got])
      PROVE  ToolsInv'
  <2> DEFINE row == [handler[q].row EXCEPT !.auth = "connected", !.token = got]
             h == [handler[q] EXCEPT !.at = "save", !.row = row]
  <2>1. row \in Row /\ row.auth = "connected"
    BY <1>0, HandlerFacts DEF Works, Row
  <2>2. Carry(q, h)
    BY <1>2
  <2> HIDE DEF row
  <2>3. /\ h \in Handler /\ h.at = "save" /\ h.event = handler[q].event
        /\ h.tool = handler[q].tool /\ h.row = row
    BY <2>1, HandlerFacts DEF Handler, Stages
  <2> HIDE DEF h
  <2>4. Works(h)
    BY <1>0, <2>1, <2>3, HandlerFacts DEF Works, OnTools
  <2> QED
    BY <1>0, <2>2, <2>3, <2>4, GoOn
<1> QED
  BY <1>1, <1>2 DEF Exchange

\* The connector answers.
LEMMA RunInv ==
  ASSUME ToolsInv, NEW q \in Requests, Run(q)
  PROVE  ToolsInv'
<1>0. /\ handler[q].at = "run" /\ failed \subseteq Tools /\ stale \subseteq Requests
      /\ UNCHANGED <<connected, policy, shared, minted, trail, rowHistory, orgHistory,
                     smuggled, failed>>
  BY HandlerFacts DEF Run, ToolTypeInv
<1>1. CASE Free(q)
  BY <1>0, <1>1, EndWork DEF orgHistory
<1>2. CASE Carry(q, [handler[q] EXCEPT !.at = "receipt"])
  <2> DEFINE h == [handler[q] EXCEPT !.at = "receipt"]
  <2>1. /\ h \in Handler /\ h.at = "receipt" /\ h.event = handler[q].event
        /\ h.tool = handler[q].tool /\ h.row = handler[q].row
    BY HandlerFacts DEF Handler, Stages
  <2>2. Carry(q, h)
    BY <1>2
  <2> HIDE DEF h
  <2>3. Works(h)
    BY <1>0, <2>1, HandlerFacts DEF Works, OnTools
  <2> QED
    BY <1>0, <2>1, <2>2, <2>3, GoOn
<1> QED
  BY <1>1, <1>2 DEF Run

\* A patch over a policy is a policy.
LEMMA Patched ==
  ASSUME NEW p \in Patches, NEW old \in Policy
  PROVE  Over(p, old) \in Policy
<1>1. p \in [approval : BOOLEAN] \/ p \in [blocked : BlockLists]
      \/ p \in [approval : BOOLEAN, blocked : BlockLists]
  BY DEF Patches
<1>2. old.approval \in BOOLEAN /\ old.blocked \in SUBSET Keys
  BY DEF Policy
<1>3. "approval" \in DOMAIN p => p.approval \in BOOLEAN
  BY <1>1
<1>4. "blocked" \in DOMAIN p => p.blocked \in SUBSET Keys
  BY <1>1, ToolsAssumption
<1> QED
  BY <1>2, <1>3, <1>4 DEF Over, Policy

\* An administrator's patch goes over the policy that was read.
LEMMA SetPolicyInv ==
  ASSUME ToolsInv, NEW q \in Requests, NEW p \in Patches, SetPolicy(q, p)
  PROVE  ToolsInv'
<1> DEFINE next == Over(p, policy)
           h == [Idle EXCEPT !.at = "patch", !.patch = p, !.policy = next]
<1>1. handler[q] = Idle /\ Carry(q, h)
      /\ UNCHANGED <<connected, policy, shared, minted, trail, rowHistory, orgHistory,
                     smuggled, failed>>
  BY DEF SetPolicy
<1>2. next \in Policy /\ minted \subseteq Tools \cup OrgIds
  BY Patched DEF ToolsInv, ToolTypeInv
<1> HIDE DEF next
<1>3. h \in Handler /\ h.at = "patch" /\ h.tool = Gone /\ h.patch = p /\ h.policy = next
  BY <1>2, IdleFacts DEF Handler, Stages
<1> HIDE DEF h
<1>4. handler'[q] = h
  BY <1>1, <1>3, HandlerFacts, CarriedOn
<1>5. Decides(q)'
  BY <1>1, <1>3, <1>4 DEF Decides, next
<1> QED
  BY <1>1, <1>2, <1>3, <1>5, BeginDecision

\* An administrator adds a tool to the list that was read.
LEMMA AddOrgToolInv ==
  ASSUME ToolsInv, NEW q \in Requests, NEW o \in OrgIds, AddOrgTool(q, o)
  PROVE  ToolsInv'
<1> DEFINE next == Append(shared, o)
           h == [Idle EXCEPT !.at = "list", !.org = o, !.list = next]
<1>1. handler[q] = Idle /\ Carry(q, h) /\ o \notin minted /\ minted' = minted \cup {o}
      /\ UNCHANGED <<connected, policy, shared, trail, rowHistory, orgHistory, smuggled, failed>>
  BY DEF AddOrgTool
<1>2. /\ shared \in Lists /\ KeysOf(shared) \subseteq minted /\ minted \subseteq Tools \cup OrgIds
      /\ Len(shared) <= MaxOrgTools
  BY DEF ToolsInv, ToolTypeInv
<1>3. o \notin KeysOf(shared) /\ next \in Lists /\ KeysOf(next) = KeysOf(shared) \cup {o}
  BY <1>1, <1>2, AddedKeys
<1>4. next \in Seq(OrgIds)
  BY <1>3 DEF Lists
<1> HIDE DEF next
<1>5. h \in Handler /\ h.at = "list" /\ h.tool = Gone /\ h.org = o /\ h.list = next
  BY <1>4, IdleFacts DEF Handler, Stages
<1> HIDE DEF h
<1>6. handler'[q] = h
  BY <1>1, <1>5, HandlerFacts, CarriedOn
<1>7. Decides(q)'
  BY <1>1, <1>2, <1>3, <1>5, <1>6 DEF Decides, next
<1>8. minted \subseteq minted' /\ minted' \subseteq Tools \cup OrgIds
  BY <1>1, <1>2
<1> QED
  BY <1>1, <1>5, <1>7, <1>8, BeginDecision

\* An administrator takes a tool from the list that was read.
LEMMA RemoveOrgToolInv ==
  ASSUME ToolsInv, NEW q \in Requests, NEW o \in OrgIds, RemoveOrgTool(q, o)
  PROVE  ToolsInv'
<1> DEFINE next == Without(shared, o)
           h == [Idle EXCEPT !.at = "list", !.org = o, !.list = next]
<1>1. handler[q] = Idle /\ Carry(q, h) /\ o \in minted
      /\ UNCHANGED <<connected, policy, shared, minted, trail, rowHistory, orgHistory,
                     smuggled, failed>>
  BY DEF RemoveOrgTool
<1>2. /\ shared \in Lists /\ KeysOf(shared) \subseteq minted /\ minted \subseteq Tools \cup OrgIds
      /\ Len(shared) <= MaxOrgTools /\ Len(shared) \in Nat
  BY DEF ToolsInv, ToolTypeInv, Lists
<1>3. /\ next \in Lists /\ KeysOf(next) = KeysOf(shared) \ {o} /\ Len(next) <= Len(shared)
  BY <1>2, RemovedKeys
<1>4. next \in Seq(OrgIds) /\ Len(next) <= MaxOrgTools
  <2> HIDE DEF next
  <2>1. next \in Seq(OrgIds)
    BY <1>3 DEF Lists
  <2>2. Len(next) \in Nat
    BY <2>1
  <2> QED
    BY <1>2, <1>3, <2>1, <2>2, ToolsAssumption
<1> HIDE DEF next
<1>5. h \in Handler /\ h.at = "list" /\ h.tool = Gone /\ h.org = o /\ h.list = next
  BY <1>4, IdleFacts DEF Handler, Stages
<1> HIDE DEF h
<1>6. handler'[q] = h
  BY <1>1, <1>5, HandlerFacts, CarriedOn
<1>7. Decides(q)'
  BY <1>1, <1>2, <1>3, <1>4, <1>5, <1>6 DEF Decides, next
<1> QED
  BY <1>1, <1>2, <1>5, <1>7, BeginDecision

\* A tool that is not minted yet is unknown to every handler and to the trail.
LEMMA Unminted ==
  ASSUME ToolsInv, NEW t \in Tools, t \notin minted
  PROVE  /\ ~There(t) /\ t \notin removed /\ \A e \in Events : <<e, t>> \notin trail
         /\ \A r \in Requests : handler[r].tool # t
<1>1. ToolInv(t)
  BY DEF ToolsInv
<1>2. ASSUME NEW r \in Requests
      PROVE  handler[r].tool # t
  BY HandlerFacts, ToolsAssumption DEF Works
<1> QED
  BY <1>1, <1>2 DEF ToolInv

\* A tool gets its id: nobody knows it and no receipt tells of it.
LEMMA ConnectInv ==
  ASSUME ToolsInv, NEW q \in Requests, NEW t \in Tools, NEW k \in Keys, Connect(q, t, k)
  PROVE  ToolsInv'
<1>1. handler[q] = Idle /\ t \notin minted /\ k \notin policy.blocked
      /\ minted' = minted \cup {t}
      /\ smuggled' = (IF k \in asked.blocked THEN smuggled \cup {t} ELSE smuggled)
      /\ UNCHANGED <<connected, policy, shared, trail, rowHistory, orgHistory, failed>>
  BY DEF Connect, BeginConnect
<1>2. UNCHANGED <<connected, policy, shared, trail, removed, overtaken, asked, listed, cut,
                  stale, mixed, failed>>
  BY <1>1 DEF rowHistory, orgHistory
<1> DEFINE stage == IF k \in OrgIds THEN "lookup" ELSE "save"
<1>3. PICK row \in FreshRows(k) :
        Carry(q, [Idle EXCEPT !.at = stage, !.event = "connected", !.tool = t, !.row = row])
  BY DEF Connect, BeginConnect
<1>4. row \in Row /\ (row.provider => row.auth = "pending")
  <2>1. PICK consent \in BOOLEAN :
          row = [key |-> k, auth |-> IF consent THEN "pending" ELSE "connected",
                 provider |-> consent, token |-> FALSE]
    BY DEF FreshRows
  <2>2. CASE consent
    BY <2>1, <2>2 DEF Row
  <2>3. CASE ~consent
    BY <2>1, <2>3 DEF Row
  <2> QED
    BY <2>2, <2>3
<1> DEFINE h == [Idle EXCEPT !.at = stage, !.event = "connected", !.tool = t, !.row = row]
<1>5. /\ h \in Handler /\ h.at = stage /\ h.event = "connected" /\ h.tool = t /\ h.row = row
      /\ stage \in {"lookup", "save"}
  BY <1>4, IdleFacts DEF Handler, Stages, Events
<1>6. Carry(q, h)
  BY <1>3
<1> HIDE DEF h, stage
<1>7. OnlyHandler(q) /\ handler'[q] = h /\ handler[q].tool = Gone /\ handler[q].at = "free"
  BY <1>1, <1>5, <1>6, HandlerFacts, CarriedOn, IdleFacts
<1>8. /\ ~There(t) /\ t \notin removed /\ (\A e \in Events : <<e, t>> \notin trail)
      /\ \A r \in Requests : handler[r].tool # t
  BY <1>1, Unminted
<1>9. ToolInv(t)'
  <2>1. ~There(t)' /\ t \notin removed' /\ \A e \in Events : <<e, t>> \notin trail'
    BY <1>2, <1>8 DEF There
  <2>2. \A r \in Requests : handler'[r].tool = t => r = q
    BY <1>7, <1>8 DEF OnlyHandler
  <2>3. Opening(q, t)'
    BY <1>5, <1>7 DEF Opening
  <2>4. \A e : ~Telling(q, e, t)'
    BY <1>5, <1>7 DEF Telling
  <2>5. \A e \in Events : ~Told(e, t)'
    BY <2>1, <2>2, <2>4 DEF Told, Telling
  <2>6. \A r \in Requests : Opening(r, t)' => r = q
    BY <2>2 DEF Opening
  <2>7. t \in minted'
    BY <1>1
  <2> QED
    BY <2>1, <2>2, <2>3, <2>5, <2>6, <2>7 DEF ToolInv, Events
<1>10. ASSUME NEW s \in Tools, s # t
       PROVE  ToolInv(s)'
  <2>1. ~Opening(q, s)' /\ \A e : ~Telling(q, e, s)' /\ ~Telling(q, e, s)
    BY <1>5, <1>7, <1>10 DEF Opening, Telling
  <2>2. handler'[q].tool # s /\ minted \subseteq minted'
    BY <1>1, <1>5, <1>7, <1>10
  <2> QED
    BY <1>2, <1>7, <2>1, <2>2, QuietTool
<1>11. Works(handler[q])' /\ Decides(q)'
  BY <1>1, <1>4, <1>5, <1>7 DEF Works, Decides, OnTools, Events
<1>12. BlockHolds'
  BY <1>1, <1>2 DEF ToolsInv, PolicyStands, BlockHolds, PatchesStick
<1>13. /\ ToolTypeInv /\ minted \subseteq minted' /\ minted' \subseteq Tools \cup OrgIds
       /\ smuggled' \subseteq Tools
  BY <1>1 DEF ToolsInv, ToolTypeInv
<1>14. \A s \in Tools : ToolInv(s)'
  BY <1>9, <1>10
<1> QED
  BY <1>2, <1>7, <1>11, <1>12, <1>13, <1>14, StepInv DEF ToolTypeInv

\* A handler at its receipt moves what it tells to the trail.
LEMMA ReceiptInv ==
  ASSUME ToolsInv, NEW q \in Requests, Receipt(q)
  PROVE  ToolsInv'
<1> DEFINE t == handler[q].tool
           e == handler[q].event
<1>1. /\ handler[q].at = "receipt" /\ trail' = trail \cup {<<e, t>>} /\ Free(q)
      /\ UNCHANGED <<connected, policy, shared, minted, removed, overtaken, asked, listed, cut,
                     stale, mixed, smuggled, failed>>
  BY DEF Receipt, rowHistory, orgHistory
<1>2. OnlyHandler(q) /\ handler'[q] = Idle /\ handler'[q].tool = Gone /\ handler'[q].at = "free"
  BY <1>1, HandlerFacts, CarriedOn, IdleFacts DEF Free
<1>3. t \in Tools /\ t \in minted /\ e \in Events \cup {"none"} /\ ToolTypeInv
  BY <1>1, HandlerFacts DEF Works, OnTools
<1>4. ASSUME NEW s \in Tools
      PROVE  ToolInv(s)'
  <2>0. ToolInv(s)
    BY DEF ToolsInv
  <2>1. \A r \in Requests \ {q} : (Opening(r, s)' <=> Opening(r, s))
                                  /\ \A x : Telling(r, x, s)' <=> Telling(r, x, s)
    BY <1>2 DEF OnlyHandler, Opening, Telling
  <2>2. ~Opening(q, s)' /\ ~Opening(q, s) /\ \A x : ~Telling(q, x, s)'
    BY <1>1, <1>2 DEF Opening, Telling
  <2>3. \A x : Telling(q, x, s) <=> x = e /\ s = t
    BY <1>1 DEF Telling
  <2>4. \A x : <<x, s>> \in trail' <=> <<x, s>> \in trail \/ (x = e /\ s = t)
    BY <1>1
  <2>5. \A x : Told(x, s)' <=> Told(x, s)
    BY <2>1, <2>2, <2>3, <2>4 DEF Told
  <2>6. (There(s)' <=> There(s)) /\ (Consenting(s)' => Consenting(s))
    BY <1>1, <1>2 DEF There, Consenting, OnlyHandler
  <2>7. \A r \in Requests : handler'[r].tool = s => handler[r].tool = s /\ r # q
    BY <1>2, ToolsAssumption DEF OnlyHandler
  <2>8. s \notin minted' => ~There(s)' /\ s \notin removed' /\ \A x \in Events : <<x, s>> \notin trail'
    BY <1>1, <1>3, <2>0, <2>4, <2>6 DEF ToolInv
  <2>9. ASSUME NEW p \in Requests, Opening(p, s)'
        PROVE  ~There(s)' /\ s \notin removed' /\ \A r \in Requests : handler'[r].tool = s => r = p
    <3>1. Opening(p, s)
      BY <2>1, <2>2, <2>9
    <3> QED
      BY <1>1, <2>0, <2>6, <2>7, <3>1 DEF ToolInv
  <2>10. ASSUME NEW p \in Requests, handler'[p].tool = s, ~Opening(p, s)'
         PROVE  There(s)' \/ s \in removed'
    <3>1. handler[p].tool = s /\ ~Opening(p, s)
      BY <2>1, <2>7, <2>10
    <3> QED
      BY <1>1, <2>0, <2>6, <3>1 DEF ToolInv
  <2>11. /\ Told("oauth_completed", s)' => There(s)' \/ s \in removed'
         /\ s \in removed' /\ (There(s)' \/ Consenting(s)') => s \in overtaken'
         /\ Told("oauth_completed", s)' /\ There(s)' => connected'[s].auth = "connected"
         /\ s \notin failed' =>
             /\ There(s)' \/ s \in removed' <=> Told("connected", s)'
             /\ s \in removed' <=> Told("disconnected", s)'
             /\ There(s)' /\ connected'[s].provider /\ connected'[s].auth = "connected" =>
                  Told("oauth_completed", s)'
    BY <1>1, <2>0, <2>5, <2>6 DEF ToolInv
  <2> QED
    BY <2>8, <2>9, <2>10, <2>11 DEF ToolInv
<1>5. Works(handler[q])' /\ Decides(q)'
  BY <1>2, IdleFacts DEF Works, Decides, OnTools
<1>6. BlockHolds'
  BY <1>1 DEF ToolsInv, PolicyStands, BlockHolds
<1>7. trail' \subseteq Events \X Tools
  <2>1. e \in Events
    BY <1>1, HandlerFacts DEF Works, OnTools
  <2> QED
    BY <1>1, <1>3, <2>1 DEF ToolTypeInv
<1> QED
  BY <1>1, <1>2, <1>3, <1>4, <1>5, <1>6, <1>7, StepInv DEF ToolTypeInv

\* A handler that saves or deletes a row goes to its receipt.
LEMMA ToReceipt ==
  ASSUME ToolsInv, NEW q \in Requests, NEW h \in Handler, Carry(q, h),
         handler[q].at \in {"save", "delete"}, h.at = "receipt",
         h.tool = handler[q].tool, h.event = handler[q].event, trail' = trail
  PROVE  /\ OnlyHandler(q) /\ handler'[q] = h /\ Works(handler[q]) /\ ToolTypeInv
         /\ handler[q].tool \in Tools /\ ToolInv(handler[q].tool)
         /\ \A s \in Tools :
              /\ \A r \in Requests \ {q} :
                   /\ Opening(r, s)' <=> Opening(r, s)
                   /\ handler'[r] = handler[r]
              /\ ~Opening(q, s)' /\ (Consenting(s)' => Consenting(s))
              /\ \A e : Told(e, s)' <=> Told(e, s) \/ (e = handler[q].event /\ s = handler[q].tool)
<1>1. OnlyHandler(q) /\ handler'[q] = h /\ Works(handler[q]) /\ ToolTypeInv
  BY HandlerFacts, CarriedOn
<1>2. handler[q].tool \in Tools
  BY <1>1 DEF Works, OnTools
<1>3. ToolInv(handler[q].tool)
  BY <1>2 DEF ToolsInv
<1>4. ASSUME NEW s \in Tools
      PROVE  /\ \A r \in Requests \ {q} : (Opening(r, s)' <=> Opening(r, s)) /\ handler'[r] = handler[r]
             /\ ~Opening(q, s)' /\ (Consenting(s)' => Consenting(s))
             /\ \A e : Told(e, s)' <=> Told(e, s) \/ (e = handler[q].event /\ s = handler[q].tool)
  <2>1. \A r \in Requests \ {q} : handler'[r] = handler[r]
    BY <1>1 DEF OnlyHandler
  <2>2. \A r \in Requests \ {q} : (Opening(r, s)' <=> Opening(r, s))
    BY <2>1 DEF Opening
  <2>3. ~Opening(q, s)' /\ (Consenting(s)' => Consenting(s))
    BY <1>1, <2>1 DEF Opening, Consenting
  <2>4. \A e : \A r \in Requests \ {q} : Telling(r, e, s)' <=> Telling(r, e, s)
    BY <2>1 DEF Telling
  <2>5. \A e : ~Telling(q, e, s) /\ (Telling(q, e, s)' <=> e = handler[q].event /\ s = handler[q].tool)
    BY <1>1 DEF Telling
  <2>6. \A e : Told(e, s)' <=> Told(e, s) \/ (e = handler[q].event /\ s = handler[q].tool)
    BY <2>4, <2>5 DEF Told
  <2> QED
    BY <2>1, <2>2, <2>3, <2>6
<1> QED
  BY <1>1, <1>2, <1>3, <1>4

\* The tools that the handler is not at.
LEMMA OtherTools ==
  ASSUME ToolsInv, NEW q \in Requests, NEW h \in Handler, Carry(q, h),
         handler[q].at \in {"save", "delete"}, h.at = "receipt",
         h.tool = handler[q].tool, h.event = handler[q].event,
         NEW s \in Tools, s # handler[q].tool,
         connected'[s] = connected[s], s \in removed' <=> s \in removed,
         s \in overtaken' <=> s \in overtaken, UNCHANGED <<trail, minted, failed>>
  PROVE  ToolInv(s)'
<1>1. OnlyHandler(q) /\ handler'[q] = h
  BY ToReceipt
<1>2. ~Opening(q, s)' /\ \A e : ~Telling(q, e, s)' /\ ~Telling(q, e, s)
  BY <1>1 DEF Opening, Telling
<1>3. handler'[q].tool # s
  BY <1>1
<1> QED
  BY <1>1, <1>2, <1>3, QuietTool

\* The row is saved: a new tool is there, a signed-in one is connected, also over a row that
\* was deleted in between.
LEMMA SaveToolInv ==
  ASSUME ToolsInv, NEW q \in Requests, SaveTool(q)
  PROVE  ToolsInv'
<1>0. handler[q].tool \in Tools
  BY HandlerFacts DEF SaveTool, Works, OnTools
<1> PICK t \in Tools : t = handler[q].tool
  BY <1>0
<1> DEFINE row == handler[q].row
           h == [handler[q] EXCEPT !.at = "receipt", !.row = Gone]
<1>1. /\ handler[q].at = "save" /\ connected' = [connected EXCEPT ![t] = row] /\ Carry(q, h)
      /\ UNCHANGED <<policy, shared, minted, trail, removed, overtaken, asked, listed, cut,
                     stale, mixed, smuggled, failed>>
  BY DEF SaveTool, rowHistory, orgHistory
<1>2. h \in Handler /\ h.at = "receipt" /\ h.tool = t /\ h.event = handler[q].event
  BY HandlerFacts DEF Handler, Stages
<1> HIDE DEF h
<1>3. /\ OnlyHandler(q) /\ handler'[q] = h /\ Works(handler[q]) /\ ToolTypeInv
      /\ t \in Tools /\ ToolInv(t)
  BY <1>1, <1>2, ToReceipt
<1>4. /\ \A r \in Requests \ {q} : (Opening(r, t)' <=> Opening(r, t)) /\ handler'[r] = handler[r]
      /\ ~Opening(q, t)' /\ (Consenting(t)' => Consenting(t))
      /\ \A e : Told(e, t)' <=> Told(e, t) \/ e = handler[q].event
  BY <1>1, <1>2, <1>3, ToReceipt
<1>5. t \in minted /\ row \in Row /\ row # Gone /\ handler[q].event \in {"connected", "oauth_completed"}
  BY <1>1, <1>3, RowNotGone DEF Works, OnTools
<1>6. /\ connected' \in [Tools -> Row \cup {Gone}]
      /\ connected'[t] = row /\ \A s \in Tools \ {t} : connected'[s] = connected[s]
  BY <1>1, <1>3, <1>5 DEF ToolTypeInv
<1>7. There(t)'
  BY <1>5, <1>6 DEF There
<1>8. ASSUME NEW s \in Tools, s # t
      PROVE  ToolInv(s)'
  BY <1>1, <1>2, <1>6, <1>8, OtherTools
<1>9. ASSUME handler[q].event = "connected"
      PROVE  ToolInv(t)'
  <2>1. Opening(q, t)
    BY <1>1, <1>9 DEF Opening
  <2>2. /\ ~There(t) /\ t \notin removed /\ (\A r \in Requests : handler[r].tool = t => r = q)
        /\ ~Told("oauth_completed", t)
        /\ (t \notin failed => ~Told("connected", t) /\ ~Told("disconnected", t))
    BY <1>3, <2>1 DEF ToolInv
  <2>3. \A r \in Requests : ~Opening(r, t)'
    BY <1>4, <2>2 DEF Opening
  <2>4. row.provider => row.auth = "pending"
    BY <1>1, <1>3, <1>9 DEF Works
  <2>5. /\ ~Told("oauth_completed", t)' /\ Told("connected", t)'
        /\ (t \notin failed => ~Told("disconnected", t)')
    BY <1>4, <1>9, <2>2
  <2>6. t \notin removed' /\ t \in minted' /\ (failed' = failed)
        /\ ~(connected'[t].provider /\ connected'[t].auth = "connected")
    BY <1>1, <1>5, <1>6, <2>2, <2>4
  <2> QED
    BY <1>7, <2>2, <2>3, <2>5, <2>6 DEF ToolInv
<1>10. ASSUME handler[q].event = "oauth_completed"
       PROVE  ToolInv(t)'
  <2>1. ~Opening(q, t) /\ Consenting(t)
    BY <1>1, <1>10 DEF Opening, Consenting
  <2>2. There(t) \/ t \in removed
    BY <1>3, <2>1 DEF ToolInv
  <2>3. t \in removed => t \in overtaken
    BY <1>3, <2>1 DEF ToolInv
  <2>4. \A r \in Requests : ~Opening(r, t)'
    <3> SUFFICES ASSUME NEW r \in Requests, Opening(r, t)'  PROVE FALSE
      OBVIOUS
    <3>1. r # q /\ Opening(r, t)
      BY <1>4
    <3> QED
      BY <1>3, <3>1 DEF ToolInv
  <2>5. row.auth = "connected"
    BY <1>1, <1>3, <1>10 DEF Works
  <2>6. /\ Told("oauth_completed", t)' /\ (Told("connected", t)' <=> Told("connected", t))
        /\ (Told("disconnected", t)' <=> Told("disconnected", t))
    BY <1>4, <1>10
  <2>7. t \notin failed => Told("connected", t) /\ (t \in removed <=> Told("disconnected", t))
    BY <1>3, <2>2 DEF ToolInv
  <2>8. /\ t \in minted' /\ failed' = failed /\ connected'[t].auth = "connected"
        /\ (t \in removed' <=> t \in removed) /\ (t \in overtaken' <=> t \in overtaken)
    BY <1>1, <1>5, <1>6, <2>5
  <2> QED
    BY <1>7, <2>3, <2>4, <2>6, <2>7, <2>8 DEF ToolInv
<1>11. Works(handler[q])' /\ Decides(q)'
  BY <1>1, <1>2, <1>3, <1>5 DEF Works, Decides, OnTools, Events
<1>12. BlockHolds' /\ \A s \in Tools : ToolInv(s)'
  BY <1>1, <1>5, <1>8, <1>9, <1>10 DEF ToolsInv, PolicyStands, BlockHolds
<1> QED
  BY <1>1, <1>3, <1>6, <1>11, <1>12, StepInv DEF ToolTypeInv

\* The row is deleted; a sign-in under way may bring it back.
LEMMA DeleteInv ==
  ASSUME ToolsInv, NEW q \in Requests, Delete(q)
  PROVE  ToolsInv'
<1>0. handler[q].tool \in Tools
  BY HandlerFacts DEF Delete, Works, OnTools
<1> PICK t \in Tools : t = handler[q].tool
  BY <1>0
<1> DEFINE h == [handler[q] EXCEPT !.at = "receipt"]
<1>1. /\ handler[q].at = "delete" /\ connected' = [connected EXCEPT ![t] = Gone] /\ Carry(q, h)
      /\ removed' = removed \cup {t}
      /\ overtaken' = (IF Consenting(t) THEN overtaken \cup {t} ELSE overtaken)
      /\ UNCHANGED <<policy, shared, minted, trail, asked, listed, cut,
                     stale, mixed, smuggled, failed>>
  BY DEF Delete, orgHistory
<1>2. h \in Handler /\ h.at = "receipt" /\ h.tool = t /\ h.event = handler[q].event
  BY HandlerFacts DEF Handler, Stages
<1> HIDE DEF h
<1>3. /\ OnlyHandler(q) /\ handler'[q] = h /\ Works(handler[q]) /\ ToolTypeInv
      /\ t \in Tools /\ ToolInv(t)
  BY <1>1, <1>2, ToReceipt
<1>4. /\ \A r \in Requests \ {q} : (Opening(r, t)' <=> Opening(r, t)) /\ handler'[r] = handler[r]
      /\ ~Opening(q, t)' /\ (Consenting(t)' => Consenting(t))
      /\ \A e : Told(e, t)' <=> Told(e, t) \/ e = handler[q].event
  BY <1>1, <1>2, <1>3, ToReceipt
<1>5. t \in minted /\ handler[q].event = "disconnected"
  BY <1>1, <1>3 DEF Works, OnTools
<1>6. /\ connected' \in [Tools -> Row \cup {Gone}]
      /\ connected'[t] = Gone /\ \A s \in Tools \ {t} : connected'[s] = connected[s]
  BY <1>1, <1>3 DEF ToolTypeInv
<1>7. /\ ~There(t)' /\ t \in removed' /\ (Consenting(t)' => t \in overtaken')
      /\ removed' \subseteq Tools /\ overtaken' \subseteq removed'
  BY <1>1, <1>3, <1>4, <1>6 DEF There, ToolTypeInv
<1>8. ASSUME NEW s \in Tools, s # t
      PROVE  ToolInv(s)'
  <2>1. (s \in removed' <=> s \in removed) /\ (s \in overtaken' <=> s \in overtaken)
    BY <1>1, <1>8
  <2> QED
    BY <1>1, <1>2, <1>6, <1>8, <2>1, OtherTools
<1>9. ToolInv(t)'
  <2>1. ~Opening(q, t)
    BY <1>1 DEF Opening
  <2>2. \A r \in Requests : ~Opening(r, t)'
    <3> SUFFICES ASSUME NEW r \in Requests, Opening(r, t)'  PROVE FALSE
      OBVIOUS
    <3>1. r # q /\ Opening(r, t)
      BY <1>4
    <3> QED
      BY <1>3, <3>1 DEF ToolInv
  <2>3. There(t) \/ t \in removed
    BY <1>3, <2>1 DEF ToolInv
  <2>4. /\ (Told("connected", t)' <=> Told("connected", t)) /\ Told("disconnected", t)'
    BY <1>4, <1>5
  <2>5. t \notin failed => Told("connected", t)
    BY <1>3, <2>3 DEF ToolInv
  <2> QED
    BY <1>1, <1>5, <1>7, <2>2, <2>4, <2>5 DEF ToolInv
<1>10. Works(handler[q])' /\ Decides(q)'
  BY <1>1, <1>2, <1>3, <1>5 DEF Works, Decides, OnTools, Events
<1>11. BlockHolds' /\ \A s \in Tools : ToolInv(s)'
  BY <1>1, <1>8, <1>9 DEF ToolsInv, PolicyStands, BlockHolds
<1> QED
  BY <1>1, <1>3, <1>6, <1>7, <1>10, <1>11, StepInv DEF ToolTypeInv

\* What a saving handler leaves to the others: their copies are out of date.
LEMMA Overtaken ==
  ASSUME ToolsInv, NEW q \in Requests, NEW what \in {"policy", "list"}, NEW stage \in {"patch", "list"},
         Overtake(q, stage, what)
  PROVE  /\ stale' \subseteq Requests /\ mixed' \subseteq {"policy", "list"} /\ mixed \subseteq mixed'
         /\ mixed' \subseteq mixed \cup {what} /\ (what \notin mixed' => q \notin stale)
         /\ \A r \in Requests \ {q} : /\ r \in stale => r \in stale'
                                      /\ handler[r].at = stage => r \in stale'
BY DEF Overtake, ToolsInv, ToolTypeInv

\* The saving handler's tool is none, so no tool's life changes.
LEMMA DecisionMade ==
  ASSUME ToolsInv, NEW q \in Requests, Free(q), handler[q].at \in {"patch", "list"},
         UNCHANGED <<connected, minted, trail, removed, overtaken, failed>>
  PROVE  /\ OnlyHandler(q) /\ handler'[q] = Idle /\ Works(handler[q])' /\ Decides(q)'
         /\ ToolTypeInv /\ (\A t \in Tools : ToolInv(t)')
         /\ \A r \in Requests \ {q} : Works(handler[r])' /\ handler'[r] = handler[r]
<1>1. /\ OnlyHandler(q) /\ handler'[q] = Idle /\ handler'[q].tool = Gone /\ handler'[q].at = "free"
      /\ ToolTypeInv
  BY HandlerFacts, CarriedOn, IdleFacts DEF Free
<1>2. ASSUME NEW t \in Tools
      PROVE  ToolInv(t)'
  <2>1. ~Opening(q, t)' /\ \A e : ~Telling(q, e, t)' /\ ~Telling(q, e, t)
    BY <1>1 DEF Opening, Telling
  <2>2. handler'[q].tool # t
    BY <1>1, ToolsAssumption
  <2> QED
    BY <1>1, <2>1, <2>2, QuietTool
<1>3. Works(handler[q])' /\ Decides(q)'
  BY <1>1, IdleFacts DEF Works, Decides, OnTools
<1>4. \A r \in Requests \ {q} : Works(handler[r])' /\ handler'[r] = handler[r]
  BY <1>1 DEF OnlyHandler, Works, ToolsInv
<1> QED
  BY <1>1, <1>2, <1>3, <1>4

\* A copy of the policy is saved: in date it is the one in force with the patch over it, and
\* if not the policy counts as mixed.
LEMMA SavePolicyInv ==
  ASSUME ToolsInv, NEW q \in Requests, SavePolicy(q)
  PROVE  ToolsInv'
<1> DEFINE p == handler[q].patch
<1>1. /\ handler[q].at = "patch" /\ policy' = handler[q].policy /\ asked' = Over(p, asked)
      /\ Overtake(q, "patch", "policy") /\ Free(q)
      /\ UNCHANGED <<connected, shared, minted, trail, removed, overtaken, smuggled, listed,
                     cut, failed>>
  BY DEF SavePolicy, rowHistory
<1>2. /\ OnlyHandler(q) /\ Works(handler[q])' /\ Decides(q)'
      /\ ToolTypeInv /\ (\A t \in Tools : ToolInv(t)')
      /\ \A r \in Requests \ {q} : Works(handler[r])' /\ handler'[r] = handler[r]
  BY <1>1, DecisionMade
<1>3. /\ p \in Patches /\ handler[q].policy \in Policy
      /\ (q \notin stale => handler[q].policy = Over(p, policy))
  BY <1>1, HandlerFacts DEF Decides, Handler
<1>4. policy' \in Policy /\ asked' \in Policy
  BY <1>1, <1>2, <1>3, Patched DEF ToolTypeInv
<1>5. /\ stale' \subseteq Requests /\ mixed' \subseteq {"policy", "list"} /\ mixed \subseteq mixed'
      /\ mixed' \subseteq mixed \cup {"policy"} /\ ("policy" \notin mixed' => q \notin stale)
      /\ \A r \in Requests \ {q} : /\ r \in stale => r \in stale'
                                   /\ handler[r].at = "patch" => r \in stale'
  BY <1>1, Overtaken
<1>6. ToolTypeInv'
  BY <1>1, <1>2, <1>4, <1>5 DEF ToolTypeInv, OnlyHandler, KeysOf
<1>7. ASSUME NEW r \in Requests, r # q
      PROVE  Decides(r)'
  <2>1. Decides(r) /\ handler'[r] = handler[r]
    BY <1>2, <1>7 DEF ToolsInv
  <2>2. handler[r].at = "patch" => r \in stale'
    BY <1>5, <1>7
  <2>3. r \notin stale' => r \notin stale
    BY <1>5, <1>7
  <2> QED
    BY <1>1, <2>1, <2>2, <2>3 DEF Decides
<1>8. PatchesStick' /\ BlockHolds'
  BY <1>1, <1>3, <1>5 DEF ToolsInv, PolicyStands, PatchesStick, BlockHolds
<1>9. AddedIsOffered'
  <2>1. "list" \in mixed' => "list" \in mixed
    BY <1>5
  <2> QED
    BY <1>1, <1>5, <2>1 DEF ToolsInv, PolicyStands, AddedIsOffered, Contains
<1> QED
  BY <1>2, <1>6, <1>7, <1>8, <1>9 DEF ToolsInv, PolicyStands

\* A copy of the list is saved, cut to its length: in date it is the list in force with the
\* one change asked for.
LEMMA SaveListInv ==
  ASSUME ToolsInv, NEW q \in Requests, SaveList(q)
  PROVE  ToolsInv'
<1>0. handler[q].at = "list" /\ Decides(q)
  BY HandlerFacts DEF SaveList
<1> PICK l \in Lists, o \in OrgIds : l = handler[q].list /\ o = handler[q].org
  BY <1>0 DEF Decides
<1> DEFINE adds == Contains(l, o)
<1>1. /\ shared' = (IF adds THEN Kept(l) ELSE l)
      /\ listed' = (IF adds THEN listed \cup {o} ELSE listed \ {o})
      /\ cut' = (IF adds /\ Len(l) > MaxOrgTools THEN cut \cup {o} ELSE cut)
      /\ Overtake(q, "list", "list") /\ Free(q)
      /\ UNCHANGED <<connected, policy, minted, trail, removed, overtaken, asked, smuggled, failed>>
  BY DEF SaveList, rowHistory
<1>2. /\ OnlyHandler(q) /\ Works(handler[q])' /\ Decides(q)'
      /\ ToolTypeInv /\ (\A t \in Tools : ToolInv(t)')
      /\ \A r \in Requests \ {q} : Works(handler[r])' /\ handler'[r] = handler[r]
  BY <1>0, <1>1, DecisionMade
<1>3. /\ adds <=> o \in KeysOf(l)
      /\ KeysOf(l) \subseteq minted /\ o \in minted
      /\ (~adds => Len(l) <= MaxOrgTools)
      /\ (q \notin stale => \/ l = Append(shared, o) /\ o \notin KeysOf(shared)
                            \/ l = Without(shared, o))
  <2>1. adds <=> o \in KeysOf(l)
    BY ContainsKey DEF Lists
  <2> QED
    BY <1>0, <2>1 DEF Decides
<1>4. /\ Kept(l) \in Lists /\ KeysOf(Kept(l)) \subseteq KeysOf(l) /\ Len(Kept(l)) <= MaxOrgTools
  BY KeptKeys, ToolsAssumption
<1> HIDE DEF adds
<1>5. /\ stale' \subseteq Requests /\ mixed' \subseteq {"policy", "list"} /\ mixed \subseteq mixed'
      /\ mixed' \subseteq mixed \cup {"list"} /\ ("list" \notin mixed' => q \notin stale)
      /\ \A r \in Requests \ {q} : /\ r \in stale => r \in stale'
                                   /\ handler[r].at = "list" => r \in stale'
  BY <1>1, Overtaken
<1>6. shared' \in Lists /\ Len(shared') <= MaxOrgTools /\ KeysOf(shared') \subseteq minted
  <2>1. CASE adds
    BY <1>1, <1>3, <1>4, <2>1
  <2>2. CASE ~adds
    BY <1>1, <1>3, <2>2
  <2> QED
    BY <2>1, <2>2
<1>7. ToolTypeInv'
  <2>1. KeysOf(shared)' = KeysOf(shared')
    BY DEF KeysOf
  <2>2. listed' \subseteq OrgIds /\ cut' \subseteq OrgIds
    BY <1>1, <1>2 DEF ToolTypeInv
  <2> QED
    BY <1>1, <1>2, <1>5, <1>6, <2>1, <2>2 DEF ToolTypeInv, OnlyHandler
<1>8. ASSUME NEW r \in Requests, r # q
      PROVE  Decides(r)'
  <2>1. Decides(r) /\ handler'[r] = handler[r]
    BY <1>2, <1>8 DEF ToolsInv
  <2>2. handler[r].at = "list" => r \in stale'
    BY <1>5, <1>8
  <2>3. r \notin stale' => r \notin stale
    BY <1>5, <1>8
  <2> QED
    BY <1>1, <2>1, <2>2, <2>3 DEF Decides, KeysOf
<1>9. PatchesStick' /\ BlockHolds'
  <2>1. "policy" \in mixed' => "policy" \in mixed
    BY <1>5
  <2> QED
    BY <1>1, <1>5, <2>1 DEF ToolsInv, PolicyStands, PatchesStick, BlockHolds
<1>10. AddedIsOffered'
  <2> SUFFICES ASSUME "list" \notin mixed'
               PROVE  KeysOf(shared') \subseteq listed' /\ listed' \ cut' \subseteq KeysOf(shared')
    <3>1. shared' \in Seq(OrgIds)
      BY <1>6 DEF Lists
    <3>2. \A x : Contains(shared', x) <=> x \in KeysOf(shared')
      BY <3>1, ContainsKey
    <3>3. (\A x : Contains(shared, x)' <=> Contains(shared', x)) /\ KeysOf(shared)' = KeysOf(shared')
      BY DEF Contains, KeysOf
    <3> QED
      BY <3>2, <3>3 DEF AddedIsOffered, KeysOf
  <2>1. q \notin stale /\ "list" \notin mixed
    BY <1>5
  <2>2. /\ shared \in Lists /\ shared \in Seq(OrgIds) /\ Len(shared) <= MaxOrgTools
    BY <1>2 DEF ToolTypeInv, Lists
  <2>3. KeysOf(shared) \subseteq listed /\ listed \ cut \subseteq KeysOf(shared)
    <3>1. \A x : Contains(shared, x) <=> x \in KeysOf(shared)
      BY <2>2, ContainsKey
    <3> QED
      BY <2>1, <3>1 DEF ToolsInv, PolicyStands, AddedIsOffered, KeysOf
  <2>4. CASE l = Append(shared, o) /\ o \notin KeysOf(shared)
    <3>1. KeysOf(l) = KeysOf(shared) \cup {o} /\ adds
      BY <1>3, <2>2, <2>4, AddedKeys
    <3>2. CASE Len(l) > MaxOrgTools
      <4>1. shared' = shared
        BY <1>1, <2>2, <2>4, <3>1, <3>2, FullList, ToolsAssumption
      <4> QED
        BY <1>1, <2>3, <3>1, <3>2, <4>1
    <3>3. CASE ~(Len(l) > MaxOrgTools)
      <4>1. shared' = l
        BY <1>1, <3>1, <3>3 DEF Kept
      <4> QED
        BY <1>1, <2>3, <3>1, <3>3, <4>1
    <3> QED
      BY <3>2, <3>3
  <2>5. CASE l = Without(shared, o)
    <3>1. KeysOf(l) = KeysOf(shared) \ {o}
      BY <2>2, <2>5, RemovedKeys
    <3>2. ~adds
      BY <1>3, <3>1
    <3> QED
      BY <1>1, <2>3, <3>1, <3>2
  <2> QED
    BY <1>3, <2>1, <2>4, <2>5
<1> QED
  BY <1>2, <1>7, <1>8, <1>9, <1>10 DEF ToolsInv, PolicyStands

-----------------------------------------------------------------------------
(* Connected tools: the specification.                                        *)

\* The invariant holds when nothing is connected.
LEMMA ToolsStart == ToolsInit => ToolsInv
<1> SUFFICES ASSUME ToolsInit  PROVE ToolsInv
  OBVIOUS
<1>1. /\ <<>> \in Lists /\ KeysOf(<<>>) = {} /\ Len(<<>>) = 0 /\ \A x : ~Contains(<<>>, x)
  BY DEF Lists, KeysOf, IsInjective, Contains
<1>2. Defaults \in Policy
  BY DEF Defaults, Policy
<1>3. ToolTypeInv
  BY <1>1, <1>2, IdleFacts, ToolsAssumption DEF ToolsInit, ToolTypeInv
<1>4. \A q \in Requests : Works(handler[q]) /\ Decides(q)
  BY IdleFacts DEF ToolsInit, Works, Decides, OnTools
<1>5. ASSUME NEW t \in Tools
      PROVE  ToolInv(t)
  <2>1. /\ ~There(t) /\ t \notin removed /\ trail = {}
        /\ \A q \in Requests : handler[q].tool # t
    BY IdleFacts, ToolsAssumption DEF ToolsInit, There
  <2> QED
    BY <2>1 DEF ToolInv, Opening, Told, Telling, Consenting
<1>6. PolicyStands
  BY <1>1 DEF ToolsInit, PolicyStands, BlockHolds, PatchesStick, AddedIsOffered, KeysOf
<1> QED
  BY <1>3, <1>4, <1>5, <1>6 DEF ToolsInv

\* Every step keeps it.
LEMMA ToolsStep == ToolsInv /\ [ToolsNext]_toolVars => ToolsInv'
<1> SUFFICES ASSUME ToolsInv, [ToolsNext]_toolVars  PROVE ToolsInv'
  OBVIOUS
<1>1. ASSUME NEW q \in Requests, OnTool(q)
      PROVE  ToolsInv'
  BY <1>1, ConnectInv, CompleteOAuthInv, DisconnectInv, InvokeInv DEF OnTool
<1>2. ASSUME NEW q \in Requests, OnOrganisation(q)
      PROVE  ToolsInv'
  BY <1>2, SetPolicyInv, AddOrgToolInv, RemoveOrgToolInv DEF OnOrganisation
<1>3. ASSUME NEW q \in Requests, Continue(q)
      PROVE  ToolsInv'
  BY <1>3, LookUpInv, SaveToolInv, ReceiptInv, ExchangeInv, DeleteInv, RunInv, SavePolicyInv,
     SaveListInv DEF Continue
<1>4. ASSUME NEW q \in Requests, Abort(q)
      PROVE  ToolsInv'
  BY <1>4, AbortInv
<1>5. CASE UNCHANGED toolVars
  <2>1. /\ UNCHANGED <<connected, policy, shared, minted, handler, trail, removed, overtaken, asked,
                       smuggled, listed, cut, stale, mixed, failed>>
    BY <1>5 DEF toolVars
  <2>2. ToolTypeInv' /\ PolicyStands'
    BY <2>1 DEF ToolsInv, ToolTypeInv, KeysOf, PolicyStands, BlockHolds, PatchesStick,
                AddedIsOffered, Contains
  <2>3. \A q \in Requests : Works(handler[q])' /\ Decides(q)'
    BY <2>1 DEF ToolsInv, Works, Decides, KeysOf
  <2>4. ASSUME NEW t \in Tools
        PROVE  ToolInv(t)'
    BY <2>1 DEF ToolsInv, ToolInv, There, Told, Telling, Opening, Consenting
  <2> QED
    BY <2>2, <2>3, <2>4 DEF ToolsInv
<1> QED
  BY <1>1, <1>2, <1>3, <1>4, <1>5 DEF ToolsNext

\* It says that rows are told and that the policy stands.
LEMMA ToolsTold == ToolsInv => RowsAreTold /\ PolicyStands
<1> SUFFICES ASSUME ToolsInv  PROVE RowsAreTold /\ PolicyStands
  OBVIOUS
<1>1. ToolsTypeOK
  <2>1. \A q \in Requests :
          LET h == handler[q] IN
          /\ h.at \in Stages /\ h.event \in Events \cup {"none"}
          /\ h.tool \in Tools \cup {Gone} /\ h.row \in Row \cup {Gone}
          /\ h.patch \in Patches \cup {<<>>} /\ h.policy \in Policy
          /\ h.list \in Seq(OrgIds) /\ h.org \in OrgIds \cup {Gone}
    BY HandlerFacts DEF Handler
  <2>2. shared \in Seq(OrgIds) /\ IsInjective(shared)
    BY DEF ToolsInv, ToolTypeInv, Lists
  <2> QED
    BY <2>1, <2>2 DEF ToolsInv, ToolTypeInv, ToolsTypeOK
<1>2. GoneStaysGone
  <2> SUFFICES ASSUME NEW t \in removed, connected[t] # Gone  PROVE t \in overtaken
    BY DEF GoneStaysGone
  <2>1. t \in Tools
    BY DEF ToolsInv, ToolTypeInv
  <2> QED
    BY <2>1 DEF ToolsInv, ToolInv, There
<1>3. TrailTellsRows
  <2> SUFFICES ASSUME NEW t \in (minted \cap Tools) \ failed,
                      \A q \in Requests : handler[q].tool # t
               PROVE  /\ t \notin overtaken =>
                           (connected[t] # Gone
                              <=> <<"connected", t>> \in trail /\ <<"disconnected", t>> \notin trail)
                      /\ connected[t] # Gone /\ connected[t].provider =>
                           (connected[t].auth = "connected" <=> <<"oauth_completed", t>> \in trail)
    BY DEF TrailTellsRows
  <2>1. \A e : Told(e, t) <=> <<e, t>> \in trail
    BY DEF Told, Telling
  <2>2. ToolInv(t)
    BY DEF ToolsInv
  <2> QED
    BY <2>1, <2>2 DEF ToolInv, There
<1> QED
  BY <1>1, <1>2, <1>3 DEF RowsAreTold, ToolsInv

\* A tool's row and its receipts tell the same, whoever connects, signs in and disconnects
\* at the same time; a tool that was removed comes back only by a sign-in that overtook it.
THEOREM RowsAreToldAlways == ToolsSpec => []RowsAreTold
<1>1. ToolsSpec => []ToolsInv
  BY ToolsStart, ToolsStep, PTL DEF ToolsSpec
<1> QED
  BY <1>1, ToolsTold, PTL

\* The policy in force and the shared tools are what the administrators asked for, unless
\* two of them saved copies of one state.
THEOREM PolicyStandsAlways == ToolsSpec => []PolicyStands
<1>1. ToolsSpec => []ToolsInv
  BY ToolsStart, ToolsStep, PTL DEF ToolsSpec
<1> QED
  BY <1>1, ToolsTold, PTL

-----------------------------------------------------------------------------
(* The gate: the tables.                                                     *)

\* The names in the tables of the built-in connectors.
LEMMA TableNames ==
  /\ DOMAIN WebConnectors = {"web_read", "http_json"}
  /\ DOMAIN MicrosoftConnectors = {"outlook_mail", "outlook_calendar", "onedrive", "excel"}
  /\ DOMAIN OtherConnectors = {"sharepoint_kb", "remedy", "servicenow", "sql_read", "webhook"}
BY DEF WebConnectors, MicrosoftConnectors, OtherConnectors

\* The names of all built-in connectors.
LEMMA BuiltInNames ==
  DOMAIN BuiltIn = {"web_read", "http_json", "outlook_mail", "outlook_calendar", "onedrive", "excel",
                    "sharepoint_kb", "remedy", "servicenow", "sql_read", "webhook"}
BY TableNames DEF BuiltIn, BuiltInKeys

\* No cloud app has the name of a built-in connector.
LEMMA NoBuiltInApp == DOMAIN BuiltIn \cap CloudApps = {}
BY BuiltInNames DEF CloudApps

\* A connector has an action, and serves what it declares.
Whole(c) == c.reads \cup c.writes = c.served /\ c.served # {}

\* Every built-in connector is whole.
LEMMA PartsAreWhole ==
  /\ Whole(Connector("", {"fetch"}, {}, {"fetch"})) /\ Whole(Connector("", {"get"}, {}, {"get"}))
  /\ Whole(OutlookMail) /\ \A a : Whole(GraphConnector(a))
  /\ Whole(KnowledgeBase) /\ Whole(Remedy) /\ Whole(ServiceNow) /\ Whole(SqlRead) /\ Whole(Webhook)
<1>1. Whole(Connector("", {"fetch"}, {}, {"fetch"})) /\ Whole(Connector("", {"get"}, {}, {"get"}))
  BY DEF Whole, Connector
<1>2. Whole(OutlookMail)
  BY DEF Whole, Connector, OutlookMail
<1>3. \A a : Whole(GraphConnector(a))
  BY DEF Whole, Connector, GraphConnector
<1>4. Whole(KnowledgeBase)
  BY DEF Whole, Connector, KnowledgeBase
<1>5. Whole(Remedy) /\ Whole(ServiceNow)
  BY DEF Whole, Connector, Remedy, ServiceNow
<1>6. Whole(SqlRead)
  BY DEF Whole, Connector, SqlRead
<1>7. Whole(Webhook)
  BY DEF Whole, Connector, Webhook
<1> QED
  BY <1>1, <1>2, <1>3, <1>4, <1>5, <1>6, <1>7

\* So is what the registry has under a built-in name.
LEMMA BuiltInServes ==
  ASSUME NEW k \in DOMAIN BuiltIn
  PROVE  Whole(BuiltIn[k])
<1>0. k \in BuiltInKeys
  BY DEF BuiltIn
<1>1. CASE k \in {"web_read", "http_json"}
  <2>1. BuiltIn[k] = WebConnectors[k]
    BY <1>0, <1>1, TableNames DEF BuiltIn
  <2>2. /\ WebConnectors["web_read"] = Connector("", {"fetch"}, {}, {"fetch"})
        /\ WebConnectors["http_json"] = Connector("", {"get"}, {}, {"get"})
    BY DEF WebConnectors
  <2> QED
    BY <1>1, <2>1, <2>2, PartsAreWhole
<1>2. CASE k \in {"outlook_mail", "outlook_calendar", "onedrive", "excel"}
  <2>1. BuiltIn[k] = MicrosoftConnectors[k]
    BY <1>0, <1>2, TableNames DEF BuiltIn
  <2>2. /\ MicrosoftConnectors["outlook_mail"] = OutlookMail
        /\ MicrosoftConnectors["outlook_calendar"] = GraphConnector("upcoming")
        /\ MicrosoftConnectors["onedrive"] = GraphConnector("recent")
        /\ MicrosoftConnectors["excel"] = GraphConnector("read")
    BY DEF MicrosoftConnectors
  <2> QED
    BY <1>2, <2>1, <2>2, PartsAreWhole
<1>3. CASE k \in {"sharepoint_kb", "remedy", "servicenow", "sql_read", "webhook"}
  <2>1. BuiltIn[k] = OtherConnectors[k]
    BY <1>0, <1>3, TableNames DEF BuiltIn
  <2>2. /\ OtherConnectors["sharepoint_kb"] = KnowledgeBase
        /\ OtherConnectors["remedy"] = Remedy /\ OtherConnectors["servicenow"] = ServiceNow
        /\ OtherConnectors["sql_read"] = SqlRead /\ OtherConnectors["webhook"] = Webhook
    BY DEF OtherConnectors
  <2> QED
    BY <1>3, <2>1, <2>2, PartsAreWhole
<1> QED
  BY <1>1, <1>2, <1>3, BuiltInNames

\* What a role's setup suggests is in the catalog.
LEMMA SuggestionsAreCatalogued ==
  BasicTools \cup UNION {RoleTools[d] : d \in DOMAIN RoleTools} \subseteq DOMAIN Registry
<1>1. DOMAIN Registry = DOMAIN BuiltIn \cup CloudApps
  BY DEF Registry
<1>2. BasicTools \subseteq DOMAIN Registry
  BY <1>1, BuiltInNames DEF BasicTools, CloudApps
<1>3. ASSUME NEW d \in DOMAIN RoleTools
      PROVE  RoleTools[d] \subseteq DOMAIN Registry
  <2>1. d \in {"product", "engineering", "design", "marketing", "sales", "operations", "research",
                 "data", "finance", "legal", "support", "content", "it_ops"}
    BY DEF RoleTools
  <2> QED
    BY <1>1, <2>1, BuiltInNames DEF RoleTools, CloudApps
<1> QED
  BY <1>2, <1>3

\* The catalog is sound.
LEMMA CatalogHolds == CatalogIsSound
<1>1. ASSUME NEW k \in DOMAIN Registry
      PROVE  LET declared == Registry[k].reads \cup Registry[k].writes
             IN  IF k \in CloudApps \ OpenPath THEN declared = Registry[k].served \cup {"open"}
                 ELSE declared = Registry[k].served
  <2>1. CASE k \in DOMAIN BuiltIn
    <3>1. Registry[k] = BuiltIn[k] /\ k \notin CloudApps
      BY <2>1, NoBuiltInApp DEF Registry
    <3> QED
      BY <2>1, <3>1, BuiltInServes DEF Whole
  <2>2. CASE k \notin DOMAIN BuiltIn
    <3>1. Registry[k] = CloudConnector(k) /\ k \in CloudApps
      BY <1>1, <2>2 DEF Registry
    <3>2. /\ CloudConnector(k).reads = {"list", "open"} \cup PathsOf(ReadPath, k)
          /\ CloudConnector(k).writes = PathsOf(WritePath, k)
          /\ CloudConnector(k).served = {"list"} \cup (IF k \in OpenPath THEN {"open"} ELSE {})
                       \cup PathsOf(ReadPath, k) \cup PathsOf(WritePath, k)
      BY DEF Connector, CloudConnector
    <3> QED
      BY <3>1, <3>2
  <2> QED
    BY <2>1, <2>2
<1> QED
  BY <1>1, SuggestionsAreCatalogued DEF CatalogIsSound

-----------------------------------------------------------------------------
(* The gate: a connected tool.                                               *)

\* A row the service writes: a custom or a cloud tool has a specification, any other
\* the name of a built-in connector, and an account only from a sign-in.
WiredInv(t) ==
    /\ t.spec \/ t.key \in DOMAIN BuiltIn
    /\ ~t.spec => (t.account => BuiltIn[t.key].needs = "microsoft")

\* A specification answers "list".
LEMMA ListIsRead ==
  ASSUME NEW t, t.spec, NEW force
  PROVE  Route(t, "list", force) # "refused"
<1>1. "list" \notin PathsOf(WritePath, t.key)
  BY DEF PathsOf, WritePath
<1>2. SpecRoute(t, "list", force) = "read"
  BY <1>1 DEF SpecRoute, CustomRoute
<1> QED
  BY <1>2 DEF Route

\* A declared action of a built-in tool is refused for the sign-in or the settings only.
LEMMA DeclaredIsRouted ==
  ASSUME NEW t, ~t.spec, t.key \in DOMAIN BuiltIn,
         NEW a \in BuiltIn[t.key].reads \cup BuiltIn[t.key].writes
  PROVE  Route(t, a, FALSE) = "refused"
         <=> \/ BuiltIn[t.key].needs = "microsoft" /\ ~t.account
             \/ BuiltIn[t.key].needs \notin Configured \cup {"microsoft"} /\ ~t.bridge
<1>1. Declares(t.key, a)
  BY DEF Declares, Registry
<1> QED
  BY <1>1 DEF Route

\* Rows that the service writes are usable.
LEMMA WiredIsUsable ==
  ASSUME \A s \in Slots : wired[s] # NoTool => WiredInv(wired[s])
  PROVE  ConnectedIsUsable
<1> SUFFICES ASSUME NEW t, WiredInv(t)
             PROVE  LET acts == IF t.spec THEN {"list"} ELSE BuiltIn[t.key].reads \cup BuiltIn[t.key].writes
                        some == \E a \in acts : Route(t, a, FALSE) # "refused"
                    IN  IF t.spec \/ BuiltIn[t.key].needs # "microsoft"
                        THEN some \/ (~t.bridge /\ BuiltIn[t.key].needs \notin Configured)
                        ELSE some <=> t.account
  BY DEF ConnectedIsUsable
<1>1. CASE t.spec
  BY <1>1, ListIsRead
<1>2. CASE ~t.spec
  <2>1. t.key \in DOMAIN BuiltIn
    BY <1>2 DEF WiredInv
  <2>2. PICK a \in BuiltIn[t.key].reads \cup BuiltIn[t.key].writes : TRUE
    BY <2>1, BuiltInServes DEF Whole
  <2>3. ASSUME NEW b \in BuiltIn[t.key].reads \cup BuiltIn[t.key].writes
        PROVE  Route(t, b, FALSE) = "refused"
               <=> \/ BuiltIn[t.key].needs = "microsoft" /\ ~t.account
                   \/ BuiltIn[t.key].needs \notin Configured \cup {"microsoft"} /\ ~t.bridge
    BY <1>2, <2>1, <2>3, DeclaredIsRouted
  <2>4. "microsoft" \notin Configured
    BY DEF Configured
  <2> QED
    BY <1>2, <2>2, <2>3, <2>4
<1> QED
  BY <1>1, <1>2

-----------------------------------------------------------------------------
(* The gate: the inductive invariant.                                        *)

Rows == [key : GateKeys, spec : BOOLEAN, bridge : BOOLEAN, account : BOOLEAN, opens : BOOLEAN]

\* The calls that got out by each way and their receipts.
Receipts ==
    /\ log.invoked = reached.read + reached.direct + reached.cloud
    /\ log.direct = reached.cloud
    /\ log.executed = reached.approved
    /\ log.ssh = reached.command

WiredOK ==
    /\ wired \in [Slots -> Rows \cup {NoTool}]
    /\ \A s \in Slots : wired[s] # NoTool => WiredInv(wired[s])

CountOK == reached \in [Ways -> Nat] /\ log \in [Entries -> Nat] /\ Receipts

GateInv ==
    /\ WiredOK /\ CountOK
    /\ posture \in [force : BOOLEAN, terminal : BOOLEAN]
    /\ ForcedIsFiled

\* A forced write takes no way out.
LEMMA ForcedStaysIn ==
  ASSUME NEW t, NEW a
  PROVE  Route(t, a, TRUE) \notin {"direct", "cloud"}
<1>1. SpecRoute(t, a, TRUE) \in {"file", "read", "refused"}
  BY DEF SpecRoute, CustomRoute
<1>2. CASE t.spec
  BY <1>1, <1>2 DEF Route
<1>3. CASE ~t.spec
  BY <1>3 DEF Route
<1> QED
  BY <1>2, <1>3

\* One more call gets out by a way.
LEMMA GoesOutFacts ==
  ASSUME CountOK, NEW way \in Ways, GoesOut(way)
  PROVE  /\ reached' \in [Ways -> Nat] /\ reached'[way] = reached[way] + 1
         /\ \A w \in Ways \ {way} : reached'[w] = reached[w]
         /\ \A w \in Ways : reached[w] \in Nat
BY DEF GoesOut, CountOK

\* A new row is one the service writes.
LEMMA WireToolInv ==
  ASSUME GateInv, NEW s \in Slots, NEW k \in GateKeys, NEW b \in BOOLEAN, NEW o \in BOOLEAN,
         WireTool(s, k, b, o)
  PROVE  WiredOK'
<1> USE DEF GateInv, WiredOK
<1>1. ASSUME NEW t \in Rows, WiredInv(t), wired' = [wired EXCEPT ![s] = t]
      PROVE  WiredOK'
  BY <1>1 DEF WiredInv
<1>2. CASE k \in CloudApps /\ wired' = [wired EXCEPT ![s] = Tool(k, TRUE, FALSE, TRUE, k \in OpenPath)]
  <2>1. Tool(k, TRUE, FALSE, TRUE, k \in OpenPath) \in Rows
        /\ Tool(k, TRUE, FALSE, TRUE, k \in OpenPath).spec = TRUE
    BY DEF Tool, Rows
  <2> QED
    BY <1>1, <1>2, <2>1 DEF WiredInv
<1>3. CASE k = "custom" /\ wired' = [wired EXCEPT ![s] = CustomTool(b, o)]
  <2>1. CustomTool(b, o) \in Rows /\ CustomTool(b, o).spec = TRUE
    BY <1>3 DEF CustomTool, Tool, Rows
  <2> QED
    BY <1>1, <1>3, <2>1 DEF WiredInv
<1>4. CASE k \in DOMAIN BuiltIn /\ wired' = [wired EXCEPT ![s] = Tool(k, FALSE, b, FALSE, FALSE)]
  <2>1. LET t == Tool(k, FALSE, b, FALSE, FALSE)
        IN  t \in Rows /\ t.key = k /\ t.account = FALSE
    BY DEF Tool, Rows
  <2> QED
    BY <1>1, <1>4, <2>1 DEF WiredInv
<1> QED
  BY <1>2, <1>3, <1>4 DEF WireTool

\* A row that got its account is one the service writes.
LEMMA SignInToolInv ==
  ASSUME GateInv, NEW s \in Slots, SignInTool(s)
  PROVE  WiredOK'
<1>1. PICK t \in Rows : t = wired[s] /\ t.key \in DOMAIN BuiltIn /\ BuiltIn[t.key].needs = "microsoft"
  BY DEF GateInv, WiredOK, SignInTool
<1> DEFINE u == [t EXCEPT !.account = TRUE]
<1>2. wired' = [wired EXCEPT ![s] = u]
  BY <1>1 DEF SignInTool
<1>3. u \in Rows /\ u.key = t.key
  BY DEF Rows
<1> HIDE DEF u
<1>4. WiredInv(u)
  BY <1>1, <1>3 DEF WiredInv
<1> QED
  BY <1>2, <1>3, <1>4 DEF GateInv, WiredOK, WiredInv

\* A call is receipted by the way it took, and no forced write takes one.
LEMMA CallToolInv ==
  ASSUME GateInv, NEW s \in Slots, NEW a, CallTool(s, a)
  PROVE  CountOK' /\ ForcedIsFiled'
<1> PICK way \in {"file", "read", "direct", "cloud"} : way = Route(wired[s], a, posture.force)
  BY DEF CallTool
<1>1. CASE way = "file"
  BY <1>1 DEF CallTool, GateInv, CountOK, Receipts, ForcedIsFiled
<1>2. CASE way # "file"
  <2>1. /\ way \in {"read", "direct", "cloud"} /\ GoesOut(way)
        /\ log' = [log EXCEPT !.invoked = @ + 1, !.direct = IF way = "cloud" THEN @ + 1 ELSE @]
        /\ slipped' = IF way # "read" /\ posture.force THEN slipped \cup {<<s, a>>} ELSE slipped
    BY <1>2 DEF CallTool
  <2>2. way \in Ways
    BY <2>1 DEF Ways
  <2>3. CountOK
    BY DEF GateInv
  <2>4. log \in [Entries -> Nat] /\ {"invoked", "direct", "executed", "failed", "ssh"} = Entries
    BY <2>3 DEF CountOK, Entries
  <2>5. /\ log' \in [Entries -> Nat] /\ log'.invoked = log.invoked + 1
        /\ log'.direct = (IF way = "cloud" THEN log.direct + 1 ELSE log.direct)
        /\ log'.executed = log.executed /\ log'.ssh = log.ssh
    <3> DEFINE n == IF way = "cloud" THEN log.direct + 1 ELSE log.direct
    <3>1. log.direct \in Nat /\ log.invoked \in Nat /\ n \in Nat
      BY <2>4
    <3>2. log' = [log EXCEPT !.invoked = log.invoked + 1, !.direct = n]
      BY <2>1, <2>4
    <3> HIDE DEF n
    <3>4. \A e \in Entries : log'[e] = IF e = "direct" THEN n
                                       ELSE IF e = "invoked" THEN log.invoked + 1 ELSE log[e]
      BY <2>4, <3>2
    <3>5. log' \in [Entries -> Nat]
      <4> DEFINE first == [log EXCEPT !.invoked = log.invoked + 1]
      <4>1. first \in [Entries -> Nat] /\ log' = [first EXCEPT !.direct = n]
        BY <2>4, <3>1, <3>2
      <4> HIDE DEF first
      <4> QED
        BY <2>4, <3>1, <4>1
    <3>3. /\ log' \in [Entries -> Nat] /\ log'.invoked = log.invoked + 1 /\ log'.direct = n
          /\ log'.executed = log.executed /\ log'.ssh = log.ssh
      BY <2>4, <3>4, <3>5
    <3> QED
      BY <3>3 DEF n
  <2>6. CountOK'
    BY <2>1, <2>2, <2>3, <2>4, <2>5, GoesOutFacts DEF CountOK, Receipts, Ways
  <2>7. ForcedIsFiled'
    <3>1. posture.force \in BOOLEAN /\ slipped = {}
      BY DEF GateInv, ForcedIsFiled
    <3>2. posture.force = TRUE => way = "read"
      BY <2>1, ForcedStaysIn
    <3> QED
      BY <2>1, <3>1, <3>2 DEF ForcedIsFiled
  <2> QED
    BY <2>6, <2>7
<1> QED
  BY <1>1, <1>2

\* An approved write is receipted as executed or as failed.
LEMMA SettleFiledInv ==
  ASSUME GateInv, NEW s, NEW a, SettleFiled(s, a)
  PROVE  CountOK'
<1>1. \/ GoesOut("approved") /\ log' = [log EXCEPT !.executed = @ + 1]
      \/ log' = [log EXCEPT !.failed = @ + 1] /\ reached' = reached
  BY DEF SettleFiled
<1>2. CountOK /\ log \in [Entries -> Nat] /\ {"invoked", "direct", "executed", "failed", "ssh"} = Entries
  BY DEF GateInv, CountOK, Entries
<1>3. CASE GoesOut("approved") /\ log' = [log EXCEPT !.executed = @ + 1]
  <2>1. /\ log' \in [Entries -> Nat] /\ log'.executed = log.executed + 1
        /\ log'.invoked = log.invoked /\ log'.direct = log.direct /\ log'.ssh = log.ssh
    BY <1>2, <1>3
  <2>2. "approved" \in Ways
    BY DEF Ways
  <2> QED
    BY <1>2, <1>3, <2>1, <2>2, GoesOutFacts DEF CountOK, Receipts, Ways
<1>4. CASE log' = [log EXCEPT !.failed = @ + 1] /\ reached' = reached
  <2>1. /\ log' \in [Entries -> Nat] /\ log'.executed = log.executed
        /\ log'.invoked = log.invoked /\ log'.direct = log.direct /\ log'.ssh = log.ssh
    BY <1>2, <1>4
  <2> QED
    BY <1>2, <1>4, <2>1 DEF CountOK, Receipts
<1> QED
  BY <1>1, <1>3, <1>4

\* A command is receipted as such.
LEMMA RunCommandInv ==
  ASSUME GateInv, NEW command, RunCommand(command)
  PROVE  CountOK'
<1>1. GoesOut("command") /\ log' = [log EXCEPT !.ssh = @ + 1]
  BY DEF RunCommand
<1>2. CountOK /\ log \in [Entries -> Nat] /\ {"invoked", "direct", "executed", "failed", "ssh"} = Entries
  BY DEF GateInv, CountOK, Entries
<1>3. /\ log' \in [Entries -> Nat] /\ log'.ssh = log.ssh + 1
      /\ log'.invoked = log.invoked /\ log'.direct = log.direct /\ log'.executed = log.executed
  BY <1>1, <1>2
<1>4. "command" \in Ways
  BY DEF Ways
<1> QED
  BY <1>1, <1>2, <1>3, <1>4, GoesOutFacts DEF CountOK, Receipts, Ways

\* A preview leaves no receipt, and none is asked for.
LEMMA PreviewInv ==
  ASSUME GateInv, Preview
  PROVE  CountOK'
<1>1. GoesOut("preview") /\ log' = log /\ CountOK
  BY DEF Preview, GateInv
<1>2. "preview" \in Ways
  BY DEF Ways
<1> QED
  BY <1>1, <1>2, GoesOutFacts DEF CountOK, Receipts, Ways

\* The invariant of the gate holds when nothing is wired.
LEMMA GateStart == GateInit => GateInv
<1> SUFFICES ASSUME GateInit PROVE GateInv
  OBVIOUS
<1>1. WiredOK
  BY DEF GateInit, WiredOK
<1>2. CountOK
  BY DEF GateInit, CountOK, Receipts, Ways, Entries
<1> QED
  BY <1>1, <1>2 DEF GateInit, GateInv, ForcedIsFiled

\* Every step keeps it.
LEMMA GateStep == GateInv /\ [GateNext]_gateVars => GateInv'
<1> SUFFICES ASSUME GateInv, [GateNext]_gateVars PROVE GateInv'
  OBVIOUS
<1>1. ASSUME UNCHANGED <<reached, log>> PROVE CountOK'
  BY <1>1 DEF GateInv, CountOK, Receipts
<1>2. ASSUME UNCHANGED wired PROVE WiredOK'
  BY <1>2 DEF GateInv, WiredOK, WiredInv
<1>3. ASSUME UNCHANGED slipped PROVE ForcedIsFiled'
  BY <1>3 DEF GateInv, ForcedIsFiled
<1>4. ASSUME UNCHANGED posture PROVE posture' \in [force : BOOLEAN, terminal : BOOLEAN]
  BY <1>4 DEF GateInv
<1>5. ASSUME NEW s \in Slots, NEW k \in GateKeys, NEW b \in BOOLEAN, NEW o \in BOOLEAN,
             WireTool(s, k, b, o)
      PROVE  GateInv'
  BY <1>1, <1>3, <1>4, <1>5, WireToolInv DEF WireTool, GateInv
<1>6. ASSUME NEW s \in Slots, SignInTool(s)
      PROVE  GateInv'
  BY <1>1, <1>3, <1>4, <1>6, SignInToolInv DEF SignInTool, GateInv
<1>7. ASSUME NEW s \in Slots, Unwire(s)
      PROVE  GateInv'
  <2>1. WiredOK'
    BY <1>7 DEF Unwire, GateInv, WiredOK, WiredInv
  <2> QED
    BY <1>1, <1>3, <1>4, <1>7, <2>1 DEF Unwire, GateInv
<1>8. ASSUME NEW s \in Slots, NEW a, CallTool(s, a)
      PROVE  GateInv'
  BY <1>2, <1>4, <1>8, CallToolInv DEF CallTool, GateInv
<1>9. ASSUME NEW s \in Slots, NEW a, SettleFiled(s, a)
      PROVE  GateInv'
  BY <1>2, <1>3, <1>4, <1>9, SettleFiledInv DEF SettleFiled, GateInv
<1>10. ASSUME NEW command, RunCommand(command)
       PROVE  GateInv'
  BY <1>2, <1>3, <1>4, <1>10, RunCommandInv DEF RunCommand, GateInv
<1>11. CASE Preview
  BY <1>2, <1>3, <1>4, <1>11, PreviewInv DEF Preview, GateInv
<1>12. ASSUME NEW p \in [force : BOOLEAN, terminal : BOOLEAN], SetPosture(p)
       PROVE  GateInv'
  BY <1>1, <1>2, <1>3, <1>12 DEF SetPosture, GateInv
<1>13. ASSUME NEW e, Redeploy(e)
       PROVE  GateInv'
  BY <1>1, <1>2, <1>3, <1>4, <1>13 DEF Redeploy, GateInv
<1>14. ASSUME NEW on, Halt(on)
       PROVE  GateInv'
  BY <1>1, <1>2, <1>3, <1>4, <1>14 DEF Halt, GateInv
<1>15. CASE UNCHANGED gateVars
  BY <1>1, <1>2, <1>3, <1>4, <1>15 DEF gateVars, GateInv
<1> QED
  BY <1>5, <1>6, <1>7, <1>8, <1>9, <1>10, <1>11, <1>12, <1>13, <1>14, <1>15 DEF GateNext

\* The gate holds for every connector of the catalog.
THEOREM GateHoldsAlways == GateSpec => []GateHolds
<1>1. GateSpec => []GateInv
  BY GateStart, GateStep, PTL DEF GateSpec
<1>2. GateInv => GateHolds
  <2> SUFFICES ASSUME GateInv PROVE GateHolds
    OBVIOUS
  <2>1. CenterCounts
    <3>1. /\ Center.actions = log.invoked /\ Center.writes = log.direct + log.executed
          /\ Center.automated = log.invoked + log.ssh + (log.direct + log.executed)
      BY DEF Center
    <3>2. \A w \in Ways : reached[w] \in Nat
      BY DEF GateInv, CountOK
    <3> QED
      BY <3>1, <3>2 DEF GateInv, CountOK, Receipts, CenterCounts, Ways
  <2>2. ConnectedIsUsable
    BY WiredIsUsable DEF GateInv, WiredOK
  <2> QED
    BY <2>1, <2>2, CatalogHolds DEF GateInv, GateHolds
<1> QED
  BY <1>1, <1>2, PTL
=============================================================================
