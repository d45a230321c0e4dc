---------------------------- MODULE PlatformProofs ----------------------------
(* Proofs about the components that connect agents and backend, for any number
   of agents, connections, requests, policies and records: the websocket
   registry, the rate limiter, the records that the console edits, and the
   policies with their synchronisation.  They share no state.                *)
EXTENDS MCPlatform, CommandChannelProofs,
        FiniteSetTheorems, WellFoundedInduction, TLAPS

\* The least-number principle
LEMMA LeastNatural ==
    ASSUME NEW T \in SUBSET Nat, T # {}
    PROVE  \E x \in T : \A y \in T : x <= y
  <1>1. \A x, y \in Nat : <<y, x>> \in OpToRel(<, Nat) <=> y < x
    BY DEF OpToRel
  <1>2. \E x \in T : \A y \in T : ~ (<<y, x>> \in OpToRel(<, Nat))
    BY WFMin, NatLessThanWellFounded
  <1>3. \E x \in T : \A y \in T : ~ (y < x)
    BY <1>1, <1>2, Zenon
  <1> QED BY <1>3

-----------------------------------------------------------------------------
(* The websocket registry                                                    *)

\* What the steps preserve: the types of the registry, without the pool's
\* sequence, and the property itself.
RegistryInv ==
    /\ socket \in [Sockets -> {"new", "accepted", "listening", "closed"}]
    /\ agentSocket \in [Clients -> Sockets \cup {NoSocket}]
    /\ arrived \in Seq(Sockets)
    /\ EntryIsNewest

\* What the property says of one agent's entry.
Holds(a) ==
    agentSocket[a] # NoSocket =>
        /\ agentSocket[a] \in Listening /\ OwnerOf[agentSocket[a]] = a
        /\ IsNewest(agentSocket[a])

\* An entry that stays, with its connection where it was, keeps what is said of it.
LEMMA Undisturbed ==
    ASSUME RegistryInv, NEW a \in Clients, arrived' = arrived,
           \/ agentSocket'[a] = NoSocket
           \/ agentSocket'[a] = agentSocket[a] /\ socket'[agentSocket[a]] = socket[agentSocket[a]]
    PROVE  Holds(a)'
<1>1. CASE agentSocket'[a] = NoSocket
  BY <1>1 DEF Holds
<1>2. CASE agentSocket'[a] # NoSocket
  <2> DEFINE t == agentSocket[a]
  <2>1. agentSocket'[a] = t /\ t # NoSocket /\ socket'[t] = socket[t]
    BY <1>2
  <2>2. t \in Listening /\ OwnerOf[t] = a /\ IsNewest(t)
    BY <2>1 DEF RegistryInv, EntryIsNewest
  <2>3. t \in Listening'
    BY <2>1, <2>2 DEF Listening
  <2>4. IsNewest(t) <=> (\E i \in DOMAIN arrived :
          arrived[i] = t /\ \A j \in DOMAIN arrived : j > i => OwnerOf[arrived[j]] # OwnerOf[t])
    BY DEF IsNewest
  <2>5. \E i \in DOMAIN arrived' :
          arrived'[i] = t /\ \A j \in DOMAIN arrived' : j > i => OwnerOf[arrived'[j]] # OwnerOf[t]
    BY <2>2, <2>4
  <2> HIDE DEF t
  <2> QED
    BY <2>1, <2>2, <2>3, <2>5 DEF Holds, IsNewest
<1> QED
  BY <1>1, <1>2

LEMMA RegistryInitially == SocketInit => RegistryInv
  BY DEF SocketInit, RegistryInv, EntryIsNewest

LEMMA ConnectKeeps ==
    ASSUME RegistryInv, NEW s \in Sockets, Connect(s)
    PROVE  RegistryInv'
<1>1. /\ socket' = [socket EXCEPT ![s] = "listening"] /\ arrived' = Append(arrived, s)
      /\ agentSocket' = [a \in Clients |-> IF a = OwnerOf[s] THEN s ELSE agentSocket[a]]
  BY DEF Connect, Entry
<1>2. /\ socket' \in [Sockets -> {"new", "accepted", "listening", "closed"}]
      /\ agentSocket' \in [Clients -> Sockets \cup {NoSocket}]
      /\ arrived' \in Seq(Sockets)
  BY <1>1 DEF RegistryInv
<1>3. /\ Len(arrived') = Len(arrived) + 1 /\ Len(arrived) \in Nat
      /\ DOMAIN arrived = 1 .. Len(arrived) /\ DOMAIN arrived' = 1 .. Len(arrived')
      /\ arrived'[Len(arrived')] = s
      /\ \A i \in DOMAIN arrived : arrived'[i] = arrived[i]
  BY <1>1 DEF RegistryInv
<1>4. ASSUME NEW a \in Clients, agentSocket'[a] # NoSocket
      PROVE  Holds(a)'
  <2>1. CASE a = OwnerOf[s]
    <3>1. agentSocket'[a] = s /\ s \in Listening'
      BY <1>1, <2>1 DEF Listening, RegistryInv
    <3>2. \E i \in DOMAIN arrived' :
            arrived'[i] = s /\ \A j \in DOMAIN arrived' : j > i => OwnerOf[arrived'[j]] # OwnerOf[s]
      <4>1. Len(arrived') \in DOMAIN arrived'
        BY <1>3
      <4> QED
        BY <1>3
    <3> QED
      BY <2>1, <3>1, <3>2 DEF Holds, IsNewest
  <2>2. CASE a # OwnerOf[s]
    <3> DEFINE t == agentSocket[a]
    <3>1. agentSocket'[a] = t /\ t # NoSocket
      BY <1>1, <1>4, <2>2
    <3>2. t \in Listening /\ OwnerOf[t] = a /\ IsNewest(t)
      BY <3>1 DEF RegistryInv, EntryIsNewest
    <3>3. t \in Listening'
      BY <1>1, <3>2 DEF Listening, RegistryInv
    <3>4. PICK i \in DOMAIN arrived :
            arrived[i] = t /\ \A j \in DOMAIN arrived : j > i => OwnerOf[arrived[j]] # OwnerOf[t]
      BY <3>2 DEF IsNewest
    <3>5. i \in DOMAIN arrived' /\ arrived'[i] = t
      BY <1>3, <3>4
    <3>6. ASSUME NEW j \in DOMAIN arrived', j > i PROVE OwnerOf[arrived'[j]] # OwnerOf[t]
      <4>1. CASE j = Len(arrived')
        BY <1>3, <4>1, <2>2, <3>2
      <4>2. CASE j # Len(arrived')
        BY <1>3, <4>2, <3>4, <3>6
      <4> QED
        BY <4>1, <4>2
    <3> HIDE DEF t
    <3> QED
      BY <3>1, <3>2, <3>3, <3>5, <3>6 DEF Holds, IsNewest
  <2> QED
    BY <2>1, <2>2
<1> QED
  BY <1>2, <1>4 DEF RegistryInv, EntryIsNewest, Holds

LEMMA RegistryStep == RegistryInv /\ [SocketNext]_socketVars => RegistryInv'
<1> SUFFICES ASSUME RegistryInv, [SocketNext]_socketVars PROVE RegistryInv'
  OBVIOUS
<1>1. ASSUME NEW s \in Sockets, Accept(s) PROVE RegistryInv'
  <2>1. /\ socket' = [socket EXCEPT ![s] = "accepted"] /\ socket[s] = "new"
        /\ agentSocket' = agentSocket /\ arrived' = arrived
    BY <1>1 DEF Accept
  <2>2. ASSUME NEW a \in Clients PROVE Holds(a)'
    <3>1. agentSocket[a] # NoSocket => agentSocket[a] # s /\ agentSocket[a] \in Sockets
      BY <2>1 DEF RegistryInv, EntryIsNewest, Listening
    <3>2. agentSocket[a] # NoSocket => socket'[agentSocket[a]] = socket[agentSocket[a]]
      BY <3>1, <2>1 DEF RegistryInv
    <3> QED
      BY <2>1, <3>2, Undisturbed
  <2>3. EntryIsNewest'
    BY <2>2 DEF EntryIsNewest, Holds
  <2>4. socket' \in [Sockets -> {"new", "accepted", "listening", "closed"}]
    BY <2>1 DEF RegistryInv
  <2> QED
    BY <2>1, <2>3, <2>4 DEF RegistryInv
<1>2. ASSUME NEW s \in Sockets, Disconnect(s) PROVE RegistryInv'
  <2>1. /\ socket' = [socket EXCEPT ![s] = "closed"] /\ arrived' = arrived
        /\ agentSocket' = [a \in Clients |-> IF a # OwnerOf[s] THEN agentSocket[a] ELSE NoSocket]
    BY <1>2 DEF Disconnect, Remaining
  <2>2. ASSUME NEW a \in Clients PROVE Holds(a)'
    <3>1. agentSocket[a] # NoSocket =>
            OwnerOf[agentSocket[a]] = a /\ agentSocket[a] \in Sockets
      BY DEF RegistryInv, EntryIsNewest, Listening
    <3>2. agentSocket[a] # NoSocket /\ a # OwnerOf[s]
            => socket'[agentSocket[a]] = socket[agentSocket[a]]
      BY <3>1, <2>1 DEF RegistryInv
    <3> QED
      BY <2>1, <3>2, Undisturbed
  <2>3. EntryIsNewest'
    BY <2>2 DEF EntryIsNewest, Holds
  <2>4. /\ socket' \in [Sockets -> {"new", "accepted", "listening", "closed"}]
        /\ agentSocket' \in [Clients -> Sockets \cup {NoSocket}]
    BY <2>1 DEF RegistryInv
  <2> QED
    BY <2>1, <2>3, <2>4 DEF RegistryInv
<1>3. ASSUME socket' = socket, agentSocket' = agentSocket, arrived' = arrived
      PROVE  RegistryInv'
  BY <1>3 DEF RegistryInv, EntryIsNewest, IsNewest, Listening
<1>4. ASSUME NEW s \in Sockets, Breaks(s) PROVE RegistryInv'
  BY <1>3, <1>4 DEF Breaks
<1>5. ASSUME NEW b \in Broadcasts, StartCast(b) \/ SendNext(b) \/ EndCast(b) PROVE RegistryInv'
  BY <1>3, <1>5 DEF StartCast, SendNext, EndCast
<1>6. CASE UNCHANGED socketVars
  BY <1>3, <1>6 DEF socketVars
<1> QED
  BY <1>1, <1>2, <1>4, <1>5, <1>6, ConnectKeeps DEF SocketNext

\* However many connections an agent opens and however their endpoints' ends and
\* the broadcasts interleave, its entry is the newest of them and still open, or
\* there is none (websocket_manager.py:36-67).
THEOREM NewestHolds == SocketSpec => []EntryIsNewest
<1>1. RegistryInv => EntryIsNewest
  BY DEF RegistryInv
<1> QED
  BY <1>1, RegistryInitially, RegistryStep, PTL DEF SocketSpec

\* The list without some connections, of each of its beginnings
Leaves(f, list, gone) ==
    f = [i \in 0 .. Len(list) |->
           IF i = 0 THEN << >>
           ELSE IF list[i] \in gone THEN f[i - 1] ELSE Append(f[i - 1], list[i])]
Left(list, gone) == CHOOSE f : Leaves(f, list, gone)

LEMMA WithoutIs == ASSUME NEW list, NEW gone PROVE Without(list, gone) = Left(list, gone)[Len(list)]
BY DEF Without, Left, Leaves

\* That there are such beginnings follows from the least-number principle.
LEMMA LeftLeaves == ASSUME NEW list \in Seq(Sockets), NEW gone PROVE Leaves(Left(list, gone), list, gone)
<1> DEFINE Next1(f, i) == IF i = 0 THEN << >>
                          ELSE IF list[i] \in gone THEN f[i - 1] ELSE Append(f[i - 1], list[i])
           Partial(f, n) == f = [i \in 0 .. n |-> Next1(f, i)]
           Bad == {n \in Nat : ~ \E f : Partial(f, n)}
<1>1. Bad = {}
  <2> SUFFICES ASSUME Bad # {} PROVE FALSE
    OBVIOUS
  <2>1. PICK n \in Bad : \A m \in Bad : n <= m
    <3>1. Bad \in SUBSET Nat
      OBVIOUS
    <3> HIDE DEF Bad
    <3> QED
      BY <3>1, LeastNatural
  <2>2. n # 0
    <3> SUFFICES ASSUME n = 0 PROVE \E f : Partial(f, n)
      BY <2>1
    <3>1. Partial([i \in 0 .. 0 |-> << >>], 0)
      OBVIOUS
    <3> QED
      BY <3>1
  <2>3. n \in Nat /\ n - 1 \in Nat /\ n - 1 \notin Bad
    <3>1. n \in Nat
      OBVIOUS
    <3>2. n - 1 \in Nat /\ ~(n <= n - 1)
      BY <2>2, <3>1
    <3> QED
      BY <2>1, <3>1, <3>2
  <2>4. PICK f : Partial(f, n - 1)
    BY <2>3
  <2> DEFINE h == [i \in 0 .. n |-> Next1(f, i)]
  <2>5. ASSUME NEW i \in 0 .. n, i # 0 PROVE h[i - 1] = f[i - 1]
    <3>1. i - 1 \in 0 .. n /\ i - 1 \in 0 .. n - 1
      BY <2>3, <2>5
    <3>2. h[i - 1] = Next1(f, i - 1)
      BY <3>1
    <3>3. f[i - 1] = Next1(f, i - 1)
      BY <2>4, <3>1
    <3> QED
      BY <3>2, <3>3
  <2>6. \A i \in 0 .. n : Next1(f, i) = Next1(h, i)
    <3> HIDE DEF h
    <3> QED
      BY <2>5
  <2>7. Partial(h, n)
    BY <2>6
  <2> QED
    BY <2>1, <2>7
<1>2. Len(list) \in Nat
  OBVIOUS
<1>3. PICK f : Partial(f, Len(list))
  BY <1>1, <1>2
<1>4. Leaves(f, list, gone)
  BY <1>3 DEF Leaves
<1> QED
  BY <1>4 DEF Left

LEMMA WithoutType == ASSUME NEW list \in Seq(Sockets), NEW gone PROVE Without(list, gone) \in Seq(Sockets)
<1> DEFINE f == Left(list, gone)
           Bad == {n \in 0 .. Len(list) : f[n] \notin Seq(Sockets)}
<1>0. Len(list) \in Nat /\ \A i \in 1 .. Len(list) : list[i] \in Sockets
  OBVIOUS
<1>1. \A i \in 0 .. Len(list) :
        f[i] = IF i = 0 THEN << >> ELSE IF list[i] \in gone THEN f[i - 1] ELSE Append(f[i - 1], list[i])
  <2>1. Leaves(f, list, gone)
    BY LeftLeaves
  <2> HIDE DEF f
  <2> QED
    BY <2>1 DEF Leaves
<1> HIDE DEF f
<1>2. Bad = {}
  <2> SUFFICES ASSUME Bad # {} PROVE FALSE
    OBVIOUS
  <2>1. PICK n \in Bad : \A m \in Bad : n <= m
    <3>1. Bad \in SUBSET Nat
      BY <1>0
    <3> HIDE DEF Bad
    <3> QED
      BY <3>1, LeastNatural
  <2>2. n \in 0 .. Len(list) /\ f[n] \notin Seq(Sockets) /\ n # 0
    <3>1. 0 \in 0 .. Len(list) /\ << >> \in Seq(Sockets)
      BY <1>0
    <3>2. f[0] \in Seq(Sockets)
      BY <1>1, <3>1
    <3> QED
      BY <3>2
  <2>3. n - 1 \in 0 .. Len(list) /\ n - 1 \notin Bad /\ list[n] \in Sockets
    BY <1>0, <2>1, <2>2
  <2>4. f[n - 1] \in Seq(Sockets)
    BY <2>3
  <2>5. f[n] = f[n - 1] \/ f[n] = Append(f[n - 1], list[n])
    BY <1>1, <2>2
  <2>6. Append(f[n - 1], list[n]) \in Seq(Sockets)
    BY <2>3, <2>4
  <2> QED
    BY <2>2, <2>4, <2>5, <2>6
<1>3. f[Len(list)] \in Seq(Sockets)
  BY <1>0, <1>2
<1> QED
  BY <1>3, WithoutIs DEF f

Casting == [pc : {"new", "send", "done"}, todo : Seq(Sockets), failed : SUBSET Sockets]
SocketTypes ==
    /\ socket \in [Sockets -> {"new", "accepted", "listening", "closed"}]
    /\ broken \subseteq Sockets /\ active \in Seq(Sockets)
    /\ agentSocket \in [Clients -> Sockets \cup {NoSocket}]
    /\ cast \in [Broadcasts -> Casting]

LEMMA SocketTypesInitially == SocketInit => SocketTypes
<1> SUFFICES ASSUME SocketInit PROVE SocketTypes
  OBVIOUS
<1>1. NewCast \in Casting
  BY DEF NewCast, Casting
<1> QED
  BY <1>1 DEF SocketInit, SocketTypes

LEMMA SocketTypesKept == SocketTypes /\ [SocketNext]_socketVars => SocketTypes'
<1> SUFFICES ASSUME SocketTypes, [SocketNext]_socketVars PROVE SocketTypes'
  OBVIOUS
<1>1. ASSUME NEW s \in Sockets, Accept(s) \/ Breaks(s) PROVE SocketTypes'
  BY <1>1 DEF Accept, Breaks, SocketTypes
<1>2. ASSUME NEW s \in Sockets, Connect(s) PROVE SocketTypes'
  <2>1. active' \in Seq(Sockets)
    BY <1>2 DEF Connect, SocketTypes
  <2> QED
    BY <1>2, <2>1 DEF Connect, Entry, SocketTypes
<1>3. ASSUME NEW s \in Sockets, Disconnect(s) PROVE SocketTypes'
  <2>1. active' \in Seq(Sockets)
    BY <1>3, WithoutType DEF Disconnect, SocketTypes
  <2> QED
    BY <1>3, <2>1 DEF Disconnect, SocketTypes
<1>4. ASSUME NEW b \in Broadcasts, StartCast(b) PROVE SocketTypes'
  <2>1. [pc |-> "send", todo |-> active, failed |-> {}] \in Casting
    BY DEF SocketTypes, Casting
  <2> QED
    BY <1>4, <2>1 DEF StartCast, SocketTypes
<1>5. ASSUME NEW b \in Broadcasts, SendNext(b) PROVE SocketTypes'
  <2> DEFINE s == Head(cast[b].todo)
             lost == s \in broken \/ socket[s] = "closed"
             c == [cast[b] EXCEPT !.todo = Tail(@), !.failed = IF lost THEN @ \cup {s} ELSE @]
  <2>1. cast' = [cast EXCEPT ![b] = c] /\ cast[b].todo # << >> /\ UNCHANGED <<socket, broken, active, agentSocket>>
    BY <1>5 DEF SendNext
  <2>2. cast[b] \in Casting
    BY DEF SocketTypes
  <2>3. s \in Sockets /\ Tail(cast[b].todo) \in Seq(Sockets)
    BY <2>1, <2>2 DEF Casting
  <2>4. c \in Casting
    <3> HIDE DEF s, lost
    <3> QED
      BY <2>2, <2>3 DEF Casting
  <2> HIDE DEF c
  <2> QED
    BY <2>1, <2>4 DEF SocketTypes
<1>6. ASSUME NEW b \in Broadcasts, EndCast(b) PROVE SocketTypes'
  <2>1. active' \in Seq(Sockets)
    BY <1>6, WithoutType DEF EndCast, SocketTypes
  <2>2. cast' \in [Broadcasts -> Casting]
    BY <1>6 DEF EndCast, SocketTypes, Casting
  <2> QED
    BY <1>6, <2>1, <2>2 DEF EndCast, SocketTypes
<1>7. CASE UNCHANGED socketVars
  BY <1>7 DEF socketVars, SocketTypes
<1> QED
  BY <1>1, <1>2, <1>3, <1>4, <1>5, <1>6, <1>7 DEF SocketNext

\* The pool, the entries of the agents and the broadcasts' copies of the pool hold
\* connections only (websocket_manager.py), for any number of them.
THEOREM SocketTypeCorrect == SocketSpec => []SocketTypeOK
<1>1. SocketTypes => SocketTypeOK
  <2> SUFFICES ASSUME SocketTypes PROVE SocketTypeOK
    OBVIOUS
  <2>1. ToSet(active) \subseteq Sockets
    BY DEF SocketTypes, ToSet
  <2> QED
    BY <2>1 DEF SocketTypes, SocketTypeOK, Casting
<1> QED
  BY <1>1, SocketTypesInitially, SocketTypesKept, PTL DEF SocketSpec

-----------------------------------------------------------------------------
(* The rate limiter                                                          *)

Records == [pc : States, window : Windows, count : Nat, late : BOOLEAN]

\* What is known of one request: it counts no window that has not begun; once
\* counted, and as long as the key cannot have expired, the key is at least its
\* count; it is let through on a count within the limit.
CallHolds(c) ==
    /\ call[c].window <= now
    /\ (/\ call[c].count # 0 /\ ~call[c].late
        /\ now < call[c].window + Lifetime)
       => call[c].count <= counter[call[c].window]
    /\ call[c].pc \in {"new", "count"} => call[c].count = 0
    /\ call[c].pc \in {"expire", "decide"} => call[c].count # 0
    /\ call[c].pc = "admitted" => call[c].count \in 1 .. Limit

\* A key is never set to expire before its window, and the slack, are over.
KeysOutlive == \A w \in Windows : expiry[w] = 0 \/ expiry[w] >= w + Lifetime

LimiterInv ==
    /\ LimiterTypeOK
    /\ KeysOutlive
    /\ \A c \in Calls : CallHolds(c)
    /\ CountsDiffer

LEMMA WindowType ==
    ASSUME NEW t \in 0 .. MaxTime
    PROVE  Window(t) \in Windows /\ Window(t) <= t
<1>1. t % Minute \in Nat /\ t % Minute <= t
  BY LimitAssumption
<1> QED
  BY <1>1, LimitAssumption DEF Window, Windows

LEMMA LifetimeType == Lifetime \in Nat
  BY LimitAssumption DEF Lifetime

\* One request is written, the keys only grow, and time stands still: what is
\* known of the others is kept.
LEMMA OneCall ==
    ASSUME LimiterInv, NEW c \in Calls, NEW r \in Records,
           call' = [call EXCEPT ![c] = r], now' = now,
           counter' \in [Windows -> Nat],
           \A w \in Windows : counter[w] <= counter'[w],
           expiry' \in [Windows -> Nat], KeysOutlive',
           CallHolds(c)',
           \A d \in Calls \ {c} :
               (/\ r.window = call[d].window /\ ~r.late /\ ~call[d].late
                /\ r.count # 0 /\ call[d].count # 0) => r.count # call[d].count
    PROVE  LimiterInv'
<1> USE DEF Records
<1>1. LimiterTypeOK'
  BY DEF LimiterInv, LimiterTypeOK
<1>2. \A d \in Calls \ {c} : call'[d] = call[d]
  BY DEF LimiterInv, LimiterTypeOK
<1>3. call'[c] = r
  BY DEF LimiterInv, LimiterTypeOK
<1>4. ASSUME NEW d \in Calls \ {c} PROVE CallHolds(d)'
  <2>1. call[d] \in Records /\ CallHolds(d) /\ call'[d] = call[d]
    BY <1>2 DEF LimiterInv, LimiterTypeOK
  <2>2. counter[call[d].window] <= counter'[call[d].window]
    BY <2>1
  <2>3. counter[call[d].window] \in Nat /\ counter'[call[d].window] \in Nat
    BY <2>1 DEF LimiterInv, LimiterTypeOK
  <2> QED
    BY <2>1, <2>2, <2>3 DEF CallHolds, Lifetime
<1>5. CountsDiffer'
  BY <1>2, <1>3 DEF LimiterInv, CountsDiffer
<1> QED
  BY <1>1, <1>4, <1>5 DEF LimiterInv

LEMMA LimiterInitially == LimiterInit => LimiterInv
<1> SUFFICES ASSUME LimiterInit PROVE LimiterInv
  OBVIOUS
<1>1. NewCall \in Records
  BY LimitAssumption DEF NewCall, Records, States, Windows
<1>2. LimiterTypeOK
  BY <1>1, LimitAssumption DEF LimiterInit, LimiterTypeOK, Records
<1> QED
  BY <1>2, LimitAssumption
  DEF LimiterInit, LimiterInv, KeysOutlive, CallHolds, CountsDiffer, NewCall

LEMMA LimiterStep == LimiterInv /\ [LimiterNext]_limiterVars => LimiterInv'
<1> SUFFICES ASSUME LimiterInv, [LimiterNext]_limiterVars PROVE LimiterInv'
  OBVIOUS
<1>t. /\ now \in 0 .. MaxTime /\ counter \in [Windows -> Nat] /\ expiry \in [Windows -> Nat]
      /\ call \in [Calls -> Records]
  BY DEF LimiterInv, LimiterTypeOK, Records
<1>c. \A c \in Calls : call[c] \in Records /\ call[c].window \in Windows /\ CallHolds(c)
  BY <1>t DEF LimiterInv, Records
<1>l. Lifetime \in Nat
  BY LifetimeType
<1>1. CASE Tick
  <2>1. now' = now + 1 /\ now' \in 0 .. MaxTime /\ call' = call
    BY <1>1, <1>t, LimitAssumption DEF Tick
  <2>2. /\ counter' = [w \in Windows |-> IF Expired(w) THEN 0 ELSE counter[w]]
        /\ expiry'  = [w \in Windows |-> IF Expired(w) THEN 0 ELSE expiry[w]]
    BY <1>1 DEF Tick
  <2>3. LimiterTypeOK'
    BY <2>1, <2>2, <1>t DEF LimiterTypeOK, Records
  <2>4. KeysOutlive'
    BY <2>2, <1>t DEF LimiterInv, KeysOutlive
  <2>5. ASSUME NEW w \in Windows, now' < w + Lifetime PROVE counter'[w] = counter[w]
    <3>1. expiry[w] = 0 \/ expiry[w] >= w + Lifetime
      BY DEF LimiterInv, KeysOutlive
    <3>2. ~Expired(w)
      BY <3>1, <2>1, <2>5, <1>t, <1>l DEF Expired, Windows
    <3> QED
      BY <3>2, <2>2
  <2>6. ASSUME NEW c \in Calls PROVE CallHolds(c)'
    <3>1. call'[c] = call[c] /\ call[c] \in Records /\ call[c].window \in Windows
      BY <2>1, <1>c
    <3>2. call[c].window <= now'
      BY <3>1, <1>c, <2>1, <1>t DEF CallHolds, Windows
    <3>3. now' < call[c].window + Lifetime => now < call[c].window + Lifetime
      BY <3>1, <2>1, <1>t, <1>l DEF Windows
    <3>4. now' < call[c].window + Lifetime => counter'[call[c].window] = counter[call[c].window]
      BY <3>1, <2>5
    <3>5. Lifetime' = Lifetime
      BY DEF Lifetime
    <3>6. CallHolds(c)
      BY <1>c
    <3> QED
      BY <3>1, <3>2, <3>3, <3>4, <3>5, <3>6 DEF CallHolds
  <2>7. CountsDiffer'
    BY <2>1 DEF LimiterInv, CountsDiffer
  <2> QED
    BY <2>3, <2>4, <2>6, <2>7 DEF LimiterInv
<1>2. ASSUME NEW c \in Calls, Arrive(c) PROVE LimiterInv'
  <2> DEFINE r == [pc |-> "count", window |-> Window(now), count |-> 0, late |-> FALSE]
  <2>1. r \in Records /\ Window(now) <= now
    BY WindowType, <1>t DEF Records, States
  <2>2. call' = [call EXCEPT ![c] = r] /\ now' = now /\ counter' = counter /\ expiry' = expiry
    BY <1>2 DEF Arrive
  <2>3. call'[c] = r
    BY <2>2, <1>t
  <2>4. CallHolds(c)'
    BY <2>1, <2>2, <2>3 DEF CallHolds
  <2>5. KeysOutlive'
    BY <2>2 DEF LimiterInv, KeysOutlive, Lifetime
  <2>6. \A w \in Windows : counter[w] <= counter'[w]
    BY <2>2, <1>t
  <2>7. r.count = 0
    OBVIOUS
  <2> HIDE DEF r
  <2> QED
    BY OneCall, <2>1, <2>2, <2>4, <2>5, <2>6, <2>7, <1>t
<1>3. ASSUME NEW c \in Calls, Count(c) PROVE LimiterInv'
  <2> DEFINE w == call[c].window
             r == [pc |-> IF counter[w] = 0 THEN "expire" ELSE "decide", window |-> w,
                   count |-> counter[w] + 1, late |-> now >= w + Lifetime]
  <2>1. w \in Windows /\ counter[w] \in Nat /\ w <= now /\ now \in Nat /\ w \in Nat
    BY <1>c, <1>t DEF CallHolds, Windows
  <2>2. r \in Records
    BY <2>1, <1>l DEF Records, States
  <2>3. call' = [call EXCEPT ![c] = r] /\ now' = now /\ expiry' = expiry
        /\ counter' = [counter EXCEPT ![w] = @ + 1]
    BY <1>3 DEF Count
  <2>4. call'[c] = r /\ counter'[w] = counter[w] + 1 /\ counter' \in [Windows -> Nat]
    BY <2>1, <2>3, <1>t
  <2>5. \A v \in Windows : counter[v] <= counter'[v]
    BY <2>1, <2>3, <1>t
  <2>6. CallHolds(c)'
    BY <2>1, <2>3, <2>4, <1>l DEF CallHolds
  <2>7. KeysOutlive'
    BY <2>3 DEF LimiterInv, KeysOutlive, Lifetime
  <2>8. ASSUME NEW d \in Calls \ {c}, r.window = call[d].window, ~r.late, ~call[d].late,
               call[d].count # 0
        PROVE  r.count # call[d].count
    <3>1. r.late = (now >= w + Lifetime) /\ r.window = w
      BY Zenon
    <3>2. ~(now >= w + Lifetime) /\ call[d].window = w
      BY <2>8, <3>1, Zenon
    <3>3. now < call[d].window + Lifetime
      BY <3>2, <2>1, <1>l
    <3>4. call[d].count <= counter[w]
      BY <3>3, <2>8, <1>c DEF CallHolds
    <3>5. call[d].count \in Nat
      BY <1>c DEF Records
    <3> QED
      BY <3>4, <3>5, <2>1
  <2>9. call' = [call EXCEPT ![c] = r] /\ now' = now /\ expiry' \in [Windows -> Nat]
    BY <2>3, <1>t
  <2>10. \A d \in Calls \ {c} :
           (/\ r.window = call[d].window /\ ~r.late /\ ~call[d].late
            /\ r.count # 0 /\ call[d].count # 0) => r.count # call[d].count
    BY <2>8
  <2>11. counter' \in [Windows -> Nat]
    BY <2>4
  <2> HIDE DEF r, w
  <2> QED
    BY OneCall, <2>2, <2>5, <2>6, <2>7, <2>9, <2>10, <2>11
<1>4. ASSUME NEW c \in Calls, NEW p \in {"decide", "admitted", "refused", "unlimited"},
             call' = [call EXCEPT ![c].pc = p], now' = now,
             \/ counter' = counter
             \/ counter' = [counter EXCEPT ![call[c].window] = @ + 1],
             expiry' \in [Windows -> Nat], KeysOutlive',
             p = "decide" => call[c].count # 0,
             p = "admitted" => call[c].count \in 1 .. Limit
      PROVE LimiterInv'
  <2> DEFINE r == [call[c] EXCEPT !.pc = p]
  <2>1. call[c] \in Records /\ call[c].window \in Windows
    BY <1>c
  <2>2. r \in Records /\ r.window = call[c].window /\ r.count = call[c].count
        /\ r.late = call[c].late /\ r.pc = p
    BY <2>1, <1>4 DEF Records, States
  <2>3. call' = [call EXCEPT ![c] = r]
    BY <1>4
  <2>4. call'[c] = r
    BY <2>3, <1>t
  <2>5. /\ counter' \in [Windows -> Nat]
        /\ \A w \in Windows : counter[w] <= counter'[w]
    BY <1>4, <2>1, <1>t
  <2>6. /\ counter[call[c].window] <= counter'[call[c].window]
        /\ counter[call[c].window] \in Nat /\ counter'[call[c].window] \in Nat
        /\ call[c].count \in Nat
    BY <2>5, <2>1, <1>t DEF Records
  <2>7. CallHolds(c)
    BY <1>c
  <2> HIDE DEF r
  <2>8. CallHolds(c)'
    BY <1>4, <2>2, <2>4, <2>6, <2>7 DEF CallHolds, Lifetime
  <2>9. \A d \in Calls \ {c} :
          (/\ r.window = call[d].window /\ ~r.late /\ ~call[d].late
           /\ r.count # 0 /\ call[d].count # 0) => r.count # call[d].count
    BY <2>2 DEF LimiterInv, CountsDiffer
  <2> QED
    BY OneCall, <1>4, <2>2, <2>3, <2>5, <2>8, <2>9
<1>5. ASSUME NEW c \in Calls, Expire(c) PROVE LimiterInv'
  <2>1. call[c].window \in Windows /\ call[c].count # 0 /\ call[c].window <= now
        /\ now \in Nat /\ call[c].window \in Nat
    BY <1>5, <1>c, <1>t DEF Expire, CallHolds, Windows
  <2>2. expiry' = [expiry EXCEPT ![call[c].window]
                     = IF counter[call[c].window] = 0 THEN @ ELSE now + Lifetime]
    BY <1>5 DEF Expire, Expiry
  <2>3. expiry' \in [Windows -> Nat]
    BY <2>1, <2>2, <1>t, <1>l
  <2>4. KeysOutlive'
    <3> SUFFICES ASSUME NEW w \in Windows
                 PROVE  expiry'[w] = 0 \/ expiry'[w] >= w + Lifetime
      BY DEF KeysOutlive, Lifetime
    <3>1. expiry[w] = 0 \/ expiry[w] >= w + Lifetime
      BY DEF LimiterInv, KeysOutlive
    <3> QED
      BY <3>1, <2>1, <2>2, <1>t, <1>l
  <2> QED
    BY <1>4, <1>5, <2>1, <2>3, <2>4 DEF Expire
<1>6. ASSUME NEW c \in Calls, Decide(c) PROVE LimiterInv'
  <2> DEFINE p == IF Within(call[c].count) THEN "admitted" ELSE "refused"
  <2>1. p \in {"decide", "admitted", "refused", "unlimited"} /\ p # "decide"
    OBVIOUS
  <2>2. call' = [call EXCEPT ![c].pc = p] /\ now' = now /\ counter' = counter /\ expiry' = expiry
    BY <1>6 DEF Decide
  <2>3. call[c].count # 0 /\ call[c].count \in Nat
    BY <1>6, <1>c DEF Decide, CallHolds, Records
  <2>4. p = "admitted" => call[c].count \in 1 .. Limit
    BY <2>3, LimitAssumption DEF Within
  <2>5. KeysOutlive'
    BY <2>2 DEF LimiterInv, KeysOutlive, Lifetime
  <2> HIDE DEF p
  <2> QED
    BY <1>4, <1>t, <2>1, <2>2, <2>4, <2>5
<1>7. ASSUME NEW c \in Calls, Unanswered(c) PROVE LimiterInv'
  <2>1. KeysOutlive'
    BY <1>7 DEF Unanswered, LimiterInv, KeysOutlive, Lifetime
  <2> QED
    BY <1>4, <1>7, <1>t, <2>1 DEF Unanswered
<1>8. CASE UNCHANGED limiterVars
  BY <1>8 DEF limiterVars, LimiterInv, LimiterTypeOK, KeysOutlive, CallHolds, CountsDiffer, Lifetime
<1> QED
  BY <1>1, <1>2, <1>3, <1>5, <1>6, <1>7, <1>8 DEF LimiterNext

LEMMA LimiterInductive == LimiterSpec => []LimiterInv
<1> QED
  BY LimiterInitially, LimiterStep, PTL DEF LimiterSpec

\* The limiter's variables keep their types (rate_limiter.py:39-71).
THEOREM LimiterTypeCorrect == LimiterSpec => []LimiterTypeOK
<1>1. LimiterInv => LimiterTypeOK
  BY DEF LimiterInv
<1> QED
  BY <1>1, LimiterInductive, PTL

\* Whatever the limit, the length of a window and the number of parallel
\* requests, and whether or not Redis took the EXPIRE, a window lets through no
\* more requests than the limit before its key can have expired
\* (rate_limiter.py:39-71): the requests' counts are distinct and within it.
THEOREM WindowIsKept == LimiterSpec => []WindowKept
<1>1. LimiterInv => WindowKept
  <2> SUFFICES ASSUME LimiterInv, NEW w \in Windows
               PROVE  Cardinality(LetThrough(w)) <= Limit
    BY DEF WindowKept
  <2> DEFINE S == LetThrough(w)
             f == [c \in S |-> call[c].count]
  <2>1. \A c \in S : call[c].count \in 1 .. Limit /\ call[c].count # 0
    BY LimitAssumption DEF LetThrough, LimiterInv, CallHolds
  <2>2. \A c, d \in S : c # d => call[c].count # call[d].count
    BY <2>1 DEF LetThrough, LimiterInv, CountsDiffer
  <2>3. f \in [S -> 1 .. Limit]
    BY <2>1
  <2>4. \A c, d \in S : f[c] = f[d] => c = d
    BY <2>2
  <2>5. f \in Injection(S, 1 .. Limit)
    BY <2>3, <2>4 DEF Injection, IsInjective
  <2>6. IsFiniteSet(1 .. Limit) /\ Cardinality(1 .. Limit) = Limit
    BY FS_Interval, LimitAssumption
  <2> HIDE DEF S, f
  <2>7. Cardinality(S) <= Cardinality(1 .. Limit)
    BY <2>5, <2>6, FS_Injection
  <2> QED
    BY <2>6, <2>7 DEF S
<1> QED
  BY <1>1, LimiterInductive, PTL

-----------------------------------------------------------------------------
(* The console's records                                                     *)

Columns(k) ==
    IF k \in Machines THEN {"there", "version"}
    ELSE IF k \in Upgrades THEN {"there", "of", "from", "to", "status", "rolled"}
    ELSE IF k \in Reports THEN {"there", "frequency", "last", "next"}
    ELSE {"there", "status", "closed", "alerts", "telemetry"}

Names == {"there", "version", "of", "from", "to", "status", "rolled", "frequency", "last", "next",
          "closed", "alerts", "telemetry"}

\* A row that key k may have: a machine's is always there.
RowOK(k, r) ==
    \/ r = NoRecord /\ k \notin Machines
    \/ /\ DOMAIN r = Columns(k) /\ r.there = TRUE
       /\ k \in Upgrades => r.of \in Machines /\ r.rolled \in BOOLEAN

Touched(e) == {x[1] : x \in e.written}

\* The edit changes a row that it loaded, deletes a report that it loaded, or
\* inserts a row that is not there and that nobody else writes.
Updates(t, k) == k \in edit[t].loaded /\ edit[t].wanted[k].there
Deletes(t, k) == k \in Reports /\ k \in edit[t].loaded /\ edit[t].wanted[k] = NoRecord
Inserts(t, k) ==
    /\ k \notin edit[t].loaded /\ edit[t].wanted[k].there /\ ~rows[k].there
    /\ \A c \in Columns(k) : <<k, c>> \in edit[t].written
    /\ \A u \in Editors \ {t} : k \notin Touched(edit[u])

BaseFits(t) ==
    /\ edit[t].written \subseteq Keys \X Names /\ edit[t].assigned \subseteq Keys \X Names
    /\ \A k \in Touched(edit[t]) : RowOK(k, edit[t].wanted[k]) /\ (Updates(t, k) \/ Deletes(t, k) \/ Inserts(t, k))

BaseInv ==
    /\ rows \in [Keys -> {rows[k] : k \in Keys}]
    /\ \A k \in Keys : RowOK(k, rows[k])
    /\ edit \in [Editors -> {edit[t] : t \in Editors}]
    /\ \A t \in Editors : BaseFits(t)

\* A version that a request assigns and does not write is the one there is.
VersionFits(t, m) ==
    LET x == <<m, "version">> IN
    /\ x \in edit[t].written => x \in edit[t].assigned
    /\ x \in edit[t].assigned /\ x \notin edit[t].written /\ x \notin collided =>
          edit[t].wanted[m].version = rows[m].version

MachineInv ==
    \A m \in Machines : /\ <<m, "version">> \notin collided => rows[m].version = shown[m]
                        /\ \A t \in Editors : VersionFits(t, m)

\* A request that rolls back assigns the status with it, one that goes on does
\* so from a status that is not rolled back.
StatusFits(t, k) ==
    LET s == <<k, "status">>  r == <<k, "rolled">>  e == edit[t] IN
    /\ s \in e.written => s \in e.assigned
    /\ s \notin collided =>
         /\ k \in Touched(e) /\ Inserts(t, k) => ~e.wanted[k].rolled /\ e.wanted[k].status # "ROLLED_BACK"
         /\ k \in e.loaded =>
              /\ s \in e.assigned /\ s \notin e.written => e.wanted[k].status = rows[k].status
              /\ s \in e.written /\ e.wanted[k].status # "ROLLED_BACK" => ~rows[k].rolled
              /\ r \in e.written \/ (s \in e.written /\ e.wanted[k].status = "ROLLED_BACK") =>
                   /\ e.wanted[k].rolled /\ e.wanted[k].status = "ROLLED_BACK" /\ s \in e.assigned
                   /\ r \in e.written \/ rows[k].rolled

RolledBack(k) ==
    rows[k].there /\ <<k, "status">> \notin collided => (rows[k].rolled <=> rows[k].status = "ROLLED_BACK")

UpgradeInv == \A k \in Upgrades : RolledBack(k) /\ \A t \in Editors : StatusFits(t, k)

\* A request that writes the frequency or the next run writes a pair that fits.
ScheduleFits(t, k) ==
    LET n == <<k, "next">>  f == <<k, "frequency">>  e == edit[t] IN
    /\ n \in e.written => n \in e.assigned
    /\ n \notin collided =>
         /\ f \in e.written => n \in e.written
         /\ n \in e.written /\ f \in e.written => e.wanted[k].next.every = e.wanted[k].frequency
         /\ n \in e.written /\ f \notin e.written /\ rows[k].there => e.wanted[k].next.every = rows[k].frequency

Scheduled(k) ==
    rows[k].there /\ <<k, "next">> \notin collided => rows[k].next.every = rows[k].frequency

ReportInv == \A k \in Reports : Scheduled(k) /\ \A t \in Editors : ScheduleFits(t, k)

\* A request that adds links adds them to those that there are.
LinksFit(t, x) ==
    LET k == x[1]  c == x[2]  e == edit[t] IN
    /\ x \in e.written => x \in e.assigned
    /\ x \in e.assigned /\ k \in e.loaded => rows[k].there
    /\ x \in e.assigned /\ k \notin e.loaded => e.wanted[k][c] = {} /\ x \in e.written
    /\ x \in e.assigned /\ k \in e.loaded /\ x \notin collided =>
         /\ rows[k][c] \subseteq e.wanted[k][c]
         /\ x \notin e.written => e.wanted[k][c] = rows[k][c]

AllLinked(x) ==
    /\ ~rows[x[1]].there => linked[x] = {}
    /\ rows[x[1]].there /\ x \notin collided => rows[x[1]][x[2]] = linked[x]

CaseInv == \A x \in LinkColumns : AllLinked(x) /\ \A t \in Editors : LinksFit(t, x)

\* All that is said of the request of a thread
EditFits(t) ==
    /\ BaseFits(t) /\ \A m \in Machines : VersionFits(t, m)
    /\ \A k \in Upgrades : StatusFits(t, k)
    /\ \A k \in Reports : ScheduleFits(t, k)
    /\ \A x \in LinkColumns : LinksFit(t, x)

ConsoleInv == BaseInv /\ MachineInv /\ UpgradeInv /\ ReportInv /\ CaseInv

-----------------------------------------------------------------------------

\* NoRecord and a row differ in their columns.
LEMMA NoRecordFacts ==
    /\ NoRecord.there = FALSE /\ DOMAIN NoRecord = {"there"}
    /\ \A k \in Keys : \A r : RowOK(k, r) => (r.there <=> r # NoRecord) /\ r.there \in BOOLEAN
  <1>1. NoRecord.there = FALSE /\ DOMAIN NoRecord = {"there"}
    BY DEF NoRecord
  <1>2. ASSUME NEW k \in Keys, NEW r, RowOK(k, r) PROVE (r.there <=> r # NoRecord) /\ r.there \in BOOLEAN
    BY <1>1, <1>2 DEF RowOK
  <1> QED BY <1>1, <1>2

\* The kinds of keys are apart, and a row has the columns of its kind.
LEMMA KeyKinds ==
    /\ \A k \in Cases : k \in Keys /\ k \notin Reports /\ k \notin Upgrades /\ k \notin Machines
    /\ \A k \in Reports : k \in Keys /\ k \notin Cases /\ k \notin Upgrades /\ k \notin Machines
    /\ \A k \in Upgrades : k \in Keys /\ k \notin Cases /\ k \notin Reports /\ k \notin Machines
    /\ \A k \in Machines : k \in Keys /\ k \notin Cases /\ k \notin Reports /\ k \notin Upgrades
  BY ConsoleAssumption DEF ConsoleAssumption, Keys

LEMMA ColumnsOf ==
    /\ \A k \in Keys : Columns(k) \subseteq Names /\ "there" \in Columns(k)
    /\ \A k \in Cases : Columns(k) = {"there", "status", "closed", "alerts", "telemetry"}
    /\ \A k \in Reports : Columns(k) = {"there", "frequency", "last", "next"}
    /\ \A k \in Upgrades : Columns(k) = {"there", "of", "from", "to", "status", "rolled"}
    /\ \A k \in Machines : Columns(k) = {"there", "version"}
  BY KeyKinds DEF Columns, Names, Keys

-----------------------------------------------------------------------------
(* The commit                                                                *)

\* What a commit leaves in a row: the row as it was, the columns that were
\* written and the others, no row, or the one inserted.
LEMMA AfterFacts ==
    ASSUME BaseInv, NEW t \in Editors, CommitEdit(t), NEW k \in Keys
    PROVE /\ k \notin Touched(edit[t]) => rows'[k] = rows[k]
          /\ k \in Touched(edit[t]) /\ Updates(t, k) =>
               /\ rows[k].there /\ rows'[k].there = TRUE
               /\ DOMAIN rows'[k] = Columns(k)
               /\ \A c \in Columns(k) : /\ <<k, c>> \in edit[t].written => rows'[k][c] = edit[t].wanted[k][c]
                                        /\ <<k, c>> \notin edit[t].written => rows'[k][c] = rows[k][c]
          /\ k \in Touched(edit[t]) /\ Deletes(t, k) => rows'[k] = NoRecord
          /\ k \in Touched(edit[t]) /\ Inserts(t, k) => rows'[k] = edit[t].wanted[k]
  <1> DEFINE e == edit[t]
  <1>1. rows'[k] = After(e, k)
    BY DEF CommitEdit
  <1>2. k \notin Touched(e) => rows'[k] = rows[k]
    BY <1>1 DEF After, Touched
  <1>3. ASSUME k \in Touched(e), Updates(t, k)
        PROVE /\ rows[k].there /\ rows'[k].there = TRUE
              /\ DOMAIN rows'[k] = Columns(k)
              /\ \A c \in Columns(k) : /\ <<k, c>> \in e.written => rows'[k][c] = e.wanted[k][c]
                                       /\ <<k, c>> \notin e.written => rows'[k][c] = rows[k][c]
    <2>1. PICK x \in e.written : x[1] = k
      BY <1>3 DEF Touched
    <2>2. ~Orphaned(e) /\ k \in e.loaded /\ e.wanted[k].there
      BY <1>3 DEF CommitEdit, Updates
    <2>3. rows[k].there
      BY <2>1, <2>2 DEF Orphaned
    <2>4. RowOK(k, rows[k]) /\ RowOK(k, e.wanted[k])
      BY <1>3 DEF BaseInv, BaseFits
    <2>5. DOMAIN rows[k] = Columns(k) /\ rows[k].there = TRUE /\ e.wanted[k].there = TRUE
      BY <2>2, <2>3, <2>4, NoRecordFacts DEF RowOK
    <2>6. rows'[k] = Written(rows[k], e.wanted[k], k, e.written)
      BY <1>1, <1>3, <2>2 DEF After, Touched
    <2>7. rows'[k] = [c \in Columns(k) |-> IF <<k, c>> \in e.written THEN e.wanted[k][c] ELSE rows[k][c]]
      BY <2>5, <2>6 DEF Written
    <2>8. \A c \in Columns(k) : /\ <<k, c>> \in e.written => rows'[k][c] = e.wanted[k][c]
                                /\ <<k, c>> \notin e.written => rows'[k][c] = rows[k][c]
      BY <2>7
    <2> QED BY <2>3, <2>5, <2>7, <2>8, ColumnsOf
  <1>4. k \in Touched(e) /\ Deletes(t, k) => rows'[k] = NoRecord
    BY <1>1, NoRecordFacts DEF After, Touched, Deletes
  <1>5. k \in Touched(e) /\ Inserts(t, k) => rows'[k] = e.wanted[k]
    BY <1>1 DEF After, Touched, Inserts
  <1> QED BY <1>2, <1>3, <1>4, <1>5

LEMMA AfterColumn ==
    ASSUME BaseInv, NEW t \in Editors, CommitEdit(t), NEW k \in Keys, k \in Touched(edit[t]), Updates(t, k),
           NEW c \in Columns(k)
    PROVE  rows'[k][c] = IF <<k, c>> \in edit[t].written THEN edit[t].wanted[k][c] ELSE rows[k][c]
  <1> DEFINE w == edit[t].written
             v == edit[t].wanted[k]
  <1>1. /\ <<k, c>> \in w => rows'[k][c] = v[c]
        /\ <<k, c>> \notin w => rows'[k][c] = rows[k][c]
    BY AfterFacts, Zenon
  <1> QED BY <1>1

\* The other threads keep their edits.
LEMMA CommitFacts ==
    ASSUME BaseInv, NEW t \in Editors, CommitEdit(t)
    PROVE /\ edit' = [edit EXCEPT ![t] = NoEdit] /\ edit'[t] = NoEdit
          /\ \A u \in Editors \ {t} : edit'[u] = edit[u]
          /\ collided \subseteq collided'
          /\ \A x \in edit[t].written \ collided' : \A u \in Editors \ {t} : x \notin edit[u].assigned
          /\ \A k \in Keys : k \in Touched(edit[t]) => Updates(t, k) \/ Deletes(t, k) \/ Inserts(t, k)
          /\ \A k \in Keys : \A c : <<k, c>> \in edit[t].written => k \in Touched(edit[t])
          /\ \A u \in Editors, k \in Keys : k \in Touched(edit[u]) => RowOK(k, edit[u].wanted[k])
  <1>1. edit' = [edit EXCEPT ![t] = NoEdit] /\ edit \in [Editors -> {edit[u] : u \in Editors}]
    BY DEF CommitEdit, BaseInv
  <1>2. edit'[t] = NoEdit /\ \A u \in Editors \ {t} : edit'[u] = edit[u]
    BY <1>1
  <1>3. collided' = collided \cup {x \in edit[t].written : \E o \in Editors : o # t /\ x \in edit[o].assigned}
    BY DEF CommitEdit
  <1>4. /\ collided \subseteq collided'
        /\ \A x \in edit[t].written \ collided' : \A u \in Editors \ {t} : x \notin edit[u].assigned
    BY <1>3
  <1>5. \A k \in Keys : \A c : <<k, c>> \in edit[t].written => k \in Touched(edit[t])
    <2> SUFFICES ASSUME NEW k \in Keys, NEW c, <<k, c>> \in edit[t].written PROVE k \in Touched(edit[t])
      OBVIOUS
    <2>1. <<k, c>>[1] = k
      OBVIOUS
    <2> QED BY <2>1 DEF Touched
  <1>6. /\ \A k \in Keys : k \in Touched(edit[t]) => Updates(t, k) \/ Deletes(t, k) \/ Inserts(t, k)
        /\ \A u \in Editors, k \in Keys : k \in Touched(edit[u]) => RowOK(k, edit[u].wanted[k])
    BY DEF BaseInv, BaseFits
  <1> QED BY <1>1, <1>2, <1>4, <1>5, <1>6

LEMMA NothingTouched ==
    Touched(NoEdit) = {} /\ NoEdit.written = {} /\ NoEdit.assigned = {} /\ NoEdit.loaded = {}
  BY DEF Touched, NoEdit

\* Well-formed rows and edits survive a commit.
LEMMA CommitKeepsBase == \A t \in Editors : BaseInv /\ CommitEdit(t) => BaseInv'
  <1> SUFFICES ASSUME NEW t \in Editors, BaseInv, CommitEdit(t) PROVE BaseInv'
    OBVIOUS
  <1>1. rows' \in [Keys -> {rows'[k] : k \in Keys}]
    BY DEF CommitEdit
  <1>2. \A k \in Keys : RowOK(k, rows'[k])
    <2> SUFFICES ASSUME NEW k \in Keys PROVE RowOK(k, rows'[k])
      OBVIOUS
    <2>1. RowOK(k, rows[k]) /\ (k \in Touched(edit[t]) => RowOK(k, edit[t].wanted[k]))
      BY DEF BaseInv, BaseFits
    <2>2. CASE k \notin Touched(edit[t])
      BY <2>1, <2>2, AfterFacts
    <2>3. CASE k \in Touched(edit[t]) /\ Updates(t, k)
      <3>1. /\ DOMAIN rows'[k] = Columns(k) /\ rows'[k].there = TRUE /\ rows[k].there
            /\ \A c \in Columns(k) : rows'[k][c] = edit[t].wanted[k][c] \/ rows'[k][c] = rows[k][c]
        BY <2>3, AfterFacts
      <3>2. edit[t].wanted[k].there
        BY <2>3 DEF Updates
      <3>3. k \in Upgrades => /\ "of" \in Columns(k) /\ "rolled" \in Columns(k)
                              /\ rows[k].of \in Machines /\ rows[k].rolled \in BOOLEAN
                              /\ edit[t].wanted[k].of \in Machines /\ edit[t].wanted[k].rolled \in BOOLEAN
        BY <2>1, <2>3, <3>1, <3>2, NoRecordFacts, ColumnsOf DEF RowOK
      <3>4. k \in Upgrades => rows'[k].of \in Machines /\ rows'[k].rolled \in BOOLEAN
        BY <3>1, <3>3
      <3> QED BY <3>1, <3>4 DEF RowOK
    <2>4. CASE k \in Touched(edit[t]) /\ Deletes(t, k)
      BY <2>4, AfterFacts, KeyKinds DEF RowOK, Deletes
    <2>5. CASE k \in Touched(edit[t]) /\ Inserts(t, k)
      BY <2>1, <2>5, AfterFacts
    <2> QED BY <2>2, <2>3, <2>4, <2>5, CommitFacts
  <1>3. edit' \in [Editors -> {edit'[u] : u \in Editors}]
    BY CommitFacts DEF BaseInv
  <1>4. ASSUME NEW u \in Editors
        PROVE BaseFits(u)'
    <2>1. CASE u = t
      BY <2>1, CommitFacts, NothingTouched DEF BaseFits
    <2>2. CASE u # t
      <3>1. edit'[u] = edit[u]
        BY <2>2, CommitFacts
      <3>2. edit'[u].written \subseteq Keys \X Names /\ edit'[u].assigned \subseteq Keys \X Names
        BY <3>1 DEF BaseInv, BaseFits
      <3>3. ASSUME NEW k \in Touched(edit'[u])
            PROVE RowOK(k, edit'[u].wanted[k]) /\ (Updates(u, k)' \/ Deletes(u, k)' \/ Inserts(u, k)')
        <4>1. k \in Touched(edit[u])
          BY <3>1
        <4>2. k \in Keys
          BY <3>2, <3>1, <4>1 DEF Touched
        <4>3. RowOK(k, edit[u].wanted[k]) /\ (Updates(u, k) \/ Deletes(u, k) \/ Inserts(u, k))
          BY <4>1 DEF BaseInv, BaseFits
        <4>4. Updates(u, k) => Updates(u, k)'
          BY <3>1 DEF Updates
        <4>5. Deletes(u, k) => Deletes(u, k)'
          BY <3>1 DEF Deletes
        <4>6. ASSUME Inserts(u, k) PROVE Inserts(u, k)'
          <5>1. k \notin Touched(edit[t])
            BY <4>6, <2>2 DEF Inserts
          <5>2. rows'[k] = rows[k]
            BY <5>1, <4>2, AfterFacts
          <5>3. \A v \in Editors \ {u} : k \notin Touched(edit'[v])
            <6> SUFFICES ASSUME NEW v \in Editors \ {u} PROVE k \notin Touched(edit'[v])
              OBVIOUS
            <6>1. CASE v = t
              BY <6>1, CommitFacts, NothingTouched
            <6>2. CASE v # t
              BY <6>2, CommitFacts, <4>6 DEF Inserts
            <6> QED BY <6>1, <6>2
          <5> QED BY <3>1, <4>6, <5>2, <5>3 DEF Inserts
        <4> QED BY <3>1, <4>3, <4>4, <4>5, <4>6
      <3> QED BY <3>2, <3>3 DEF BaseFits
    <2> QED BY <2>1, <2>2
  <1> QED BY <1>1, <1>2, <1>3, <1>4 DEF BaseInv

\* A machine is always there, an edit of it updates it.
LEMMA MachineThere ==
    ASSUME BaseInv, NEW m \in Machines
    PROVE /\ m \in Keys /\ rows[m].there /\ DOMAIN rows[m] = Columns(m) /\ "version" \in Columns(m)
          /\ \A t \in Editors : m \in Touched(edit[t]) => Updates(t, m)
  <1>1. m \in Keys /\ m \notin Reports /\ Columns(m) = {"there", "version"}
    BY KeyKinds, ColumnsOf
  <1>2. rows[m].there /\ DOMAIN rows[m] = Columns(m)
    BY <1>1 DEF BaseInv, RowOK
  <1>3. \A t \in Editors : m \in Touched(edit[t]) => Updates(t, m)
    BY <1>1, <1>2 DEF BaseInv, BaseFits, Deletes, Inserts
  <1> QED BY <1>1, <1>2, <1>3

LEMMA CommitKeepsMachines == \A t \in Editors : BaseInv /\ MachineInv /\ CommitEdit(t) => MachineInv'
  <1> SUFFICES ASSUME NEW t \in Editors, BaseInv, MachineInv, CommitEdit(t) PROVE MachineInv'
    OBVIOUS
  <1>1. ASSUME NEW m \in Machines
        PROVE /\ <<m, "version">> \notin collided' => rows'[m].version = shown'[m]
              /\ \A u \in Editors : VersionFits(u, m)'
    <2> DEFINE x == <<m, "version">>
    <2>1. \A u \in Editors : x \in edit[u].written => x \in edit[u].assigned
      BY DEF MachineInv, VersionFits
    <2>2. \A u \in Editors : x \in edit'[u].written => x \in edit'[u].assigned
      BY <2>1, CommitFacts, NothingTouched
    <2>3. ASSUME x \in edit[t].written PROVE rows'[m].version = edit[t].wanted[m].version
      <3>1. m \in Keys /\ "version" \in Columns(m)
        BY MachineThere
      <3>2. m \in Touched(edit[t])
        BY <2>3, <3>1, CommitFacts
      <3>3. Updates(t, m)
        BY <3>2, MachineThere
      <3> QED BY <2>3, <3>1, <3>2, <3>3, AfterFacts
    <2>4. x \notin edit[t].written => rows'[m].version = rows[m].version
      BY MachineThere, AfterFacts
    <2>5. shown'[m] = IF x \in edit[t].assigned THEN edit[t].wanted[m].version ELSE shown[m]
      BY DEF CommitEdit
    <2>6. ASSUME x \notin collided' PROVE rows'[m].version = shown'[m]
      <3>1. x \notin collided
        BY <2>6, CommitFacts
      <3>2. /\ rows[m].version = shown[m]
            /\ x \in edit[t].assigned /\ x \notin edit[t].written => edit[t].wanted[m].version = rows[m].version
        BY <3>1 DEF MachineInv, VersionFits
      <3> QED BY <2>1, <2>3, <2>4, <2>5, <3>2
    <2>7. ASSUME x \notin collided', NEW u \in Editors, x \in edit'[u].assigned, x \notin edit'[u].written
          PROVE edit'[u].wanted[m].version = rows'[m].version
      <3>1. u # t /\ edit'[u] = edit[u]
        BY <2>7, CommitFacts, NothingTouched
      <3>2. x \notin edit[t].written /\ x \notin collided
        BY <2>7, <3>1, CommitFacts
      <3>3. edit[u].wanted[m].version = rows[m].version
        BY <2>7, <3>1, <3>2 DEF MachineInv, VersionFits
      <3> QED BY <2>4, <3>1, <3>2, <3>3
    <2> QED BY <2>2, <2>6, <2>7 DEF VersionFits
  <1> QED BY <1>1 DEF MachineInv

\* An upgrade is never deleted.
LEMMA UpgradeTouched ==
    ASSUME BaseInv, NEW k \in Upgrades, NEW t \in Editors, k \in Touched(edit[t])
    PROVE Updates(t, k) \/ (Inserts(t, k) /\ k \notin edit[t].loaded)
  BY KeyKinds DEF BaseInv, BaseFits, Deletes, Inserts

LEMMA CommitKeepsUpgrades == \A t \in Editors : BaseInv /\ UpgradeInv /\ CommitEdit(t) => UpgradeInv'
  <1> SUFFICES ASSUME NEW t \in Editors, BaseInv, UpgradeInv, CommitEdit(t), NEW k \in Upgrades
               PROVE RolledBack(k)' /\ \A u \in Editors : StatusFits(u, k)'
    BY DEF UpgradeInv
  <1> DEFINE s == <<k, "status">>
             r == <<k, "rolled">>
             d == edit[t]
  <1>a. k \in Keys /\ Columns(k) = {"there", "of", "from", "to", "status", "rolled"}
    BY KeyKinds, ColumnsOf
  <1>b. k \in Touched(d) => Updates(t, k) \/ (Inserts(t, k) /\ k \notin d.loaded)
    BY UpgradeTouched
  <1>2. ASSUME s \notin collided'
        PROVE /\ s \notin collided
              /\ rows[k].there => (rows[k].rolled <=> rows[k].status = "ROLLED_BACK")
              /\ s \in d.written => \A u \in Editors \ {t} : s \notin edit[u].assigned
    BY <1>2, CommitFacts DEF UpgradeInv, RolledBack
  <1>3. k \in Touched(d) /\ Updates(t, k) =>
          /\ k \in d.loaded /\ rows[k].there /\ rows'[k].there
          /\ rows'[k].status = IF s \in d.written THEN d.wanted[k].status ELSE rows[k].status
          /\ rows'[k].rolled = IF r \in d.written THEN d.wanted[k].rolled ELSE rows[k].rolled
    <2> SUFFICES ASSUME k \in Touched(d), Updates(t, k)
                 PROVE  /\ k \in d.loaded /\ rows[k].there /\ rows'[k].there
                        /\ rows'[k].status = IF s \in d.written THEN d.wanted[k].status ELSE rows[k].status
                        /\ rows'[k].rolled = IF r \in d.written THEN d.wanted[k].rolled ELSE rows[k].rolled
      OBVIOUS
    <2>1. k \in d.loaded /\ rows[k].there /\ rows'[k].there
      BY <1>a, AfterFacts DEF Updates
    <2>2. "status" \in Columns(k) /\ "rolled" \in Columns(k)
      BY <1>a
    <2>3. rows'[k].status = IF s \in d.written THEN d.wanted[k].status ELSE rows[k].status
      BY <1>a, <2>2, AfterColumn
    <2>4. rows'[k].rolled = IF r \in d.written THEN d.wanted[k].rolled ELSE rows[k].rolled
      BY <1>a, <2>2, AfterColumn
    <2> QED BY <2>1, <2>3, <2>4
  <1>4. k \in Touched(d) /\ Inserts(t, k) => rows'[k] = d.wanted[k] /\ s \in d.written
    BY <1>a, AfterFacts DEF Inserts
  <1>5. k \notin Touched(d) => rows'[k] = rows[k]
    BY <1>a, AfterFacts
  <1>6. s \notin collided =>
           /\ k \in Touched(d) /\ Inserts(t, k) => ~d.wanted[k].rolled /\ d.wanted[k].status # "ROLLED_BACK"
           /\ k \in d.loaded =>
                /\ s \in d.assigned /\ s \notin d.written => d.wanted[k].status = rows[k].status
                /\ s \in d.written /\ d.wanted[k].status # "ROLLED_BACK" => ~rows[k].rolled
                /\ r \in d.written \/ (s \in d.written /\ d.wanted[k].status = "ROLLED_BACK") =>
                     /\ d.wanted[k].rolled /\ d.wanted[k].status = "ROLLED_BACK" /\ s \in d.assigned
                     /\ r \in d.written \/ rows[k].rolled
    BY DEF UpgradeInv, StatusFits
  <1>7. ASSUME s \notin collided', rows'[k].there PROVE rows'[k].rolled <=> rows'[k].status = "ROLLED_BACK"
    <2>1. CASE k \notin Touched(d)
      BY <2>1, <1>2, <1>5, <1>7
    <2>2. CASE k \in Touched(d) /\ Inserts(t, k)
      BY <2>2, <1>2, <1>4, <1>6, <1>7
    <2>3. CASE k \in Touched(d) /\ Updates(t, k)
      <3>1. CASE s \in d.written /\ d.wanted[k].status = "ROLLED_BACK"
        BY <2>3, <3>1, <1>2, <1>3, <1>6, <1>7
      <3>2. CASE s \in d.written /\ d.wanted[k].status # "ROLLED_BACK"
        BY <2>3, <3>2, <1>2, <1>3, <1>6, <1>7
      <3>3. CASE s \notin d.written
        BY <2>3, <3>3, <1>2, <1>3, <1>6, <1>7
      <3> QED BY <3>1, <3>2, <3>3
    <2> QED BY <2>1, <2>2, <2>3, <1>b
  <1>8. ASSUME NEW u \in Editors PROVE StatusFits(u, k)'
    <2>1. CASE u = t
      BY <2>1, CommitFacts, NothingTouched DEF StatusFits
    <2>2. CASE u # t
      <3> DEFINE e == edit[u]
      <3>1. edit'[u] = e
        BY <2>2, CommitFacts
      <3>2. s \notin collided' /\ s \in d.written => s \notin e.assigned
        BY <1>2, <2>2
      <3>4. StatusFits(u, k)
        BY DEF UpgradeInv
      <3>5. k \in Touched(e) /\ Inserts(u, k)' => Inserts(u, k)
        BY <3>1, UpgradeTouched DEF Inserts, Updates
      <3>6. s \notin collided' /\ s \in e.assigned => rows'[k].status = rows[k].status
        BY <3>2, <1>3, <1>4, <1>5, <1>b
      <3>7. s \notin collided' /\ s \in e.assigned => (rows'[k].rolled = rows[k].rolled \/
                (r \in d.written /\ rows'[k].rolled = d.wanted[k].rolled /\ k \in d.loaded /\ rows[k].there /\ s \notin d.written))
        BY <3>2, <1>3, <1>4, <1>5, <1>b
      <3>8. s \notin collided' /\ s \in e.assigned /\ ~rows[k].rolled => ~rows'[k].rolled
        BY <3>7, <1>6, <1>2
      <3>9. s \notin collided' /\ s \in e.assigned /\ rows[k].rolled => rows'[k].rolled
        BY <3>7, <1>6, <1>2
      <3> QED BY <3>1, <3>4, <3>5, <3>6, <3>8, <3>9, <1>2 DEF StatusFits
    <2> QED BY <2>1, <2>2
  <1> QED BY <1>7, <1>8 DEF RolledBack

LEMMA CommitKeepsReports == \A t \in Editors : BaseInv /\ ReportInv /\ CommitEdit(t) => ReportInv'
  <1> SUFFICES ASSUME NEW t \in Editors, BaseInv, ReportInv, CommitEdit(t), NEW k \in Reports
               PROVE Scheduled(k)' /\ \A u \in Editors : ScheduleFits(u, k)'
    BY DEF ReportInv
  <1> DEFINE n == <<k, "next">>
             f == <<k, "frequency">>
             d == edit[t]
  <1>a. k \in Keys /\ Columns(k) = {"there", "frequency", "last", "next"}
    BY KeyKinds, ColumnsOf
  <1>b. k \in Touched(d) => Updates(t, k) \/ Deletes(t, k) \/ Inserts(t, k)
    BY <1>a, CommitFacts
  <1>2. ASSUME n \notin collided'
        PROVE /\ n \notin collided
              /\ n \in d.written => \A u \in Editors \ {t} : n \notin edit[u].assigned
    BY <1>2, CommitFacts
  <1>3. k \in Touched(d) /\ Updates(t, k) =>
          /\ rows[k].there
          /\ rows'[k].next = IF n \in d.written THEN d.wanted[k].next ELSE rows[k].next
          /\ rows'[k].frequency = IF f \in d.written THEN d.wanted[k].frequency ELSE rows[k].frequency
    BY <1>a, AfterFacts
  <1>4. k \in Touched(d) /\ Inserts(t, k) => rows'[k] = d.wanted[k] /\ n \in d.written /\ f \in d.written
    BY <1>a, AfterFacts DEF Inserts
  <1>5. k \in Touched(d) /\ Deletes(t, k) => ~rows'[k].there
    BY <1>a, AfterFacts, NoRecordFacts
  <1>6. k \notin Touched(d) => rows'[k] = rows[k] /\ n \notin d.written /\ f \notin d.written
    BY <1>a, AfterFacts, CommitFacts
  <1>7. n \notin collided =>
          /\ rows[k].there => rows[k].next.every = rows[k].frequency
          /\ \A u \in Editors : LET e == edit[u] IN
               /\ f \in e.written => n \in e.written
               /\ n \in e.written /\ f \in e.written => e.wanted[k].next.every = e.wanted[k].frequency
               /\ n \in e.written /\ f \notin e.written /\ rows[k].there =>
                     e.wanted[k].next.every = rows[k].frequency
    BY DEF ReportInv, Scheduled, ScheduleFits
  <1>8. ASSUME n \notin collided', rows'[k].there PROVE rows'[k].next.every = rows'[k].frequency
    <2>1. CASE k \notin Touched(d)
      BY <2>1, <1>2, <1>6, <1>7, <1>8
    <2>2. CASE k \in Touched(d) /\ Inserts(t, k)
      BY <2>2, <1>2, <1>4, <1>7, <1>8
    <2>3. CASE k \in Touched(d) /\ Updates(t, k)
      BY <2>3, <1>2, <1>3, <1>7, <1>8
    <2> QED BY <2>1, <2>2, <2>3, <1>b, <1>5, <1>8
  <1>9. ASSUME NEW u \in Editors PROVE ScheduleFits(u, k)'
    <2>1. CASE u = t
      BY <2>1, CommitFacts, NothingTouched DEF ScheduleFits
    <2>2. CASE u # t
      <3> DEFINE e == edit[u]
      <3>1. edit'[u] = e
        BY <2>2, CommitFacts
      <3>2. n \notin collided' /\ n \in d.written => n \notin e.assigned
        BY <1>2, <2>2
      <3>3. n \in e.written => n \in e.assigned
        BY DEF ReportInv, ScheduleFits
      <3>4. n \notin collided' /\ n \in e.written => n \notin d.written /\ f \notin d.written
        BY <3>2, <3>3, <1>2, <1>7
      <3>5. n \notin collided' /\ n \in e.written /\ rows'[k].there => rows[k].there /\ rows'[k].frequency = rows[k].frequency
        BY <3>4, <1>b, <1>3, <1>4, <1>5, <1>6
      <3> QED BY <3>1, <3>3, <3>5, <1>2, <1>7 DEF ScheduleFits
    <2> QED BY <2>1, <2>2
  <1> QED BY <1>8, <1>9 DEF Scheduled

LEMMA LinkKeys ==
    ASSUME NEW x \in LinkColumns
    PROVE /\ x[1] \in Cases /\ x[1] \in Keys /\ x[1] \notin Reports /\ x[2] \in Columns(x[1])
          /\ x[2] # "there" /\ x = <<x[1], x[2]>>
  BY KeyKinds, ColumnsOf DEF LinkColumns

\* A case that is there stays.
LEMMA CaseKept ==
    ASSUME BaseInv, NEW t \in Editors, CommitEdit(t), NEW k \in Cases, rows[k].there
    PROVE rows'[k].there
  <1>1. k \in Keys /\ k \notin Reports
    BY KeyKinds
  <1>2. k \in Touched(edit[t]) => Updates(t, k)
    BY <1>1, CommitFacts DEF Deletes, Inserts
  <1> QED BY <1>1, <1>2, AfterFacts

LEMMA CommitKeepsCases == \A t \in Editors : BaseInv /\ CaseInv /\ CommitEdit(t) => CaseInv'
  <1> SUFFICES ASSUME NEW t \in Editors, BaseInv, CaseInv, CommitEdit(t) PROVE CaseInv'
    OBVIOUS
  <1> DEFINE d == edit[t]
  <1>2. ASSUME NEW x \in LinkColumns PROVE AllLinked(x)' /\ \A u \in Editors : LinksFit(u, x)'
    <2> DEFINE k == x[1]
               c == x[2]
    <2>0. k \in Cases /\ k \in Keys /\ k \notin Reports /\ c \in Columns(k) /\ x = <<k, c>>
      BY LinkKeys
    <2>1. /\ ~rows[k].there => linked[x] = {}
          /\ x \in d.written => x \in d.assigned
          /\ x \in d.assigned /\ k \in d.loaded => rows[k].there
          /\ x \in d.assigned /\ k \notin d.loaded => d.wanted[k][c] = {} /\ x \in d.written
          /\ x \in d.assigned /\ k \in d.loaded /\ x \notin collided =>
                /\ rows[k][c] \subseteq d.wanted[k][c]
                /\ x \notin d.written => d.wanted[k][c] = rows[k][c]
          /\ rows[k].there /\ x \notin collided => rows[k][c] = linked[x]
      BY DEF CaseInv, AllLinked, LinksFit
    <2>2. linked'[x] = IF x \in d.assigned THEN linked[x] \cup d.wanted[k][c] ELSE linked[x]
      BY DEF CommitEdit
    <2>3. k \in Touched(d) => Updates(t, k) \/ (Inserts(t, k) /\ k \notin d.loaded /\ ~rows[k].there)
      BY <2>0, CommitFacts DEF Deletes, Inserts
    <2>4. x \in d.written => k \in Touched(d)
      BY <2>0, CommitFacts
    <2>5. k \in Touched(d) /\ Updates(t, k) =>
            /\ k \in d.loaded /\ rows[k].there /\ rows'[k].there
            /\ rows'[k][c] = IF x \in d.written THEN d.wanted[k][c] ELSE rows[k][c]
      <3> SUFFICES ASSUME k \in Touched(d), Updates(t, k)
                   PROVE /\ k \in d.loaded /\ rows[k].there /\ rows'[k].there
                         /\ rows'[k][c] = IF x \in d.written THEN d.wanted[k][c] ELSE rows[k][c]
        OBVIOUS
      <3>1. k \in d.loaded
        BY DEF Updates
      <3>2. /\ rows[k].there /\ rows'[k].there
            /\ <<k, c>> \in d.written => rows'[k][c] = d.wanted[k][c]
            /\ <<k, c>> \notin d.written => rows'[k][c] = rows[k][c]
        <4>1. rows[k].there /\ rows'[k].there
          BY <2>0, AfterFacts
        <4>2. rows'[k][c] = IF <<k, c>> \in d.written THEN d.wanted[k][c] ELSE rows[k][c]
          BY <2>0, AfterColumn
        <4> QED BY <4>1, <4>2
      <3>3. x \in d.written <=> <<k, c>> \in d.written
        BY <2>0
      <3> QED BY <3>1, <3>2, <3>3
    <2>6. k \in Touched(d) /\ Inserts(t, k) => /\ rows'[k] = d.wanted[k] /\ rows'[k].there
                                               /\ x \in d.written
      BY <2>0, AfterFacts DEF Inserts
    <2>7. k \notin Touched(d) => rows'[k] = rows[k]
      BY <2>0, AfterFacts
    <2>8. rows[k].there => rows'[k].there
      BY <2>0, CaseKept
    <2>9. ASSUME ~rows'[k].there PROVE linked'[x] = {}
      <3>1. k \notin Touched(d) /\ ~rows[k].there
        BY <2>3, <2>5, <2>6, <2>8, <2>9
      <3>2. x \notin d.assigned
        BY <3>1, <2>1, <2>4
      <3> QED BY <3>1, <3>2, <2>1, <2>2
    <2>10. ASSUME rows'[k].there, x \notin collided' PROVE rows'[k][c] = linked'[x]
      <3>0. x \notin collided
        BY <2>10, CommitFacts
      <3>1. CASE x \in d.written /\ k \in d.loaded
        <4>1. rows'[k][c] = d.wanted[k][c] /\ rows[k].there
          BY <3>1, <2>3, <2>4, <2>5
        <4>2. rows[k][c] \subseteq d.wanted[k][c] /\ rows[k][c] = linked[x] /\ x \in d.assigned
          BY <3>0, <3>1, <4>1, <2>1
        <4> QED BY <4>1, <4>2, <2>2
      <3>2. CASE x \in d.written /\ k \notin d.loaded
        <4>1. rows'[k][c] = d.wanted[k][c] /\ ~rows[k].there
          BY <3>2, <2>3, <2>4, <2>5, <2>6
        <4>2. d.wanted[k][c] = {} /\ linked[x] = {} /\ x \in d.assigned
          BY <3>2, <4>1, <2>1
        <4> QED BY <4>1, <4>2, <2>2
      <3>3. CASE x \notin d.written
        <4>1. rows'[k][c] = rows[k][c] /\ rows[k].there
          BY <3>3, <2>3, <2>5, <2>6, <2>7, <2>10
        <4>2. linked'[x] = linked[x]
          BY <3>0, <3>3, <4>1, <2>1, <2>2
        <4> QED BY <3>0, <4>1, <4>2, <2>1
      <3> QED BY <3>1, <3>2, <3>3
    <2>11. ASSUME NEW u \in Editors PROVE LinksFit(u, x)'
      <3>1. CASE u = t
        BY <3>1, CommitFacts, NothingTouched DEF LinksFit
      <3>2. CASE u # t
        <4> DEFINE e == edit[u]
        <4>1. edit'[u] = e
          BY <3>2, CommitFacts
        <4>2. LinksFit(u, x)
          BY DEF CaseInv
        <4>3. x \in e.assigned /\ x \notin collided' => x \notin d.written /\ x \notin collided
          BY <3>2, CommitFacts
        <4>4. x \in e.assigned /\ k \in e.loaded /\ x \notin collided' => rows'[k][c] = rows[k][c]
          BY <4>2, <4>3, <2>3, <2>5, <2>7 DEF LinksFit
        <4> QED BY <4>1, <4>2, <4>3, <4>4, <2>8 DEF LinksFit
      <3> QED BY <3>1, <3>2
    <2> QED BY <2>9, <2>10, <2>11 DEF AllLinked
  <1> QED BY <1>2 DEF CaseInv

-----------------------------------------------------------------------------
(* The requests                                                              *)

\* A thread without a request, and one whose request nothing has met.
LEMMA IdleFits ==
    ASSUME NEW t \in Editors, edit'[t] = NoEdit
    PROVE EditFits(t)'
  BY NothingTouched DEF EditFits, BaseFits, VersionFits, StatusFits, ScheduleFits, LinksFit

LEMMA SameFits ==
    ASSUME ConsoleInv, rows' = rows, collided' = collided, NEW t \in Editors, edit'[t] = edit[t],
           \A k \in Keys : k \in Touched(edit[t]) /\ Inserts(t, k) => Inserts(t, k)'
    PROVE EditFits(t)'
  <1> USE DEF ConsoleInv
  <1>1. BaseFits(t)'
    <2>1. BaseFits(t)
      BY DEF BaseInv
    <2>2. Touched(edit[t]) \subseteq Keys
      BY <2>1 DEF BaseFits, Touched
    <2>3. \A k \in Keys : (Updates(t, k) => Updates(t, k)') /\ (Deletes(t, k) => Deletes(t, k)')
      BY DEF Updates, Deletes
    <2> QED BY <2>1, <2>2, <2>3 DEF BaseFits
  <1>2. \A m \in Machines : VersionFits(t, m)'
    BY DEF MachineInv, VersionFits
  <1>3. ASSUME NEW k \in Upgrades PROVE StatusFits(t, k)'
    <2>1. StatusFits(t, k)
      BY DEF UpgradeInv
    <2>2. k \in Touched(edit'[t]) /\ Inserts(t, k)' => Inserts(t, k)
      BY UpgradeTouched DEF Inserts, Updates
    <2> QED BY <2>1, <2>2 DEF StatusFits
  <1>4. \A k \in Reports : ScheduleFits(t, k)'
    BY DEF ReportInv, ScheduleFits
  <1>5. \A x \in LinkColumns : LinksFit(t, x)'
    BY DEF CaseInv, LinksFit
  <1> QED BY <1>1, <1>2, <1>3, <1>4, <1>5 DEF EditFits

\* A step that leaves the rows alone keeps the invariant when the threads fit.
LEMMA RowsAlone ==
    ASSUME ConsoleInv, rows' = rows, linked' = linked, shown' = shown, collided' = collided,
           edit' \in [Editors -> {edit'[t] : t \in Editors}],
           \A t \in Editors : EditFits(t)'
    PROVE ConsoleInv'
  <1> USE DEF ConsoleInv, EditFits
  <1>1. BaseInv'
    BY DEF BaseInv, RowOK
  <1>2. MachineInv'
    BY DEF MachineInv
  <1>3. UpgradeInv'
    BY DEF UpgradeInv, RolledBack
  <1>4. ReportInv'
    BY DEF ReportInv, Scheduled
  <1>5. CaseInv'
    <2>1. \A x \in LinkColumns : AllLinked(x)'
      BY DEF CaseInv, AllLinked
    <2> QED BY <2>1 DEF CaseInv
  <1> QED BY <1>1, <1>2, <1>3, <1>4, <1>5

\* A request that is given up leaves the rows and the other requests alone.
LEMMA AbandonKeeps == \A t \in Editors : ConsoleInv /\ Abandon(t) => ConsoleInv'
  <1> SUFFICES ASSUME NEW t \in Editors, ConsoleInv, Abandon(t) PROVE ConsoleInv'
    OBVIOUS
  <1>1. rows' = rows /\ linked' = linked /\ shown' = shown /\ collided' = collided
    BY DEF Abandon
  <1>2. edit' = [edit EXCEPT ![t] = NoEdit] /\ edit \in [Editors -> {edit[u] : u \in Editors}]
    BY DEF Abandon, ConsoleInv, BaseInv
  <1>3. edit'[t] = NoEdit /\ \A u \in Editors \ {t} : edit'[u] = edit[u]
    BY <1>2
  <1>4. \A u \in Editors \ {t}, k \in Keys : Inserts(u, k) => Inserts(u, k)'
    BY <1>1, <1>3, NothingTouched DEF Inserts
  <1>5. ASSUME NEW u \in Editors
        PROVE EditFits(u)'
    <2>1. CASE u = t
      BY <2>1, <1>3, IdleFits
    <2>2. CASE u # t
      BY <2>2, <1>1, <1>3, <1>4, SameFits
    <2> QED BY <2>1, <2>2
  <1>6. edit' \in [Editors -> {edit'[u] : u \in Editors}]
    BY <1>2
  <1> QED BY <1>1, <1>5, <1>6, RowsAlone


\* What a service may assign: rows of its keys that are there or free; the
\* columns that it changes; a rolled back status together with the mark, a step
\* of an upgrade that is not rolled back; a next run that fits the frequency;
\* links besides those that there are.
Sound(wanted, assigned) ==
    /\ DOMAIN wanted \subseteq Keys /\ assigned \subseteq (DOMAIN wanted) \X Names
    /\ \A k \in DOMAIN wanted : /\ RowOK(k, wanted[k]) /\ (rows[k].there \/ (Free(k) /\ wanted[k].there))
                                /\ wanted[k].there \/ k \in Reports
    /\ \A m \in Machines \cap DOMAIN wanted : wanted[m].version = rows[m].version \/ <<m, "version">> \in assigned
    /\ \A k \in Upgrades \cap DOMAIN wanted :
         LET assigns == <<k, "status">> \in assigned  w == wanted[k] IN
         IF ~rows[k].there THEN assigns /\ ~w.rolled /\ w.status # "ROLLED_BACK"
         ELSE \/ assigns /\ w.rolled /\ w.status = "ROLLED_BACK"
              \/ /\ w.rolled = rows[k].rolled
                 /\ \/ w.status = rows[k].status
                    \/ assigns /\ w.status # "ROLLED_BACK" /\ rows[k].status # "ROLLED_BACK"
    /\ \A k \in Reports \cap DOMAIN wanted :
         wanted[k].there => wanted[k].next.every = wanted[k].frequency /\ <<k, "next">> \in assigned
    /\ \A x \in LinkColumns : x[1] \in DOMAIN wanted =>
         LET w == wanted[x[1]][x[2]] IN
         IF ~rows[x[1]].there THEN w = {} /\ x \in assigned
         ELSE rows[x[1]][x[2]] \subseteq w /\ (w = rows[x[1]][x[2]] \/ x \in assigned)

\* The columns that a request writes: those that differ from the ones loaded,
\* and lists of links that it assigns.
LEMMA WrittenFacts ==
    ASSUME NEW wanted, NEW assigned, assigned \subseteq (DOMAIN wanted) \X Names, NEW again \in SUBSET (assigned \cap LinkColumns)
    PROVE LET written == Changed(wanted) \cup again IN
          /\ \A x \in written : x[1] \in DOMAIN wanted
          /\ \A k : \A c : <<k, c>> \in written => k \in DOMAIN wanted
          /\ \A k \in DOMAIN wanted : \A c \in DOMAIN wanted[k] :
               /\ c \notin DOMAIN rows[k] => <<k, c>> \in written
               /\ wanted[k][c] # rows[k][c] => <<k, c>> \in written
               /\ c \in DOMAIN rows[k] /\ wanted[k][c] = rows[k][c] /\ <<k, c>> \in written => <<k, c>> \in again
          /\ \A k \in DOMAIN wanted : \A c : <<k, c>> \in written => c \in DOMAIN wanted[k] \/ <<k, c>> \in again
  <1>1. \A k : \A c : <<k, c>> \in Changed(wanted) <=>
            k \in DOMAIN wanted /\ c \in DOMAIN wanted[k] /\ (c \notin DOMAIN rows[k] \/ wanted[k][c] # rows[k][c])
    BY DEF Changed
  <1>2. \A x \in Changed(wanted) : x = <<x[1], x[2]>> /\ x[1] \in DOMAIN wanted
    BY DEF Changed
  <1>3. \A x \in again : x = <<x[1], x[2]>> /\ x[1] \in DOMAIN wanted
    OBVIOUS
  <1> QED BY <1>1, <1>2, <1>3

\* A sound request begins.
LEMMA BeginKeeps ==
    ASSUME ConsoleInv, NEW t \in Editors, NEW wanted, NEW assigned, Sound(wanted, assigned), Begin(t, wanted, assigned)
    PROVE ConsoleInv'
  <1> USE DEF ConsoleInv
  <1>1. PICK again \in SUBSET (assigned \cap LinkColumns) :
          edit' = [edit EXCEPT ![t] = [loaded |-> {k \in DOMAIN wanted : rows[k].there}, wanted |-> wanted,
                                       assigned |-> assigned, written |-> Changed(wanted) \cup again]]
    BY DEF Begin
  <1>2. /\ rows' = rows /\ linked' = linked /\ shown' = shown /\ collided' = collided /\ edit[t] = NoEdit
        /\ edit \in [Editors -> {edit[u] : u \in Editors}]
    BY DEF Begin, BaseInv
  <1> DEFINE e == edit'[t]
             written == Changed(wanted) \cup again
  <1>3. /\ e.loaded = {k \in DOMAIN wanted : rows[k].there} /\ e.wanted = wanted
        /\ e.assigned = assigned /\ e.written = written
    BY <1>1, <1>2
  <1>4. \A u \in Editors \ {t} : edit'[u] = edit[u]
    BY <1>1, <1>2
  <1>5. edit' \in [Editors -> {edit'[u] : u \in Editors}]
    BY <1>1, <1>2
  <1>6. assigned \subseteq (DOMAIN wanted) \X Names /\ DOMAIN wanted \subseteq Keys
    BY DEF Sound
  <1>7. /\ \A x \in written : x[1] \in DOMAIN wanted
        /\ \A k : \A c : <<k, c>> \in written => k \in DOMAIN wanted
        /\ \A k \in DOMAIN wanted : \A c \in DOMAIN wanted[k] :
             /\ c \notin DOMAIN rows[k] => <<k, c>> \in written
             /\ wanted[k][c] # rows[k][c] => <<k, c>> \in written
             /\ c \in DOMAIN rows[k] /\ wanted[k][c] = rows[k][c] /\ <<k, c>> \in written => <<k, c>> \in again
        /\ \A k \in DOMAIN wanted : \A c : <<k, c>> \in written => c \in DOMAIN wanted[k] \/ <<k, c>> \in again
    BY <1>6, WrittenFacts
  <1>8. Touched(e) \subseteq DOMAIN wanted
    BY <1>3, <1>7 DEF Touched
  <1>9. \A x \in again : x \in LinkColumns /\ x \in assigned /\ x[1] \in Cases
    BY LinkKeys
  <1>10. \A k \in DOMAIN wanted : /\ k \in Keys /\ RowOK(k, rows[k]) /\ RowOK(k, wanted[k])
                                  /\ rows[k].there => DOMAIN rows[k] = Columns(k)
                                  /\ wanted[k].there => DOMAIN wanted[k] = Columns(k)
    BY <1>6, NoRecordFacts DEF Sound, BaseInv, RowOK
  <1>11. \A u \in Editors \ {t}, k \in Keys : k \in Touched(edit[u]) /\ Inserts(u, k) => Inserts(u, k)'
    <2> SUFFICES ASSUME NEW u \in Editors \ {t}, NEW k \in Keys, k \in Touched(edit[u]), Inserts(u, k) PROVE Inserts(u, k)'
      OBVIOUS
    <2>1. ~rows[k].there /\ ~Free(k)
      BY DEF Inserts, Free, Touched
    <2>2. k \notin Touched(e)
      BY <1>8, <2>1 DEF Sound
    <2> QED BY <1>2, <1>4, <2>2 DEF Inserts
  <1>12. BaseFits(t)'
    <2>1. written \subseteq Keys \X Names
      <3>1. \A k \in DOMAIN wanted : DOMAIN wanted[k] \subseteq Names
        BY <1>10, ColumnsOf, NoRecordFacts DEF RowOK, Names
      <3>2. Changed(wanted) \subseteq Keys \X Names
        BY <1>6, <3>1 DEF Changed
      <3> QED BY <1>6, <3>2
    <2>2. ASSUME NEW k \in Touched(e)
          PROVE RowOK(k, wanted[k]) /\ (Updates(t, k)' \/ Deletes(t, k)' \/ Inserts(t, k)')
      <3>1. k \in DOMAIN wanted /\ RowOK(k, wanted[k])
        BY <1>8, <1>10
      <3>2. CASE rows[k].there /\ wanted[k].there
        BY <1>3, <3>1, <3>2 DEF Updates
      <3>3. CASE rows[k].there /\ ~wanted[k].there
        <4>1. k \in Reports /\ k \in e.loaded
          BY <1>3, <3>1, <3>3 DEF Sound
        <4>2. wanted[k] = NoRecord
          BY <1>10, <3>1, <3>3, NoRecordFacts
        <4>3. Deletes(t, k)'
          BY <1>3, <4>1, <4>2 DEF Deletes
        <4> QED BY <3>1, <4>3
      <3>4. CASE ~rows[k].there
        <4>1. Free(k) /\ wanted[k].there
          BY <3>1, <3>4 DEF Sound
        <4>2. \A u \in Editors \ {t} : k \notin Touched(edit'[u])
          BY <1>4, <4>1 DEF Free, Touched
        <4>3. rows[k] = NoRecord /\ DOMAIN rows[k] = {"there"}
          BY <1>10, <3>1, <3>4, NoRecordFacts
        <4>4. ASSUME NEW c \in Columns(k) PROVE <<k, c>> \in written
          <5>1. c \in DOMAIN wanted[k]
            BY <1>10, <3>1, <4>1
          <5>2. c = "there" => wanted[k][c] # rows[k][c]
            BY <4>1, <3>4
          <5> QED BY <1>7, <3>1, <4>3, <5>1, <5>2
        <4> QED BY <1>2, <1>3, <3>1, <3>4, <4>1, <4>2, <4>4 DEF Inserts
      <3> QED BY <3>1, <3>2, <3>3, <3>4
    <2> QED BY <1>3, <1>6, <2>1, <2>2 DEF BaseFits
  <1>13. ASSUME NEW m \in Machines PROVE VersionFits(t, m)'
    <2> DEFINE x == <<m, "version">>
    <2>1. m \notin Cases /\ DOMAIN rows[m] = Columns(m) /\ "version" \in Columns(m) /\ rows[m].there /\ m \notin Reports
      BY MachineThere, KeyKinds
    <2>2. x \notin again
      BY <1>9, <2>1
    <2>3. x \in assigned => m \in DOMAIN wanted
      BY <1>6
    <2>4. m \in DOMAIN wanted => wanted[m].there /\ DOMAIN wanted[m] = Columns(m)
      BY <1>10, <2>1 DEF Sound
    <2>5. x \in written => m \in DOMAIN wanted /\ wanted[m].version # rows[m].version
      BY <1>7, <2>1, <2>2, <2>4
    <2>6. m \in DOMAIN wanted /\ x \notin written => wanted[m].version = rows[m].version
      BY <1>7, <2>1, <2>4
    <2>7. x \in written => x \in assigned
      BY <2>5 DEF Sound
    <2> QED BY <1>2, <1>3, <2>3, <2>6, <2>7 DEF VersionFits
  <1>14. ASSUME NEW k \in Upgrades PROVE StatusFits(t, k)'
    <2> DEFINE s == <<k, "status">>
               r == <<k, "rolled">>
               w == wanted[k]
    <2>1. /\ k \in Keys /\ k \notin Cases /\ k \notin Reports
          /\ Columns(k) = {"there", "of", "from", "to", "status", "rolled"}
      BY KeyKinds, ColumnsOf
    <2>2. s \notin again /\ r \notin again
      BY <1>9, <2>1
    <2>3. k \in DOMAIN wanted => w.there /\ DOMAIN w = Columns(k)
      BY <1>10, <2>1 DEF Sound
    <2>4. s \in written \/ r \in written \/ s \in assigned \/ k \in Touched(e) => k \in DOMAIN wanted
      BY <1>6, <1>7, <1>8
    <2>5. k \in DOMAIN wanted /\ rows[k].there =>
            (s \in written <=> w.status # rows[k].status) /\ (r \in written <=> w.rolled # rows[k].rolled)
      BY <1>7, <1>10, <2>1, <2>2, <2>3
    <2>6. k \in DOMAIN wanted =>
            LET assigns == s \in assigned IN
            IF ~rows[k].there THEN assigns /\ ~w.rolled /\ w.status # "ROLLED_BACK"
            ELSE \/ assigns /\ w.rolled /\ w.status = "ROLLED_BACK"
                 \/ /\ w.rolled = rows[k].rolled
                    /\ \/ w.status = rows[k].status
                       \/ assigns /\ w.status # "ROLLED_BACK" /\ rows[k].status # "ROLLED_BACK"
      BY DEF Sound
    <2>7. s \in written => s \in assigned
      BY <2>4, <2>5, <2>6
    <2>8. s \notin collided /\ rows[k].there => (rows[k].rolled <=> rows[k].status = "ROLLED_BACK")
      BY DEF UpgradeInv, RolledBack
    <2>9. k \in Touched(e) /\ Inserts(t, k)' => ~w.rolled /\ w.status # "ROLLED_BACK"
      BY <1>2, <2>4, <2>6 DEF Inserts
    <2>10. k \in e.loaded => k \in DOMAIN wanted /\ rows[k].there
      BY <1>3
    <2>11. ASSUME s \notin collided, k \in e.loaded
           PROVE /\ s \in assigned /\ s \notin written => w.status = rows[k].status
                 /\ s \in written /\ w.status # "ROLLED_BACK" => ~rows[k].rolled
                 /\ r \in written \/ (s \in written /\ w.status = "ROLLED_BACK") =>
                      /\ w.rolled /\ w.status = "ROLLED_BACK" /\ s \in assigned
                      /\ r \in written \/ rows[k].rolled
      <3>1. w.rolled \in BOOLEAN /\ rows[k].rolled \in BOOLEAN
        BY <1>10, <2>1, <2>3, <2>10, <2>11, NoRecordFacts DEF RowOK
      <3>2. CASE s \in assigned /\ w.rolled /\ w.status = "ROLLED_BACK"
        BY <3>1, <3>2, <2>5, <2>8, <2>10, <2>11
      <3>3. CASE w.rolled = rows[k].rolled /\ w.status = rows[k].status
        BY <3>3, <2>5, <2>10, <2>11
      <3>4. CASE /\ w.rolled = rows[k].rolled
                 /\ s \in assigned /\ w.status # "ROLLED_BACK" /\ rows[k].status # "ROLLED_BACK"
        BY <3>4, <2>5, <2>8, <2>10, <2>11
      <3> QED BY <3>2, <3>3, <3>4, <2>6, <2>10, <2>11
    <2> QED BY <1>2, <1>3, <2>7, <2>9, <2>11 DEF StatusFits
  <1>15. ASSUME NEW k \in Reports PROVE ScheduleFits(t, k)'
    <2> DEFINE n == <<k, "next">>
               f == <<k, "frequency">>
               w == wanted[k]
    <2>1. k \in Keys /\ k \notin Cases /\ Columns(k) = {"there", "frequency", "last", "next"}
      BY KeyKinds, ColumnsOf
    <2>2. n \notin again /\ f \notin again
      BY <1>9, <2>1
    <2>3. n \in written \/ f \in written => k \in DOMAIN wanted /\ w.there /\ DOMAIN w = Columns(k)
      <3>1. ASSUME k \in DOMAIN wanted, ~w.there PROVE n \notin written /\ f \notin written
        <4>1. DOMAIN w = {"there"}
          BY <1>10, <3>1, NoRecordFacts
        <4> QED BY <1>7, <2>2, <3>1, <4>1
      <3> QED BY <1>7, <1>10, <3>1
    <2>4. k \in DOMAIN wanted /\ w.there => w.next.every = w.frequency /\ n \in assigned
      BY DEF Sound
    <2>5. ASSUME k \in DOMAIN wanted, w.there, rows[k].there
          PROVE (n \in written <=> w.next # rows[k].next) /\ (f \in written <=> w.frequency # rows[k].frequency)
      BY <1>7, <1>10, <2>1, <2>2, <2>5
    <2>6. ASSUME k \in DOMAIN wanted, w.there, ~rows[k].there PROVE n \in written /\ f \in written
      <3>1. DOMAIN rows[k] = {"there"} /\ DOMAIN w = Columns(k)
        BY <1>10, <2>6, NoRecordFacts
      <3> QED BY <1>7, <2>1, <2>6, <3>1
    <2>7. n \notin collided /\ rows[k].there => rows[k].next.every = rows[k].frequency
      BY DEF ReportInv, Scheduled
    <2>8. n \notin collided /\ f \in written => n \in written
      BY <2>3, <2>4, <2>5, <2>6, <2>7
    <2>9. n \in written /\ f \notin written /\ rows[k].there => w.next.every = rows[k].frequency
      BY <2>3, <2>4, <2>5
    <2> QED BY <1>2, <1>3, <2>3, <2>4, <2>8, <2>9 DEF ScheduleFits
  <1>16. ASSUME NEW x \in LinkColumns PROVE LinksFit(t, x)'
    <2> DEFINE k == x[1]
               c == x[2]
    <2>1. /\ k \in Keys /\ k \notin Reports /\ c \in Columns(k) /\ x = <<k, c>>
      BY LinkKeys
    <2>2. x \in written \/ x \in assigned => k \in DOMAIN wanted
      BY <1>6, <1>7
    <2>3. k \in DOMAIN wanted =>
            IF ~rows[k].there THEN wanted[k][c] = {} /\ x \in assigned
            ELSE rows[k][c] \subseteq wanted[k][c] /\ (wanted[k][c] = rows[k][c] \/ x \in assigned)
      BY DEF Sound
    <2>4. k \in DOMAIN wanted => wanted[k].there /\ DOMAIN wanted[k] = Columns(k)
      BY <1>10, <2>1 DEF Sound
    <2>5. k \in DOMAIN wanted /\ rows[k].there /\ x \notin written => wanted[k][c] = rows[k][c]
      BY <1>7, <2>1, <2>4
    <2>6. k \in DOMAIN wanted /\ rows[k].there /\ x \in written => wanted[k][c] # rows[k][c] \/ x \in assigned
      BY <1>7, <1>9, <1>10, <2>1
    <2>7. ASSUME k \in DOMAIN wanted, ~rows[k].there PROVE x \in written
      <3>1. DOMAIN rows[k] = {"there"} /\ c # "there"
        BY <1>10, <2>7, NoRecordFacts, LinkKeys
      <3>2. <<k, c>> \in written
        BY <1>7, <2>1, <2>4, <2>7, <3>1
      <3> QED BY <2>1, <3>2
    <2>8. x \in written => x \in assigned
      BY <2>2, <2>3, <2>6
    <2>9. k \in e.loaded <=> k \in DOMAIN wanted /\ rows[k].there
      BY <1>3
    <2> QED BY <1>2, <1>3, <2>2, <2>3, <2>5, <2>7, <2>8, <2>9 DEF LinksFit
  <1>17. \A u \in Editors : EditFits(u)'
    <2>1. EditFits(t)'
      BY <1>12, <1>13, <1>14, <1>15, <1>16 DEF EditFits
    <2>2. \A u \in Editors \ {t} : EditFits(u)'
      BY <1>2, <1>4, <1>11, SameFits
    <2> QED BY <2>1, <2>2
  <1> QED BY <1>2, <1>5, <1>17, RowsAlone

-----------------------------------------------------------------------------
(* The services are sound                                                    *)

LEMMA CaseSound ==
    ASSUME NEW k \in Cases, NEW row, NEW assigned, RowOK(k, row), row.there, rows[k].there \/ Free(k),
           assigned \subseteq {k} \X Names,
           \A c \in {"alerts", "telemetry"} :
              IF ~rows[k].there THEN row[c] = {} /\ <<k, c>> \in assigned
              ELSE rows[k][c] \subseteq row[c] /\ (row[c] = rows[k][c] \/ <<k, c>> \in assigned)
    PROVE Sound(One(k, row), assigned)
  <1>1. DOMAIN One(k, row) = {k} /\ One(k, row)[k] = row
    BY DEF One
  <1>2. k \in Keys /\ k \notin Reports /\ k \notin Upgrades /\ k \notin Machines
    BY KeyKinds
  <1>3. \A x \in LinkColumns : x[1] = k => x = <<k, x[2]>> /\ x[2] \in {"alerts", "telemetry"}
    BY DEF LinkColumns
  <1> QED BY <1>1, <1>2, <1>3 DEF Sound

LEMMA ReportSound ==
    ASSUME NEW k \in Reports, NEW row, NEW assigned, RowOK(k, row), rows[k].there \/ (Free(k) /\ row.there),
           assigned \subseteq {k} \X Names,
           row.there => row.next.every = row.frequency /\ <<k, "next">> \in assigned
    PROVE Sound(One(k, row), assigned)
  <1>1. DOMAIN One(k, row) = {k} /\ One(k, row)[k] = row
    BY DEF One
  <1>2. k \in Keys /\ k \notin Cases /\ k \notin Upgrades /\ k \notin Machines
    BY KeyKinds
  <1>3. \A x \in LinkColumns : x[1] # k
    BY <1>2 DEF LinkColumns
  <1> QED BY <1>1, <1>2, <1>3 DEF Sound

\* A status is set, and a machine shows another version or none.
StatusSound(k, row, assigned) ==
    LET assigns == <<k, "status">> \in assigned IN
    IF ~rows[k].there THEN assigns /\ ~row.rolled /\ row.status # "ROLLED_BACK"
    ELSE \/ assigns /\ row.rolled /\ row.status = "ROLLED_BACK"
         \/ /\ row.rolled = rows[k].rolled
            /\ \/ row.status = rows[k].status
               \/ assigns /\ row.status # "ROLLED_BACK" /\ rows[k].status # "ROLLED_BACK"

LEMMA UpgradeSound ==
    ASSUME NEW k \in Upgrades, NEW row, NEW assigned, RowOK(k, row), row.there, rows[k].there \/ Free(k),
           assigned \subseteq {k} \X Names, StatusSound(k, row, assigned)
    PROVE Sound(One(k, row), assigned)
  <1>1. DOMAIN One(k, row) = {k} /\ One(k, row)[k] = row
    BY DEF One
  <1>2. k \in Keys /\ k \notin Cases /\ k \notin Reports /\ k \notin Machines
    BY KeyKinds
  <1>3. \A x \in LinkColumns : x[1] # k
    BY <1>2 DEF LinkColumns
  <1> QED BY <1>1, <1>2, <1>3 DEF Sound, StatusSound

LEMMA UpgradeAndMachineSound ==
    ASSUME BaseInv, NEW k \in Upgrades, NEW row, NEW m \in Machines, NEW v, NEW assigned,
           RowOK(k, row), row.there, rows[k].there, StatusSound(k, row, assigned),
           assigned \subseteq {k, m} \X Names, <<m, "version">> \in assigned
    PROVE Sound(Two(k, row, m, [rows[m] EXCEPT !.version = v]), assigned)
  <1> DEFINE other == [rows[m] EXCEPT !.version = v]
             wanted == Two(k, row, m, other)
  <1>1. k \in Keys /\ k \notin Cases /\ k \notin Reports /\ k \notin Machines
    BY KeyKinds
  <1>2. m \in Keys /\ m \notin Cases /\ m \notin Reports /\ m \notin Upgrades
    BY KeyKinds
  <1>3. DOMAIN wanted = {k, m} /\ wanted[k] = row /\ wanted[m] = other
    BY <1>1 DEF Two
  <1>4. \A x \in LinkColumns : x[1] # k /\ x[1] # m
    BY <1>1, <1>2 DEF LinkColumns
  <1>5. RowOK(m, other) /\ other.there /\ rows[m].there
    <2>1. rows[m].there = TRUE /\ DOMAIN rows[m] = Columns(m)
      BY MachineThere, <1>2 DEF BaseInv, RowOK
    <2>2. DOMAIN other = Columns(m) /\ other.there = TRUE
      BY <2>1, ColumnsOf
    <2> QED BY <1>2, <2>1, <2>2 DEF RowOK
  <1>6. assigned \subseteq (DOMAIN wanted) \X Names
    BY <1>3
  <1>7. \A l \in DOMAIN wanted : /\ RowOK(l, wanted[l]) /\ (rows[l].there \/ (Free(l) /\ wanted[l].there))
                                 /\ wanted[l].there \/ l \in Reports
    BY <1>3, <1>5
  <1> QED BY <1>1, <1>2, <1>3, <1>4, <1>6, <1>7 DEF Sound, StatusSound

\* A row that is there has the columns of its kind, and keeps them.
LEMMA RowFacts ==
    ASSUME BaseInv, NEW k \in Keys, rows[k].there
    PROVE /\ RowOK(k, rows[k]) /\ DOMAIN rows[k] = Columns(k) /\ rows[k].there = TRUE
          /\ k \in Upgrades => rows[k].of \in Machines /\ rows[k].rolled \in BOOLEAN
  BY NoRecordFacts DEF BaseInv, RowOK

LEMMA CreateCaseSound ==
    ASSUME BaseInv, NEW k \in Cases, NEW s, Free(k)
    PROVE Sound(One(k, CaseRow(s)), {k} \X DOMAIN CaseRow(s))
  <1> DEFINE row == CaseRow(s)
             assigned == {k} \X DOMAIN row
  <1>1. DOMAIN row = {"there", "status", "closed", "alerts", "telemetry"} /\ row.there = TRUE /\ row.alerts = {} /\ row.telemetry = {}
    BY DEF CaseRow
  <1>2. RowOK(k, row)
    BY <1>1, ColumnsOf, KeyKinds DEF RowOK
  <1>3. assigned \subseteq {k} \X Names
    BY <1>1 DEF Names
  <1>4. ~rows[k].there /\ \A c \in {"alerts", "telemetry"} : row[c] = {} /\ <<k, c>> \in assigned
    BY <1>1 DEF Free
  <1> HIDE DEF row, assigned
  <1>5. Sound(One(k, row), assigned)
    BY <1>1, <1>2, <1>3, <1>4, CaseSound
  <1> QED BY <1>5 DEF row, assigned

LEMMA UpdateCaseSound ==
    ASSUME BaseInv, NEW k \in Cases, NEW s, rows[k].there
    PROVE Sound(One(k, [rows[k] EXCEPT !.status = s, !.closed = IF s = "CLOSED" /\ @ = 0 THEN Now ELSE @]), {<<k, "status">>})
  <1> DEFINE row == [rows[k] EXCEPT !.status = s, !.closed = IF s = "CLOSED" /\ @ = 0 THEN Now ELSE @]
             assigned == {<<k, "status">>}
  <1>1. DOMAIN rows[k] = {"there", "status", "closed", "alerts", "telemetry"} /\ rows[k].there = TRUE /\ k \in Keys
    BY RowFacts, ColumnsOf, KeyKinds
  <1>2. /\ DOMAIN row = {"there", "status", "closed", "alerts", "telemetry"} /\ row.there = TRUE
        /\ row.alerts = rows[k].alerts /\ row.telemetry = rows[k].telemetry
    BY <1>1
  <1>3. RowOK(k, row)
    BY <1>2, ColumnsOf, KeyKinds DEF RowOK
  <1>4. assigned \subseteq {k} \X Names
    BY DEF Names
  <1>5. \A c \in {"alerts", "telemetry"} : row[c] = rows[k][c]
    BY <1>2
  <1> HIDE DEF row, assigned
  <1>6. Sound(One(k, row), assigned)
    BY <1>1, <1>2, <1>3, <1>4, <1>5, CaseSound
  <1> QED BY <1>6 DEF row, assigned

LEMMA LinkSound ==
    ASSUME BaseInv, NEW k \in Cases, NEW c \in {"alerts", "telemetry"}, NEW ids, rows[k].there
    PROVE Sound(One(k, [rows[k] EXCEPT ![c] = @ \cup ids]), {<<k, c>>})
  <1> DEFINE row == [rows[k] EXCEPT ![c] = @ \cup ids]
             assigned == {<<k, c>>}
  <1>1. DOMAIN rows[k] = {"there", "status", "closed", "alerts", "telemetry"} /\ rows[k].there = TRUE /\ k \in Keys
    BY RowFacts, ColumnsOf, KeyKinds
  <1>2. /\ DOMAIN row = {"there", "status", "closed", "alerts", "telemetry"} /\ row.there = TRUE
        /\ row[c] = rows[k][c] \cup ids
        /\ \A d \in {"alerts", "telemetry"} : d # c => row[d] = rows[k][d]
    BY <1>1
  <1>3. RowOK(k, row)
    BY <1>2, ColumnsOf, KeyKinds DEF RowOK
  <1>4. assigned \subseteq {k} \X Names
    BY DEF Names
  <1>5. \A d \in {"alerts", "telemetry"} : rows[k][d] \subseteq row[d] /\ (row[d] = rows[k][d] \/ <<k, d>> \in assigned)
    BY <1>2
  <1> HIDE DEF row, assigned
  <1>6. Sound(One(k, row), assigned)
    BY <1>1, <1>2, <1>3, <1>4, <1>5, CaseSound
  <1> QED BY <1>6 DEF row, assigned

LEMMA ReportsSound ==
    ASSUME BaseInv, NEW k \in Reports, NEW f
    PROVE /\ Free(k) => Sound(One(k, ReportRow(f, Now)), {k} \X DOMAIN ReportRow(f, Now))
          /\ rows[k].there =>
               /\ Sound(One(k, [rows[k] EXCEPT !.frequency = f, !.next = NextRun(f, Now)]), {<<k, "frequency">>, <<k, "next">>})
               /\ Sound(One(k, [rows[k] EXCEPT !.last = Now, !.next = NextRun(rows[k].frequency, Now)]),
                        {<<k, "last">>, <<k, "next">>})
               /\ Sound(One(k, NoRecord), {<<k, "there">>})
  <1>0. k \in Keys /\ k \notin Upgrades /\ k \notin Machines /\ Columns(k) = {"there", "frequency", "last", "next"}
    BY KeyKinds, ColumnsOf
  <1>1. ASSUME Free(k) PROVE Sound(One(k, ReportRow(f, Now)), {k} \X DOMAIN ReportRow(f, Now))
    <2> DEFINE row == ReportRow(f, Now)
               assigned == {k} \X DOMAIN row
    <2>1. DOMAIN row = {"there", "frequency", "last", "next"} /\ row.there = TRUE /\ row.next.every = row.frequency
      BY DEF ReportRow, NextRun
    <2>2. RowOK(k, row)
      BY <1>0, <2>1 DEF RowOK
    <2>3. assigned \subseteq {k} \X Names /\ <<k, "next">> \in assigned
      BY <2>1 DEF Names
    <2> HIDE DEF row, assigned
    <2>4. Sound(One(k, row), assigned)
      BY <1>1, <2>1, <2>2, <2>3, ReportSound
    <2> QED BY <2>4 DEF row, assigned
  <1>2. ASSUME rows[k].there
        PROVE Sound(One(k, [rows[k] EXCEPT !.frequency = f, !.next = NextRun(f, Now)]), {<<k, "frequency">>, <<k, "next">>})
    <2> DEFINE row == [rows[k] EXCEPT !.frequency = f, !.next = NextRun(f, Now)]
               assigned == {<<k, "frequency">>, <<k, "next">>}
    <2>1. DOMAIN rows[k] = Columns(k) /\ rows[k].there = TRUE
      BY <1>0, <1>2, RowFacts
    <2>2. DOMAIN row = Columns(k) /\ row.there = TRUE /\ row.next = NextRun(f, Now) /\ row.frequency = f
      BY <1>0, <2>1
    <2>3. RowOK(k, row) /\ row.next.every = row.frequency
      BY <1>0, <2>2 DEF RowOK, NextRun
    <2>4. assigned \subseteq {k} \X Names /\ <<k, "next">> \in assigned
      BY DEF Names
    <2> HIDE DEF row, assigned
    <2>5. Sound(One(k, row), assigned)
      BY <1>2, <2>3, <2>4, ReportSound
    <2> QED BY <2>5 DEF row, assigned
  <1>3. ASSUME rows[k].there
        PROVE Sound(One(k, [rows[k] EXCEPT !.last = Now, !.next = NextRun(rows[k].frequency, Now)]), {<<k, "last">>, <<k, "next">>})
    <2> DEFINE row == [rows[k] EXCEPT !.last = Now, !.next = NextRun(rows[k].frequency, Now)]
               assigned == {<<k, "last">>, <<k, "next">>}
    <2>1. DOMAIN rows[k] = Columns(k) /\ rows[k].there = TRUE
      BY <1>0, <1>3, RowFacts
    <2>2. /\ DOMAIN row = Columns(k) /\ row.there = TRUE
          /\ row.next = NextRun(rows[k].frequency, Now) /\ row.frequency = rows[k].frequency
      BY <1>0, <2>1
    <2>3. RowOK(k, row) /\ row.next.every = row.frequency
      BY <1>0, <2>2 DEF RowOK, NextRun
    <2>4. assigned \subseteq {k} \X Names /\ <<k, "next">> \in assigned
      BY DEF Names
    <2> HIDE DEF row, assigned
    <2>5. Sound(One(k, row), assigned)
      BY <1>3, <2>3, <2>4, ReportSound
    <2> QED BY <2>5 DEF row, assigned
  <1>4. ASSUME rows[k].there PROVE Sound(One(k, NoRecord), {<<k, "there">>})
    <2> DEFINE assigned == {<<k, "there">>}
    <2>1. assigned \subseteq {k} \X Names
      BY DEF Names
    <2>2. RowOK(k, NoRecord) /\ NoRecord.there = FALSE
      BY <1>0, NoRecordFacts DEF RowOK
    <2> HIDE DEF assigned
    <2>3. Sound(One(k, NoRecord), assigned)
      BY <1>4, <2>1, <2>2, ReportSound
    <2> QED BY <2>3 DEF assigned
  <1> QED BY <1>1, <1>2, <1>3, <1>4

\* A status that is followed by another one is neither rolled back nor before it.
LEMMA FollowsFacts == \A s : Follows(s) = s \/ (Follows(s) # "ROLLED_BACK" /\ s # "ROLLED_BACK")
  BY DEF Follows, Following

LEMMA TriggerSound ==
    ASSUME BaseInv, NEW k \in Upgrades, NEW m \in Machines, NEW from, NEW to, Free(k)
    PROVE Sound(One(k, UpgradeRow(m, from, to)), {<<k, "status">>})
  <1> DEFINE row == UpgradeRow(m, from, to)
             assigned == {<<k, "status">>}
  <1>1. /\ DOMAIN row = {"there", "of", "from", "to", "status", "rolled"} /\ row.there = TRUE
        /\ row.of = m /\ row.rolled = FALSE /\ row.status = "AVAILABLE"
    BY DEF UpgradeRow
  <1>2. RowOK(k, row)
    BY <1>1, ColumnsOf, KeyKinds DEF RowOK
  <1>3. StatusSound(k, row, assigned) /\ assigned \subseteq {k} \X Names
    BY <1>1 DEF StatusSound, Free, Names
  <1> HIDE DEF row, assigned
  <1>4. Sound(One(k, row), assigned)
    BY <1>1, <1>2, <1>3, UpgradeSound
  <1> QED BY <1>4 DEF row, assigned

LEMMA StepSound ==
    ASSUME BaseInv, NEW k \in Upgrades, rows[k].there
    PROVE LET m == rows[k].of
              record == [rows[k] EXCEPT !.status = Follows(@)] IN
          /\ rows[k].status = "RESTARTING" =>
               Sound(Two(k, record, m, [rows[m] EXCEPT !.version = rows[k].to]), {<<k, "status">>, <<m, "version">>})
          /\ Sound(One(k, record), IF record = rows[k] THEN {} ELSE {<<k, "status">>})
  <1> DEFINE m == rows[k].of
             record == [rows[k] EXCEPT !.status = Follows(@)]
             both == {<<k, "status">>, <<m, "version">>}
             one == IF record = rows[k] THEN {} ELSE {<<k, "status">>}
             v == rows[k].to
  <1>1. /\ k \in Keys /\ Columns(k) = {"there", "of", "from", "to", "status", "rolled"}
        /\ DOMAIN rows[k] = Columns(k) /\ rows[k].there = TRUE /\ m \in Machines /\ rows[k].rolled \in BOOLEAN
    BY RowFacts, ColumnsOf, KeyKinds
  <1>2. /\ DOMAIN record = Columns(k) /\ record.there = TRUE /\ record.of = m /\ record.rolled = rows[k].rolled
        /\ record.status = Follows(rows[k].status)
    BY <1>1
  <1>3. RowOK(k, record)
    BY <1>1, <1>2 DEF RowOK
  <1>4. both \subseteq {k, m} \X Names /\ <<m, "version">> \in both /\ <<k, "status">> \in both
    BY DEF Names
  <1>5. one \subseteq {k} \X Names
    BY DEF Names
  <1>6. record.status # rows[k].status => <<k, "status">> \in one
    OBVIOUS
  <1>7. StatusSound(k, record, both)
    BY <1>1, <1>2, <1>4, FollowsFacts DEF StatusSound
  <1>8. StatusSound(k, record, one)
    BY <1>1, <1>2, <1>6, FollowsFacts DEF StatusSound
  <1> HIDE DEF m, record, both, one, v
  <1>9. Sound(Two(k, record, m, [rows[m] EXCEPT !.version = v]), both)
    BY <1>1, <1>2, <1>3, <1>4, <1>7, UpgradeAndMachineSound
  <1>10. Sound(One(k, record), one)
    BY <1>1, <1>2, <1>3, <1>5, <1>8, UpgradeSound
  <1> QED BY <1>9, <1>10 DEF m, record, both, one, v

LEMMA RollbackSound ==
    ASSUME BaseInv, NEW k \in Upgrades, NEW to, rows[k].there
    PROVE LET m == rows[k].of IN
          Sound(Two(k, [rows[k] EXCEPT !.status = "ROLLED_BACK", !.rolled = TRUE], m, [rows[m] EXCEPT !.version = to]),
                {<<k, "status">>, <<k, "rolled">>, <<m, "version">>})
  <1> DEFINE m == rows[k].of
             record == [rows[k] EXCEPT !.status = "ROLLED_BACK", !.rolled = TRUE]
             assigned == {<<k, "status">>, <<k, "rolled">>, <<m, "version">>}
  <1>1. /\ k \in Keys /\ Columns(k) = {"there", "of", "from", "to", "status", "rolled"}
        /\ DOMAIN rows[k] = Columns(k) /\ rows[k].there = TRUE /\ m \in Machines
    BY RowFacts, ColumnsOf, KeyKinds
  <1>2. /\ DOMAIN record = Columns(k) /\ record.there = TRUE /\ record.of = m /\ record.rolled = TRUE
        /\ record.status = "ROLLED_BACK"
    BY <1>1
  <1>3. RowOK(k, record)
    BY <1>1, <1>2 DEF RowOK
  <1>4. assigned \subseteq {k, m} \X Names /\ <<m, "version">> \in assigned /\ <<k, "status">> \in assigned
    BY DEF Names
  <1>5. StatusSound(k, record, assigned)
    BY <1>1, <1>2, <1>4 DEF StatusSound
  <1> HIDE DEF m, record, assigned
  <1>6. Sound(Two(k, record, m, [rows[m] EXCEPT !.version = to]), assigned)
    BY <1>1, <1>2, <1>3, <1>4, <1>5, UpgradeAndMachineSound
  <1> QED BY <1>6 DEF m, record, assigned

LEMMA BeatSound ==
    ASSUME BaseInv, NEW m \in Machines, NEW v
    PROVE Sound(One(m, [rows[m] EXCEPT !.version = v]), {<<m, "version">>})
  <1> DEFINE row == [rows[m] EXCEPT !.version = v]
  <1>1. m \in Keys /\ m \notin Cases /\ m \notin Reports /\ m \notin Upgrades
    BY KeyKinds
  <1>2. DOMAIN One(m, row) = {m} /\ One(m, row)[m] = row
    BY DEF One
  <1>3. rows[m].there = TRUE /\ DOMAIN rows[m] = Columns(m)
    BY <1>1, MachineThere, RowFacts
  <1>4. RowOK(m, row) /\ row.there = TRUE
    <2>1. DOMAIN row = Columns(m) /\ row.there = TRUE
      BY <1>3, ColumnsOf
    <2> QED BY <1>1, <2>1 DEF RowOK
  <1>5. \A x \in LinkColumns : x[1] # m
    BY <1>1 DEF LinkColumns
  <1>6. {<<m, "version">>} \subseteq {m} \X Names
    BY DEF Names
  <1> HIDE DEF row
  <1>7. Sound(One(m, row), {<<m, "version">>})
    BY <1>1, <1>2, <1>3, <1>4, <1>5, <1>6 DEF Sound
  <1> QED BY <1>7 DEF row

-----------------------------------------------------------------------------

\* The upgrades that may be under way at the start
UnderWay == {[UpgradeRow(m, FirstRelease, to) EXCEPT !.status = s] :
                m \in Machines, to \in Releases, s \in DOMAIN Following}

LEMMA UnderWayFacts ==
    ASSUME NEW row \in UnderWay
    PROVE /\ DOMAIN row = {"there", "of", "from", "to", "status", "rolled"} /\ row.there = TRUE
          /\ row.of \in Machines /\ row.rolled = FALSE /\ row.status # "ROLLED_BACK"
  <1>1. PICK m \in Machines, to \in Releases, s \in DOMAIN Following :
           row = [UpgradeRow(m, FirstRelease, to) EXCEPT !.status = s]
    BY DEF UnderWay
  <1>2. s # "ROLLED_BACK"
    BY DEF Following
  <1> QED BY <1>1, <1>2 DEF UpgradeRow

LEMMA ConsoleInitially == ConsoleInit => ConsoleInv
  <1> SUFFICES ASSUME ConsoleInit PROVE ConsoleInv
    OBVIOUS
  <1>1. PICK under \in [Upgrades -> {NoRecord} \cup UnderWay] :
          rows = [k \in Keys |-> IF k \in Machines THEN [there |-> TRUE, version |-> FirstRelease]
                                ELSE IF k \in Upgrades THEN under[k] ELSE NoRecord]
    BY DEF ConsoleInit, UnderWay
  <1>2. \A t \in Editors : edit[t] = NoEdit
    BY DEF ConsoleInit
  <1>3. \A k \in Upgrades : \/ under[k] = NoRecord
                            \/ /\ DOMAIN under[k] = {"there", "of", "from", "to", "status", "rolled"} /\ under[k].there = TRUE
                               /\ under[k].of \in Machines /\ under[k].rolled = FALSE /\ under[k].status # "ROLLED_BACK"
    BY UnderWayFacts
  <1>4. /\ \A k \in Upgrades : rows[k] = under[k] /\ k \in Keys
        /\ \A k \in Cases \cup Reports : rows[k] = NoRecord /\ k \in Keys
        /\ \A m \in Machines : rows[m] = [there |-> TRUE, version |-> FirstRelease] /\ m \in Keys
    BY <1>1, KeyKinds
  <1>5. BaseInv
    <2>1. rows \in [Keys -> {rows[k] : k \in Keys}]
      BY <1>1
    <2>2. \A k \in Keys : RowOK(k, rows[k])
      <3>1. ASSUME NEW k \in Upgrades PROVE RowOK(k, rows[k])
        <4>1. rows[k] = under[k] /\ k \notin Machines /\ Columns(k) = {"there", "of", "from", "to", "status", "rolled"}
          BY <1>4, KeyKinds, ColumnsOf
        <4>2. CASE under[k] = NoRecord
          BY <4>1, <4>2 DEF RowOK
        <4>3. CASE under[k] # NoRecord
          <5>1. /\ DOMAIN rows[k] = Columns(k) /\ rows[k].there = TRUE
                /\ rows[k].of \in Machines /\ rows[k].rolled = FALSE
            BY <1>3, <4>1, <4>3
          <5> QED BY <5>1 DEF RowOK
        <4> QED BY <4>2, <4>3
      <3>2. \A k \in Cases \cup Reports : RowOK(k, rows[k])
        BY <1>4, KeyKinds DEF RowOK
      <3>3. \A m \in Machines : RowOK(m, rows[m])
        <4> SUFFICES ASSUME NEW m \in Machines PROVE RowOK(m, rows[m])
          OBVIOUS
        <4>1. DOMAIN rows[m] = {"there", "version"} /\ rows[m].there = TRUE
          BY <1>4
        <4> QED BY <4>1, KeyKinds, ColumnsOf DEF RowOK
      <3> QED BY <3>1, <3>2, <3>3 DEF Keys
    <2>3. edit \in [Editors -> {edit[t] : t \in Editors}]
      BY DEF ConsoleInit
    <2>4. \A t \in Editors : BaseFits(t)
      BY <1>2, NothingTouched DEF BaseFits
    <2> QED BY <2>1, <2>2, <2>3, <2>4 DEF BaseInv
  <1>6. MachineInv
    BY <1>2, <1>4, NothingTouched DEF ConsoleInit, MachineInv, VersionFits
  <1>7. UpgradeInv
    BY <1>2, <1>3, <1>4, NothingTouched, NoRecordFacts DEF UpgradeInv, RolledBack, StatusFits
  <1>8. ReportInv
    BY <1>2, <1>4, NothingTouched, NoRecordFacts DEF ReportInv, Scheduled, ScheduleFits
  <1>9. CaseInv
    <2>1. \A x \in LinkColumns : linked[x] = {} /\ ~rows[x[1]].there
      <3>1. linked = [x \in LinkColumns |-> {}]
        BY DEF ConsoleInit
      <3> QED BY <1>4, <3>1, LinkKeys, NoRecordFacts
    <2> QED BY <1>2, <2>1, NothingTouched DEF CaseInv, AllLinked, LinksFit
  <1> QED BY <1>5, <1>6, <1>7, <1>8, <1>9 DEF ConsoleInv

LEMMA ServicesKeep == \A t \in Editors : ConsoleInv /\ Services(t) => ConsoleInv'
  <1> SUFFICES ASSUME NEW t \in Editors, ConsoleInv, Services(t) PROVE ConsoleInv'
    OBVIOUS
  <1>0. BaseInv
    BY DEF ConsoleInv
  <1>1. ASSUME NEW k \in Cases, NEW s, CreateCase(t, k, s) PROVE ConsoleInv'
    BY <1>0, <1>1, CreateCaseSound, BeginKeeps DEF CreateCase
  <1>2. ASSUME NEW k \in Cases, NEW s, UpdateCase(t, k, s) PROVE ConsoleInv'
    BY <1>0, <1>2, UpdateCaseSound, BeginKeeps DEF UpdateCase
  <1>3. ASSUME NEW k \in Cases, NEW c \in {"alerts", "telemetry"}, NEW id, Link(t, k, c, {id}) PROVE ConsoleInv'
    BY <1>0, <1>3, LinkSound, BeginKeeps DEF Link
  <1>4. ASSUME NEW k \in Reports, NEW f, CreateReport(t, k, f) PROVE ConsoleInv'
    <2>1. Sound(One(k, ReportRow(f, Now)), {k} \X DOMAIN ReportRow(f, Now))
      BY <1>0, <1>4, ReportsSound DEF CreateReport
    <2> QED BY <1>4, <2>1, BeginKeeps DEF CreateReport
  <1>5. ASSUME NEW k \in Reports, NEW f, UpdateReport(t, k, f) PROVE ConsoleInv'
    <2> DEFINE wanted == One(k, [rows[k] EXCEPT !.frequency = f, !.next = NextRun(f, Now)])
               assigned == {<<k, "frequency">>, <<k, "next">>}
    <2>1. rows[k].there /\ Begin(t, wanted, assigned)
      BY <1>5 DEF UpdateReport
    <2>2. Sound(wanted, assigned)
      BY <1>0, <2>1, ReportsSound
    <2> HIDE DEF wanted, assigned
    <2> QED BY <2>1, <2>2, BeginKeeps
  <1>6. ASSUME NEW k \in Reports, ExecuteReport(t, k) PROVE ConsoleInv'
    <2> DEFINE wanted == One(k, [rows[k] EXCEPT !.last = Now, !.next = NextRun(rows[k].frequency, Now)])
               assigned == {<<k, "last">>, <<k, "next">>}
    <2>1. rows[k].there /\ Begin(t, wanted, assigned)
      BY <1>6 DEF ExecuteReport
    <2>2. Sound(wanted, assigned)
      BY <1>0, <2>1, ReportsSound
    <2> HIDE DEF wanted, assigned
    <2> QED BY <2>1, <2>2, BeginKeeps
  <1>7. ASSUME NEW k \in Reports, DeleteReport(t, k) PROVE ConsoleInv'
    BY <1>0, <1>7, ReportsSound, BeginKeeps DEF DeleteReport
  <1>8. ASSUME NEW k \in Upgrades, NEW v, RollbackUpgrade(t, k, v) PROVE ConsoleInv'
    BY <1>0, <1>8, RollbackSound, BeginKeeps DEF RollbackUpgrade
  <1>9. ASSUME NEW k \in Upgrades, StepUpgrade(t, k) PROVE ConsoleInv'
    BY <1>0, <1>9, StepSound, BeginKeeps DEF StepUpgrade
  <1>10. ASSUME NEW k \in Upgrades, NEW m \in Machines, NEW v, TriggerUpgrade(t, k, m, v) PROVE ConsoleInv'
    BY <1>0, <1>10, TriggerSound, BeginKeeps DEF TriggerUpgrade
  <1>11. ASSUME NEW m \in Machines, NEW v, BeatVersion(t, m, v) PROVE ConsoleInv'
    BY <1>0, <1>11, BeatSound, BeginKeeps DEF BeatVersion
  <1>12. \A x \in LinkColumns : x[1] \in Cases /\ x[2] \in {"alerts", "telemetry"}
    BY DEF LinkColumns
  <1> QED BY <1>1, <1>2, <1>3, <1>4, <1>5, <1>6, <1>7, <1>8, <1>9, <1>10, <1>11, <1>12 DEF Services

\* However requests overlap, fail and are given up, what was answered stands:
\* links stay in the case, a next run follows from the frequency, a rolled back
\* upgrade never goes on, a device shows the version told or set last; but for
\* columns written while another request assigned them.
THEOREM EditsLast == ConsoleSpec => []EditsStand
  <1>1. ConsoleInv /\ [ConsoleNext]_consoleVars => ConsoleInv'
    <2> SUFFICES ASSUME ConsoleInv, [ConsoleNext]_consoleVars PROVE ConsoleInv'
      OBVIOUS
    <2>1. ASSUME NEW t \in Editors, Services(t) PROVE ConsoleInv'
      BY <2>1, ServicesKeep
    <2>2. ASSUME NEW t \in Editors, CommitEdit(t) PROVE ConsoleInv'
      BY <2>2, CommitKeepsBase, CommitKeepsMachines, CommitKeepsUpgrades, CommitKeepsReports, CommitKeepsCases DEF ConsoleInv
    <2>3. ASSUME NEW t \in Editors, Abandon(t) PROVE ConsoleInv'
      BY <2>3, AbandonKeeps
    <2>4. CASE UNCHANGED consoleVars
      <3>1. rows' = rows /\ edit' = edit /\ linked' = linked /\ shown' = shown /\ collided' = collided
        BY <2>4 DEF consoleVars
      <3>2. \A u \in Editors, k \in Keys : Inserts(u, k) => Inserts(u, k)'
        BY <3>1 DEF Inserts
      <3>3. \A u \in Editors : EditFits(u)'
        BY <3>1, <3>2, SameFits
      <3> QED BY <3>1, <3>3, RowsAlone DEF ConsoleInv, BaseInv
    <2> QED BY <2>1, <2>2, <2>3, <2>4 DEF ConsoleNext
  <1>2. ConsoleInv => EditsStand
    <2> SUFFICES ASSUME ConsoleInv PROVE EditsStand
      OBVIOUS
    <2>1. \A x \in LinkColumns \ collided : rows[x[1]].there => rows[x[1]][x[2]] = linked[x]
      BY DEF ConsoleInv, CaseInv, AllLinked
    <2>2. \A k \in Upgrades : rows[k].there /\ rows[k].rolled /\ <<k, "status">> \notin collided => rows[k].status = "ROLLED_BACK"
      BY DEF ConsoleInv, UpgradeInv, RolledBack
    <2> QED BY <2>1, <2>2 DEF EditsStand, ConsoleInv, MachineInv, ReportInv, Scheduled
  <1> QED BY ConsoleInitially, <1>1, <1>2, PTL DEF ConsoleSpec

-----------------------------------------------------------------------------
(* Sums over the rows of the policies.  The library defines the sum by a
   recursive function on sets; that it exists and is a number follows from the
   least-number principle.                                                   *)

\* The library defines the sum of the versions by the recursive function that
\* takes an element out of a set, then the rest.
Taken(s) == CHOOSE x \in s : TRUE

Sums(f, S, table) ==
    f = [s \in SUBSET S |-> IF s = {} THEN 0 ELSE table[Taken(s)].version + f[s \ {Taken(s)}]]

LEMMA GlobalVersionIs ==
    ASSUME NEW table
    PROVE  GlobalVersion(table) = IF Enabled(table) = {} THEN 1 ELSE (CHOOSE f : Sums(f, Enabled(table), table))[Enabled(table)]
  <1>1. ASSUME NEW S
        PROVE MapThenSumSet(LAMBDA p : table[p].version, S) = (CHOOSE f : Sums(f, S, table))[S]
    BY DEF MapThenSumSet, MapThenFoldSet, Sums, Taken
  <1> QED BY <1>1 DEF GlobalVersion

LEMMA TakenFacts ==
    ASSUME NEW S, IsFiniteSet(S), NEW s \in SUBSET S, s # {}
    PROVE  /\ Taken(s) \in s /\ s \ {Taken(s)} \in SUBSET S
           /\ Cardinality(s) \in Nat /\ Cardinality(s \ {Taken(s)}) = Cardinality(s) - 1 /\ Cardinality(s) # 0
  <1>1. Taken(s) \in s
    BY DEF Taken
  <1>2. IsFiniteSet(s)
    BY FS_Subset
  <1> QED BY <1>1, <1>2, FS_RemoveElement, FS_CardinalityType, FS_EmptySet

\* There is such a function ...
LEMMA SumExists ==
    ASSUME NEW S, IsFiniteSet(S), NEW table
    PROVE  \E f : Sums(f, S, table)
  <1> DEFINE Upto(n) == {s \in SUBSET S : Cardinality(s) <= n}
             Partial(g, n) == g = [s \in Upto(n) |-> IF s = {} THEN 0 ELSE table[Taken(s)].version + g[s \ {Taken(s)}]]
             Bad == {n \in Nat : ~ \E g : Partial(g, n)}
  <1>1. Bad = {}
    <2> SUFFICES ASSUME Bad # {} PROVE FALSE
      OBVIOUS
    <2>1. PICK n \in Bad : \A m \in Bad : n <= m
      <3>1. Bad \in SUBSET Nat
        OBVIOUS
      <3> QED BY <3>1, LeastNatural
    <2>2. n # 0
      <3> SUFFICES ASSUME n = 0 PROVE \E g : Partial(g, n)
        BY <2>1
      <3>1. ASSUME NEW s \in Upto(0) PROVE s = {}
        <4> SUFFICES ASSUME s # {} PROVE FALSE
          OBVIOUS
        <4>1. s \in SUBSET S /\ Cardinality(s) <= 0
          OBVIOUS
        <4>2. Cardinality(s) \in Nat /\ Cardinality(s) # 0
          BY <4>1, TakenFacts
        <4> QED BY <4>1, <4>2
      <3>2. Partial([s \in Upto(0) |-> 0], 0)
        BY <3>1
      <3> QED BY <3>2
    <2>3. n - 1 \in Nat /\ n - 1 \notin Bad /\ n \in Nat
      <3>1. n \in Nat
        OBVIOUS
      <3>2. n - 1 \in Nat /\ ~(n <= n - 1)
        BY <3>1, <2>2
      <3> QED BY <3>1, <3>2, <2>1
    <2>4. PICK g : Partial(g, n - 1)
      BY <2>3
    <2> DEFINE h == [s \in Upto(n) |-> IF s = {} THEN 0 ELSE table[Taken(s)].version + g[s \ {Taken(s)}]]
    <2>5. ASSUME NEW s \in Upto(n), s # {} PROVE h[s \ {Taken(s)}] = g[s \ {Taken(s)}]
      <3> DEFINE r == s \ {Taken(s)}
      <3>1. r \in Upto(n - 1) /\ r \in Upto(n)
        BY <2>3, <2>5, TakenFacts
      <3>2. h[r] = IF r = {} THEN 0 ELSE table[Taken(r)].version + g[r \ {Taken(r)}]
        BY <3>1
      <3>3. g[r] = IF r = {} THEN 0 ELSE table[Taken(r)].version + g[r \ {Taken(r)}]
        BY <3>1, <2>4
      <3> QED BY <3>2, <3>3
    <2>6. Partial(h, n)
      BY <2>5
    <2> QED BY <2>1, <2>6
  <1>2. Cardinality(S) \in Nat
    BY FS_CardinalityType
  <1>3. PICK g : Partial(g, Cardinality(S))
    BY <1>1, <1>2
  <1>4. Upto(Cardinality(S)) = SUBSET S
    BY FS_Subset
  <1> QED BY <1>3, <1>4 DEF Sums

\* ... and its values are natural numbers.
LEMMA SumType ==
    ASSUME NEW S, IsFiniteSet(S), NEW table, \A p \in S : table[p].version \in Nat, NEW f, Sums(f, S, table)
    PROVE  \A s \in SUBSET S : f[s] \in Nat
  <1> DEFINE Bad == {n \in Nat : \E s \in SUBSET S : Cardinality(s) = n /\ f[s] \notin Nat}
  <1>1. Bad = {}
    <2> SUFFICES ASSUME Bad # {} PROVE FALSE
      OBVIOUS
    <2>1. PICK n \in Bad : \A m \in Bad : n <= m
      <3>1. Bad \in SUBSET Nat
        OBVIOUS
      <3> QED BY <3>1, LeastNatural
    <2>2. PICK s \in SUBSET S : Cardinality(s) = n /\ f[s] \notin Nat
      BY <2>1
    <2>3. f[s] = IF s = {} THEN 0 ELSE table[Taken(s)].version + f[s \ {Taken(s)}]
      BY DEF Sums
    <2>4. s # {}
      BY <2>2, <2>3
    <2>5. Taken(s) \in S /\ s \ {Taken(s)} \in SUBSET S /\ Cardinality(s \ {Taken(s)}) = n - 1 /\ n - 1 \in Nat
      <3>1. s \in SUBSET S /\ s # {} /\ Cardinality(s) = n
        BY <2>2, <2>4
      <3> HIDE DEF Bad
      <3>2. /\ Taken(s) \in s /\ s \ {Taken(s)} \in SUBSET S
            /\ Cardinality(s) \in Nat /\ Cardinality(s \ {Taken(s)}) = Cardinality(s) - 1 /\ Cardinality(s) # 0
        BY <3>1, TakenFacts
      <3>3. n \in Nat /\ n # 0 /\ Cardinality(s \ {Taken(s)}) = n - 1
        BY <3>1, <3>2
      <3> QED BY <3>1, <3>2, <3>3
    <2>6. f[s \ {Taken(s)}] \in Nat
      BY <2>1, <2>5
    <2> QED BY <2>2, <2>3, <2>4, <2>5, <2>6
  <1>2. \A s \in SUBSET S : Cardinality(s) \in Nat
    BY FS_Subset, FS_CardinalityType
  <1> QED BY <1>1, <1>2

\* The version that is served is a number.
LEMMA GlobalVersionType ==
    ASSUME NEW table \in Seq(PolicyRow)
    PROVE  GlobalVersion(table) \in Nat
  <1> DEFINE S == Enabled(table)
  <1>1. S \subseteq 1 .. Len(table) /\ Len(table) \in Nat /\ \A p \in S : table[p].version \in Nat
    <2>1. DOMAIN table = 1 .. Len(table) /\ Len(table) \in Nat /\ \A p \in 1 .. Len(table) : table[p] \in PolicyRow
      OBVIOUS
    <2>2. \A row \in PolicyRow : row.version \in Nat
      BY DEF PolicyRow
    <2> QED BY <2>1, <2>2 DEF Enabled
  <1>2. IsFiniteSet(S)
    <2>1. IsFiniteSet(1 .. Len(table))
      BY <1>1, FS_Interval
    <2> QED BY <1>1, <2>1, FS_Subset
  <1>3. Sums(CHOOSE f : Sums(f, S, table), S, table)
    BY <1>2, SumExists
  <1>4. (CHOOSE f : Sums(f, S, table))[S] \in Nat
    BY <1>1, <1>2, <1>3, SumType
  <1> QED BY <1>4, GlobalVersionIs
-----------------------------------------------------------------------------

LEMMA MaxOfTwo ==
    ASSUME NEW a \in Nat, NEW b \in Nat
    PROVE  Max({a, b}) \in Nat /\ Max({a, b}) >= a /\ Max({a, b}) >= b /\ Max({a, b}) \in {a, b}
  <1>1. \E x \in {a, b} : \A y \in {a, b} : x >= y
    OBVIOUS
  <1>2. Max({a, b}) \in {a, b} /\ \A y \in {a, b} : Max({a, b}) >= y
    BY <1>1 DEF Max
  <1> QED BY <1>2

\* Some row of a set of table has the greatest version.
LEMMA GreatestVersion ==
    ASSUME NEW table \in Seq(PolicyRow), NEW D \in SUBSET (DOMAIN table), D # {}
    PROVE  Max({table[p].version : p \in D}) \in Nat
  <1> DEFINE v(q) == table[q].version
             Top(E) == \E p \in E : \A q \in E : v(p) >= v(q)
             Bad == {n \in Nat : \E E \in SUBSET (DOMAIN table) : E # {} /\ Cardinality(E) = n /\ ~Top(E)}
  <1>1. DOMAIN table = 1 .. Len(table) /\ Len(table) \in Nat /\ \A p \in 1 .. Len(table) : table[p] \in PolicyRow
    OBVIOUS
  <1>2. \A p \in DOMAIN table : v(p) \in Nat
    BY <1>1 DEF PolicyRow
  <1> HIDE DEF v
  <1>3. \A E \in SUBSET (DOMAIN table) : IsFiniteSet(E) /\ Cardinality(E) \in Nat
    <2>1. IsFiniteSet(1 .. Len(table))
      BY <1>1, FS_Interval
    <2> QED BY <1>1, <2>1, FS_Subset, FS_CardinalityType
  <1>4. Bad = {}
    <2> SUFFICES ASSUME Bad # {} PROVE FALSE
      OBVIOUS
    <2>1. PICK n \in Bad : \A m \in Bad : n <= m
      <3>1. Bad \in SUBSET Nat
        OBVIOUS
      <3> QED BY <3>1, LeastNatural
    <2>2. PICK E \in SUBSET (DOMAIN table) : E # {} /\ Cardinality(E) = n /\ ~Top(E)
      BY <2>1
    <2>3. PICK x \in E : TRUE
      BY <2>2
    <2> DEFINE F == E \ {x}
    <2>4. F \in SUBSET (DOMAIN table) /\ Cardinality(F) = n - 1 /\ Cardinality(F) \in Nat
      <3>1. F \in SUBSET (DOMAIN table)
        BY <2>2
      <3>2. IsFiniteSet(E) /\ Cardinality(F) \in Nat
        BY <1>3, <2>2, <3>1
      <3>3. Cardinality(F) = Cardinality(E) - 1
        BY <2>3, <3>2, FS_RemoveElement
      <3>4. Cardinality(F) = n - 1
        BY <2>2, <3>3
      <3> QED BY <3>1, <3>2, <3>4
    <2>5. F # {}
      <3>1. ASSUME F = {} PROVE Top(E)
        <4>1. \A q \in E : q = x
          BY <3>1
        <4>2. v(x) \in Nat /\ v(x) >= v(x)
          BY <1>2, <2>3
        <4>3. \A q \in E : v(x) >= v(q)
          BY <4>1, <4>2
        <4> QED BY <2>3, <4>3
      <3> QED BY <2>2, <3>1
    <2>6. n \in Nat
      OBVIOUS
    <2>7. Top(F)
      <3>1. n - 1 \in Nat /\ ~(n <= n - 1)
        BY <2>4, <2>6
      <3>2. n - 1 \notin Bad
        <4> HIDE DEF Bad
        <4> QED BY <2>1, <3>1
      <3> HIDE DEF Top, F
      <3> QED BY <2>4, <2>5, <3>1, <3>2
    <2>8. PICK p \in F : \A q \in F : v(p) >= v(q)
      BY <2>7
    <2>9. Top(E)
      <3>1. v(p) \in Nat /\ v(x) \in Nat /\ p \in E /\ \A q \in E : v(q) \in Nat
        BY <1>2, <2>3, <2>4
      <3>2. CASE v(p) >= v(x)
        <4>1. \A q \in E : v(p) >= v(q)
          BY <2>8, <3>2
        <4> QED BY <3>1, <4>1
      <3>3. CASE ~(v(p) >= v(x))
        <4>1. ASSUME NEW q \in E PROVE v(x) >= v(q)
          <5>1. CASE q = x
            BY <3>1, <5>1
          <5>2. CASE q # x
            <6>1. v(p) >= v(q) /\ v(q) \in Nat
              BY <2>8, <3>1, <5>2
            <6> QED BY <3>1, <3>3, <6>1
          <5> QED BY <5>1, <5>2
        <4> QED BY <2>3, <4>1
      <3> QED BY <3>2, <3>3
    <2> QED BY <2>2, <2>9
  <1>5. Top(D)
    BY <1>3, <1>4
  <1>6. PICK p \in D : \A q \in D : v(p) >= v(q)
    BY <1>5
  <1> USE DEF v
  <1> DEFINE V == {v(q) : q \in D}
  <1>7. \E x \in V : \A y \in V : x >= y
    BY <1>6
  <1>8. Max(V) \in V
    BY <1>7 DEF Max
  <1>9. V \subseteq Nat
    BY <1>2
  <1> QED BY <1>8, <1>9

-----------------------------------------------------------------------------
(* The policies                                                              *)

Ops == {"none", "put", "toggle", "clone", "rollback", "done"}
Config == PolicyIds \cup {Default}
Loaded(a) == admin[a].op \in {"put", "toggle", "clone", "rollback"}

\* A request loaded a row, and table are never removed.
PolicyTypeInv ==
    /\ policies \in Seq(PolicyRow) /\ Len(policies) <= MaxPolicies
    /\ admin \in [Admins -> [op : Ops, target : Nat, seen : Seq(PolicyRow)]]
    /\ \A a \in Admins : Len(admin[a].seen) <= Len(policies) /\ (Loaded(a) => admin[a].target \in DOMAIN admin[a].seen)
    /\ sync \in [pc : {"idle", "version", "compare", "apply"}, configs : [Areas -> Config], version : Nat,
                 todo : SUBSET Subscribers, torn : BOOLEAN]
    /\ agentVersion \in Nat /\ applied \in [Subscribers -> Config]
    /\ excused \subseteq {"fell", "torn", "raised"} /\ fresh \in BOOLEAN

\* What was fetched is what is active.
ConfigsActive == \A area \in Areas : sync.configs[area] \in Active(policies, area)
Announced(version) == GlobalVersion(policies) > version

\* What keeps an old configuration from staying in force: a version fetched of
\* unchanged table is the one that they have, configurations that were not torn
\* are active or a greater version is announced, and unless it is excused an
\* agent has what is active or a greater version is announced.
ForceInv ==
    /\ fresh => IF sync.pc = "compare" THEN sync.version = GlobalVersion(policies)
                ELSE GlobalVersion(policies) <= agentVersion
    /\ sync.pc = "apply" => sync.version = agentVersion
    /\ sync.pc # "apply" => sync.todo = {}
    /\ sync.pc = "version" /\ ~sync.torn => ConfigsActive
    /\ sync.pc = "compare" /\ ~sync.torn /\ (fresh \/ excused = {}) => ConfigsActive \/ Announced(sync.version)
    /\ excused = {} =>
         \/ Announced(agentVersion)
         \/ /\ \A s \in Subscribers \ sync.todo : applied[s] \in Active(policies, WantsOf[s])
            /\ sync.pc = "apply" => ConfigsActive

\* A configuration that is served is a row's or the default.
LEMMA ActiveType ==
    ASSUME NEW table \in Seq(PolicyRow), NEW area
    PROVE  Active(table, area) \subseteq Config
  <1>1. DOMAIN table = 1 .. Len(table) /\ \A p \in 1 .. Len(table) : table[p] \in PolicyRow
    OBVIOUS
  <1>2. \A p \in DOMAIN table : table[p].config \in PolicyIds
    BY <1>1 DEF PolicyRow
  <1> QED BY <1>2 DEF Active, Enabled, Config

\* A commit of table of the right type, at least as many as there are.
LEMMA CommitTypes ==
    ASSUME PolicyTypeInv, NEW table \in Seq(PolicyRow), Len(table) <= MaxPolicies, Len(policies) <= Len(table), Commit(table),
           \/ UNCHANGED admin
           \/ \E a \in Admins : Done(a)
    PROVE  PolicyTypeInv'
  <1>1. policies' = table /\ fresh' = FALSE /\ agentVersion' = agentVersion /\ applied' = applied
    BY DEF Commit
  <1>2. sync' = [sync EXCEPT !.torn = @ \/ sync.pc = "version"] /\ excused' \subseteq excused \cup {"fell"}
    BY DEF Commit
  <1>3. sync' \in [pc : {"idle", "version", "compare", "apply"}, configs : [Areas -> Config], version : Nat,
                   todo : SUBSET Subscribers, torn : BOOLEAN]
    BY <1>2 DEF PolicyTypeInv
  <1>4. /\ admin' \in [Admins -> [op : Ops, target : Nat, seen : Seq(PolicyRow)]]
        /\ \A a \in Admins : Len(admin'[a].seen) <= Len(table) /\ (Loaded(a)' => admin'[a].target \in DOMAIN admin'[a].seen)
    <2>1. CASE UNCHANGED admin
      BY <2>1 DEF PolicyTypeInv, Loaded
    <2>2. ASSUME NEW a \in Admins, Done(a)
          PROVE  /\ admin' \in [Admins -> [op : Ops, target : Nat, seen : Seq(PolicyRow)]]
                 /\ \A b \in Admins : Len(admin'[b].seen) <= Len(table) /\ (Loaded(b)' => admin'[b].target \in DOMAIN admin'[b].seen)
      <3>1. Idle("done") \in [op : Ops, target : Nat, seen : Seq(PolicyRow)] /\ Idle("done").op = "done" /\ Len(Idle("done").seen) = 0
        BY DEF Idle, Ops, Default
      <3>2. admin' = [admin EXCEPT ![a] = Idle("done")] /\ admin'[a] = Idle("done")
        BY <2>2 DEF Done, PolicyTypeInv
      <3>3. admin' \in [Admins -> [op : Ops, target : Nat, seen : Seq(PolicyRow)]]
        BY <3>1, <3>2 DEF PolicyTypeInv
      <3>4. ASSUME NEW b \in Admins
            PROVE  Len(admin'[b].seen) <= Len(table) /\ (Loaded(b)' => admin'[b].target \in DOMAIN admin'[b].seen)
        <4>1. CASE b = a
          <5>1. Len(table) \in Nat
            OBVIOUS
          <5> QED BY <4>1, <3>1, <3>2, <5>1 DEF Loaded
        <4>2. CASE b # a
          <5>1. admin'[b] = admin[b] /\ Len(admin[b].seen) <= Len(policies) /\ admin[b].seen \in Seq(PolicyRow)
            BY <3>2, <4>2 DEF PolicyTypeInv
          <5>2. Len(admin[b].seen) \in Nat /\ Len(policies) \in Nat /\ Len(table) \in Nat
            BY <5>1 DEF PolicyTypeInv
          <5> QED BY <5>1, <5>2 DEF PolicyTypeInv, Loaded
        <4> QED BY <4>1, <4>2
      <3> QED BY <3>3, <3>4
    <2> QED BY <2>1, <2>2
  <1> QED BY <1>1, <1>2, <1>3, <1>4 DEF PolicyTypeInv

\* A commit that is not excused keeps what is served or announces a version.
LEMMA CommitForces ==
    ASSUME PolicyTypeInv, ForceInv, NEW table \in Seq(PolicyRow), Commit(table)
    PROVE  ForceInv'
  <1>1. policies' = table /\ fresh' = FALSE /\ agentVersion' = agentVersion /\ applied' = applied
    BY DEF Commit
  <1>2. /\ sync'.pc = sync.pc /\ sync'.configs = sync.configs /\ sync'.version = sync.version /\ sync'.todo = sync.todo
        /\ sync'.torn = (sync.torn \/ sync.pc = "version")
    BY DEF Commit, PolicyTypeInv
  <1>3. GlobalVersion(table) \in Nat /\ GlobalVersion(policies) \in Nat /\ agentVersion \in Nat /\ sync.version \in Nat
    BY GlobalVersionType DEF PolicyTypeInv
  <1>4. Reached \in Nat /\ Reached >= agentVersion /\ (sync.pc = "compare" => Reached >= sync.version)
    BY <1>3, MaxOfTwo DEF Reached
  <1>5. ASSUME excused' = {}
        PROVE  /\ excused = {}
               /\ \/ GlobalVersion(table) > Reached
                  \/ /\ GlobalVersion(table) >= GlobalVersion(policies)
                     /\ \A area \in Areas : Active(table, area) = Active(policies, area)
    <2>1. excused' = IF /\ GlobalVersion(table) <= Reached
                        /\ GlobalVersion(table) < GlobalVersion(policies) \/ Served(table) # Served(policies)
                     THEN excused \cup {"fell"} ELSE excused
      BY DEF Commit
    <2>2. ~(/\ GlobalVersion(table) <= Reached
            /\ GlobalVersion(table) < GlobalVersion(policies) \/ Served(table) # Served(policies)) /\ excused = {}
      BY <2>1, <1>5
    <2>3. ASSUME Served(table) = Served(policies), NEW area \in Areas PROVE Active(table, area) = Active(policies, area)
      <3>1. Served(table)[area] = Active(table, area) /\ Served(policies)[area] = Active(policies, area)
        BY DEF Served
      <3> QED BY <2>3, <3>1
    <2> QED BY <2>2, <2>3, <1>3, <1>4
  <1>6. sync.pc = "compare" /\ ~sync.torn /\ excused' = {} => ConfigsActive' \/ Announced(sync.version)'
    <2> SUFFICES ASSUME sync.pc = "compare", ~sync.torn, excused' = {} PROVE ConfigsActive' \/ Announced(sync.version)'
      OBVIOUS
    <2>1. ConfigsActive \/ GlobalVersion(policies) > sync.version
      BY <1>5 DEF ForceInv, Announced
    <2>2. CASE GlobalVersion(table) > Reached
      BY <2>2, <1>1, <1>2, <1>3, <1>4 DEF Announced
    <2>3. CASE /\ GlobalVersion(table) >= GlobalVersion(policies)
               /\ \A area \in Areas : Active(table, area) = Active(policies, area)
      BY <2>1, <2>3, <1>1, <1>2, <1>3 DEF Announced, ConfigsActive
    <2> QED BY <1>5, <2>2, <2>3
  <1>7. ASSUME excused' = {}
        PROVE  \/ Announced(agentVersion)'
               \/ /\ \A s \in Subscribers \ sync'.todo : applied'[s] \in Active(policies', WantsOf[s])
                  /\ sync'.pc = "apply" => ConfigsActive'
    <2>1. \/ GlobalVersion(policies) > agentVersion
          \/ /\ \A s \in Subscribers \ sync.todo : applied[s] \in Active(policies, WantsOf[s])
             /\ sync.pc = "apply" => ConfigsActive
      BY <1>5, <1>7 DEF ForceInv, Announced
    <2>2. CASE GlobalVersion(table) > Reached
      BY <2>2, <1>1, <1>3, <1>4 DEF Announced
    <2>3. CASE /\ GlobalVersion(table) >= GlobalVersion(policies)
               /\ \A area \in Areas : Active(table, area) = Active(policies, area)
      <3>1. CASE GlobalVersion(policies) > agentVersion
        BY <2>3, <3>1, <1>1, <1>3 DEF Announced
      <3>2. CASE ~(GlobalVersion(policies) > agentVersion)
        <4>1. \A s \in Subscribers : WantsOf[s] \in Areas
          BY PolicyAssumption DEF PolicyAssumption
        <4>2. \A s \in Subscribers \ sync'.todo : applied'[s] \in Active(policies', WantsOf[s])
          BY <2>1, <2>3, <3>2, <4>1, <1>1, <1>2
        <4>3. sync'.pc = "apply" => ConfigsActive'
          BY <2>1, <2>3, <3>2, <1>1, <1>2 DEF ConfigsActive
        <4> QED BY <4>2, <4>3
      <3> QED BY <3>1, <3>2
    <2> QED BY <1>5, <1>7, <2>2, <2>3
  <1> QED BY <1>1, <1>2, <1>6, <1>7 DEF ForceInv

-----------------------------------------------------------------------------
(* Each operation                                                            *)

\* The other variables of a commit that does not finish a request.
LEMMA RowTypes ==
    ASSUME NEW table \in Seq(PolicyRow), NEW row \in PolicyRow
    PROVE  Append(table, row) \in Seq(PolicyRow) /\ Len(Append(table, row)) = Len(table) + 1
  OBVIOUS

LEMMA CreateTypes ==
    ASSUME PolicyTypeInv, NEW c \in Categories, NEW e \in BOOLEAN, NEW priority \in Priorities, CreatePolicy(c, e, priority)
    PROVE  \E table \in Seq(PolicyRow) : /\ Len(table) <= MaxPolicies /\ Len(policies) <= Len(table) /\ Commit(table)
                                        /\ UNCHANGED admin
  <1> DEFINE row == [cat |-> c, version |-> 1, enabled |-> e, priority |-> priority, config |-> NextId]
  <1>1. row \in PolicyRow
    BY PolicyAssumption DEF PolicyAssumption, CreatePolicy, PolicyRow
  <1>2. Len(policies) \in Nat /\ Len(policies) + 1 <= MaxPolicies /\ policies \in Seq(PolicyRow)
    BY PolicyAssumption DEF PolicyAssumption, CreatePolicy, NextId, PolicyIds, PolicyTypeInv
  <1>3. Commit(Append(policies, row)) /\ UNCHANGED admin
    BY DEF CreatePolicy
  <1> HIDE DEF row
  <1> DEFINE table == Append(policies, row)
  <1>4. table \in Seq(PolicyRow) /\ Len(table) = Len(policies) + 1
    BY <1>1, <1>2, RowTypes
  <1>5. Commit(table)
    BY <1>3
  <1> HIDE DEF table
  <1> QED BY <1>2, <1>3, <1>4, <1>5

\* A request that loaded knows table and its row among them, which is there yet.
LEMMA SeenType ==
    ASSUME PolicyTypeInv, NEW a \in Admins, Loaded(a)
    PROVE  /\ admin[a].seen \in Seq(PolicyRow) /\ admin[a].target \in DOMAIN admin[a].seen /\ Seen(a) \in PolicyRow
           /\ DOMAIN admin[a].seen \subseteq DOMAIN policies
           /\ \A p \in DOMAIN admin[a].seen : admin[a].seen[p] \in PolicyRow
  <1>1. admin[a].seen \in Seq(PolicyRow) /\ admin[a].target \in DOMAIN admin[a].seen /\ Len(admin[a].seen) <= Len(policies)
    BY DEF PolicyTypeInv
  <1>2. DOMAIN admin[a].seen = 1 .. Len(admin[a].seen) /\ \A p \in 1 .. Len(admin[a].seen) : admin[a].seen[p] \in PolicyRow
    BY <1>1
  <1>3. DOMAIN policies = 1 .. Len(policies) /\ Len(policies) \in Nat /\ Len(admin[a].seen) \in Nat
    BY <1>1 DEF PolicyTypeInv
  <1> QED BY <1>1, <1>2, <1>3 DEF Seen

LEMMA DisabledType ==
    ASSUME NEW table \in Seq(PolicyRow), NEW c
    PROVE  Disabled(table, c) \in Seq(PolicyRow) /\ Len(Disabled(table, c)) = Len(table)
  <1>1. DOMAIN table = 1 .. Len(table) /\ Len(table) \in Nat /\ \A p \in 1 .. Len(table) : table[p] \in PolicyRow
    OBVIOUS
  <1>2. \A p \in 1 .. Len(table) : (IF table[p].cat = c THEN [table[p] EXCEPT !.enabled = FALSE] ELSE table[p]) \in PolicyRow
    BY <1>1 DEF PolicyRow
  <1>3. Disabled(table, c) \in [1 .. Len(table) -> PolicyRow]
    BY <1>1, <1>2 DEF Disabled
  <1> QED BY <1>1, <1>3

LEMMA PutTypes ==
    ASSUME PolicyTypeInv, NEW a \in Admins, Put(a)
    PROVE  \E table \in Seq(PolicyRow) : /\ Len(table) <= MaxPolicies /\ Len(policies) <= Len(table) /\ Commit(table) /\ Done(a)
  <1> DEFINE c == Seen(a).cat
             of == InCategory(admin[a].seen, c)
             top == Max({admin[a].seen[p].version : p \in of})
             row == [cat |-> c, enabled |-> TRUE, priority |-> Seen(a).priority, config |-> NextId, version |-> top + 1]
             off == Disabled(policies, c)
  <1>1. Commit(Append(off, row)) /\ Done(a) /\ Loaded(a) /\ NextId \in PolicyIds
    BY DEF Put, Loaded
  <1>2. of \in SUBSET (DOMAIN admin[a].seen) /\ of # {}
    BY <1>1, SeenType DEF InCategory, Seen
  <1>3. top \in Nat
    BY <1>1, <1>2, SeenType, GreatestVersion
  <1>4. row \in PolicyRow
    <2> HIDE DEF top
    <2> QED BY <1>1, <1>3, SeenType DEF PolicyRow
  <1>5. policies \in Seq(PolicyRow)
    BY DEF PolicyTypeInv
  <1>6. off \in Seq(PolicyRow) /\ Len(off) = Len(policies)
    BY <1>5, DisabledType
  <1>7. Len(policies) \in Nat /\ Len(policies) + 1 <= MaxPolicies
    BY <1>1, <1>5, PolicyAssumption DEF PolicyAssumption, NextId, PolicyIds
  <1> HIDE DEF row, off
  <1> DEFINE table == Append(off, row)
  <1>8. table \in Seq(PolicyRow) /\ Len(table) = Len(off) + 1
    BY <1>4, <1>6, RowTypes
  <1>9. Commit(table)
    BY <1>1
  <1> HIDE DEF table
  <1> QED BY <1>1, <1>6, <1>7, <1>8, <1>9

LEMMA CloneTypes ==
    ASSUME PolicyTypeInv, NEW a \in Admins, Clone(a)
    PROVE  \E table \in Seq(PolicyRow) : /\ Len(table) <= MaxPolicies /\ Len(policies) <= Len(table) /\ Commit(table) /\ Done(a)
  <1> DEFINE of == InCategory(admin[a].seen, Seen(a).cat)
             row == [Seen(a) EXCEPT !.enabled = FALSE, !.version = Cardinality(of) + 1]
  <1>1. Commit(Append(policies, row)) /\ Done(a) /\ Loaded(a) /\ NextId \in PolicyIds
    BY DEF Clone, Loaded
  <1>2. Seen(a) \in PolicyRow /\ admin[a].seen \in Seq(PolicyRow)
    BY <1>1, SeenType
  <1>3. Cardinality(of) \in Nat
    <2>1. DOMAIN admin[a].seen = 1 .. Len(admin[a].seen) /\ Len(admin[a].seen) \in Nat
      BY <1>2
    <2>2. IsFiniteSet(1 .. Len(admin[a].seen))
      BY <2>1, FS_Interval
    <2>3. of \subseteq 1 .. Len(admin[a].seen)
      BY <2>1 DEF InCategory
    <2> QED BY <2>2, <2>3, FS_Subset, FS_CardinalityType
  <1>4. row \in PolicyRow
    <2> DEFINE n == Cardinality(of) + 1
    <2>1. n \in Nat
      BY <1>3
    <2> HIDE DEF n
    <2>2. [Seen(a) EXCEPT !.enabled = FALSE, !.version = n] \in PolicyRow
      BY <1>2, <2>1 DEF PolicyRow
    <2> QED BY <2>2 DEF n
  <1>5. policies \in Seq(PolicyRow)
    BY DEF PolicyTypeInv
  <1>6. Len(policies) \in Nat /\ Len(policies) + 1 <= MaxPolicies
    BY <1>1, <1>5, PolicyAssumption DEF PolicyAssumption, NextId, PolicyIds
  <1> HIDE DEF row
  <1> DEFINE table == Append(policies, row)
  <1>7. table \in Seq(PolicyRow) /\ Len(table) = Len(policies) + 1
    BY <1>4, <1>5, RowTypes
  <1>8. Commit(table)
    BY <1>1
  <1> HIDE DEF table
  <1> QED BY <1>1, <1>6, <1>7, <1>8

LEMMA ToggleTypes ==
    ASSUME PolicyTypeInv, NEW a \in Admins, NEW e \in BOOLEAN, Toggle(a, e)
    PROVE  \E table \in Seq(PolicyRow) : /\ Len(table) <= MaxPolicies /\ Len(policies) <= Len(table) /\ Commit(table) /\ Done(a)
  <1> DEFINE t == admin[a].target
             row == [policies[t] EXCEPT !.enabled = IF Seen(a).enabled = e THEN @ ELSE e, !.version = Seen(a).version + 1]
             table == [policies EXCEPT ![t] = row]
  <1>1. Commit(table) /\ Done(a) /\ Loaded(a)
    BY DEF Toggle, Loaded
  <1>2. Seen(a) \in PolicyRow /\ t \in DOMAIN policies
    BY <1>1, SeenType
  <1>3. policies \in Seq(PolicyRow) /\ Len(policies) \in Nat /\ Len(policies) <= MaxPolicies
    BY DEF PolicyTypeInv
  <1>4. DOMAIN policies = 1 .. Len(policies) /\ \A p \in 1 .. Len(policies) : policies[p] \in PolicyRow
    BY <1>3
  <1>5. row \in PolicyRow
    <2>1. policies[t] \in PolicyRow /\ Seen(a).version + 1 \in Nat
      BY <1>2, <1>4 DEF PolicyRow
    <2>2. policies[t].enabled \in BOOLEAN
      BY <2>1 DEF PolicyRow
    <2> DEFINE n == Seen(a).version + 1
               b == IF Seen(a).enabled = e THEN policies[t].enabled ELSE e
    <2>3. n \in Nat /\ b \in BOOLEAN /\ row = [policies[t] EXCEPT !.enabled = b, !.version = n]
      BY <2>1, <2>2
    <2> HIDE DEF n, b, row
    <2> QED BY <2>1, <2>3 DEF PolicyRow
  <1>6. table \in [1 .. Len(policies) -> PolicyRow]
    <2> HIDE DEF row
    <2> QED BY <1>4, <1>5
  <1>7. table \in Seq(PolicyRow) /\ Len(table) = Len(policies)
    <2>1. ASSUME NEW f \in [1 .. Len(policies) -> PolicyRow] PROVE f \in Seq(PolicyRow) /\ Len(f) = Len(policies)
      BY <1>3
    <2> HIDE DEF table
    <2> QED BY <1>6, <2>1
  <1> HIDE DEF table
  <1>8. Len(table) <= MaxPolicies /\ Len(policies) <= Len(table)
    BY <1>3, <1>7
  <1> QED BY <1>1, <1>7, <1>8

LEMMA RollbackTypes ==
    ASSUME PolicyTypeInv, NEW a \in Admins, Rollback(a)
    PROVE  \E table \in Seq(PolicyRow) : /\ Len(table) <= MaxPolicies /\ Len(policies) <= Len(table) /\ Commit(table) /\ Done(a)
  <1> DEFINE was(p) == admin[a].seen[p]
             kept   == InCategory(admin[a].seen, Seen(a).cat)
             anew(p) == IF p = admin[a].target
                       THEN [policies[p] EXCEPT !.priority = Pinned, !.version = was(p).version + 1,
                                                !.enabled = IF was(p).enabled THEN @ ELSE TRUE]
                       ELSE [policies[p] EXCEPT !.enabled = IF was(p).enabled THEN FALSE ELSE @]
             table == [p \in DOMAIN policies |-> IF p \in kept THEN anew(p) ELSE policies[p]]
  <1>1. Commit(table) /\ Done(a) /\ Loaded(a)
    BY DEF Rollback, Loaded
  <1>2. \A p \in kept : was(p) \in PolicyRow
    BY <1>1, SeenType DEF InCategory
  <1>3. policies \in Seq(PolicyRow) /\ Len(policies) \in Nat /\ Len(policies) <= MaxPolicies
    BY DEF PolicyTypeInv
  <1>4. DOMAIN policies = 1 .. Len(policies) /\ \A p \in 1 .. Len(policies) : policies[p] \in PolicyRow
    BY <1>3
  <1>5. \A p \in 1 .. Len(policies) : p \in kept => anew(p) \in PolicyRow
    <2> SUFFICES ASSUME NEW p \in 1 .. Len(policies), p \in kept PROVE anew(p) \in PolicyRow
      OBVIOUS
    <2> DEFINE n == was(p).version + 1
    <2>1. policies[p] \in PolicyRow /\ policies[p].enabled \in BOOLEAN /\ was(p).enabled \in BOOLEAN /\ n \in Nat
      BY <1>2, <1>4 DEF PolicyRow
    <2> DEFINE b == IF was(p).enabled THEN policies[p].enabled ELSE TRUE
               d == IF was(p).enabled THEN FALSE ELSE policies[p].enabled
    <2>2. b \in BOOLEAN /\ d \in BOOLEAN
      BY <2>1
    <2>3. \A x \in BOOLEAN : /\ [policies[p] EXCEPT !.priority = Pinned, !.version = n, !.enabled = x] \in PolicyRow
                             /\ [policies[p] EXCEPT !.enabled = x] \in PolicyRow
      <3> HIDE DEF n
      <3> TAKE x \in BOOLEAN
      <3>1. [policies[p] EXCEPT !.priority = Pinned, !.version = n, !.enabled = x] \in PolicyRow
        <4>1. Pinned \in Nat
          BY DEF Pinned
        <4> QED BY <2>1, <4>1 DEF PolicyRow
      <3>2. [policies[p] EXCEPT !.enabled = x] \in PolicyRow
        BY <2>1 DEF PolicyRow
      <3> QED BY <3>1, <3>2
    <2>4. anew(p) = IF p = admin[a].target THEN [policies[p] EXCEPT !.priority = Pinned, !.version = n, !.enabled = b]
                   ELSE [policies[p] EXCEPT !.enabled = d]
      OBVIOUS
    <2> HIDE DEF n, b, d, anew
    <2> QED BY <2>2, <2>3, <2>4
  <1>6. table \in [1 .. Len(policies) -> PolicyRow]
    <2> HIDE DEF anew, kept
    <2> QED BY <1>4, <1>5
  <1>7. table \in Seq(PolicyRow) /\ Len(table) = Len(policies)
    <2>1. ASSUME NEW f \in [1 .. Len(policies) -> PolicyRow] PROVE f \in Seq(PolicyRow) /\ Len(f) = Len(policies)
      BY <1>3
    <2> HIDE DEF table
    <2> QED BY <1>6, <2>1
  <1> HIDE DEF table
  <1>8. Len(table) <= MaxPolicies /\ Len(policies) <= Len(table)
    BY <1>3, <1>7
  <1> QED BY <1>1, <1>7, <1>8

\* A commit, by whichever operation.
Committed ==
    \E table \in Seq(PolicyRow) :
        /\ Len(table) <= MaxPolicies /\ Len(policies) <= Len(table) /\ Commit(table)
        /\ UNCHANGED admin \/ \E a \in Admins : Done(a)

LEMMA CommittedKeeps ==
    ASSUME PolicyTypeInv, ForceInv, Committed
    PROVE  PolicyTypeInv' /\ ForceInv'
  <1>1. PICK table \in Seq(PolicyRow) :
            /\ Len(table) <= MaxPolicies /\ Len(policies) <= Len(table) /\ Commit(table)
            /\ UNCHANGED admin \/ \E a \in Admins : Done(a)
    BY DEF Committed
  <1> QED BY <1>1, CommitTypes, CommitForces

LEMMA ForemostThere ==
    ASSUME PolicyTypeInv, NEW a \in Admins, NEW c, LoadPut(a, c)
    PROVE  \E p \in DOMAIN policies : Load(a, "put", p)
  BY DEF LoadPut, Load

LEMMA LoadKeeps ==
    ASSUME PolicyTypeInv, ForceInv, NEW a \in Admins, NEW op \in {"put", "toggle", "clone", "rollback"}, NEW p,
           Load(a, op, p)
    PROVE  PolicyTypeInv' /\ ForceInv'
  <1>1. /\ p \in DOMAIN policies /\ policies \in Seq(PolicyRow)
        /\ UNCHANGED <<policies, sync, agentVersion, applied, syncFaults, excused, fresh>>
    BY DEF Load, PolicyTypeInv
  <1> DEFINE request == [op |-> op, target |-> p, seen |-> policies]
  <1>2. DOMAIN policies = 1 .. Len(policies) /\ p \in Nat
    BY <1>1
  <1>3. request \in [op : Ops, target : Nat, seen : Seq(PolicyRow)] /\ request.seen = policies /\ request.target = p
    BY <1>1, <1>2 DEF Ops
  <1>4. admin' = [admin EXCEPT ![a] = request]
    BY DEF Load
  <1> HIDE DEF request
  <1>5. admin' \in [Admins -> [op : Ops, target : Nat, seen : Seq(PolicyRow)]]
    BY <1>3, <1>4 DEF PolicyTypeInv
  <1>6. ASSUME NEW b \in Admins
        PROVE  Len(admin'[b].seen) <= Len(policies') /\ (Loaded(b)' => admin'[b].target \in DOMAIN admin'[b].seen)
    <2>1. CASE b = a
      <3>1. admin'[b] = request /\ Len(policies) \in Nat
        BY <1>1, <1>4, <2>1 DEF PolicyTypeInv
      <3> QED BY <1>1, <1>3, <3>1
    <2>2. CASE b # a
      <3>1. admin'[b] = admin[b]
        BY <1>4, <2>2 DEF PolicyTypeInv
      <3> QED BY <1>1, <3>1 DEF PolicyTypeInv, Loaded
    <2> QED BY <2>1, <2>2
  <1>7. PolicyTypeInv'
    BY <1>1, <1>5, <1>6 DEF PolicyTypeInv
  <1>8. ForceInv'
    BY <1>1 DEF ForceInv, ConfigsActive, Announced
  <1> QED BY <1>7, <1>8

SyncType == [pc : {"idle", "version", "compare", "apply"}, configs : [Areas -> Config], version : Nat,
             todo : SUBSET Subscribers, torn : BOOLEAN]

LEMMA IdleSyncType == IdleSync \in SyncType
  BY DEF IdleSync, SyncType, NoConfigs, NoVersion, Config, Default

\* Steps of the agent leave the table and the requests.
LEMMA SyncTypes ==
    ASSUME PolicyTypeInv, UNCHANGED <<policies, admin>>, sync' \in SyncType, agentVersion' \in Nat,
           applied' \in [Subscribers -> Config], excused' \subseteq {"fell", "torn", "raised"}, fresh' \in BOOLEAN
    PROVE  PolicyTypeInv'
  <1>1. \A a \in Admins : Loaded(a)' = Loaded(a)
    BY DEF Loaded
  <1> QED BY <1>1 DEF PolicyTypeInv, SyncType

LEMMA FetchConfigsKeeps ==
    ASSUME PolicyTypeInv, ForceInv, FetchConfigs
    PROVE  PolicyTypeInv' /\ ForceInv'
  <1>1. PICK got \in [Areas -> UNION {Active(policies, area) : area \in Areas}] :
            /\ \A area \in Areas : got[area] \in Active(policies, area)
            /\ sync' = [sync EXCEPT !.pc = "version", !.configs = got, !.torn = FALSE]
    BY DEF FetchConfigs
  <1>2. UNCHANGED <<policies, admin, agentVersion, applied, syncFaults, excused, fresh>> /\ sync.pc = "idle"
    BY DEF FetchConfigs
  <1>3. got \in [Areas -> Config]
    <2>1. \A area \in Areas : got[area] \in Config
      BY <1>1, ActiveType DEF PolicyTypeInv
    <2> QED BY <1>1, <2>1
  <1>4. sync' \in SyncType /\ sync'.pc = "version" /\ sync'.configs = got /\ sync'.torn = FALSE /\ sync'.todo = sync.todo
    BY <1>1, <1>3 DEF PolicyTypeInv, SyncType
  <1>5. PolicyTypeInv'
    BY <1>2, <1>4, SyncTypes DEF PolicyTypeInv
  <1>6. ConfigsActive'
    BY <1>1, <1>2, <1>4 DEF ConfigsActive
  <1>7. ForceInv'
    BY <1>2, <1>4, <1>6 DEF ForceInv, Announced
  <1> QED BY <1>5, <1>7

LEMMA FetchVersionKeeps ==
    ASSUME PolicyTypeInv, ForceInv, FetchVersion
    PROVE  PolicyTypeInv' /\ ForceInv'
  <1>1. /\ sync.pc = "version" /\ fresh' = TRUE
        /\ sync' = [sync EXCEPT !.pc = "compare", !.version = GlobalVersion(policies)]
        /\ UNCHANGED <<policies, admin, agentVersion, applied, syncFaults, excused>>
    BY DEF FetchVersion
  <1>2. GlobalVersion(policies) \in Nat
    BY GlobalVersionType DEF PolicyTypeInv
  <1>3. /\ sync' \in SyncType /\ sync'.pc = "compare" /\ sync'.version = GlobalVersion(policies)
        /\ sync'.configs = sync.configs /\ sync'.torn = sync.torn /\ sync'.todo = sync.todo
    BY <1>1, <1>2 DEF PolicyTypeInv, SyncType
  <1>4. PolicyTypeInv'
    BY <1>1, <1>3, SyncTypes DEF PolicyTypeInv
  <1>5. ConfigsActive => ConfigsActive'
    BY <1>1, <1>3 DEF ConfigsActive
  <1>6. ForceInv'
    BY <1>1, <1>3, <1>5 DEF ForceInv, Announced
  <1> QED BY <1>4, <1>6

LEMMA CompareKeeps ==
    ASSUME PolicyTypeInv, ForceInv, Compare
    PROVE  PolicyTypeInv' /\ ForceInv'
  <1>1. sync.pc = "compare" /\ UNCHANGED <<policies, admin, applied, syncFaults, fresh>> /\ sync.todo = {}
    BY DEF Compare, ForceInv
  <1>2. agentVersion \in Nat /\ sync.version \in Nat /\ GlobalVersion(policies) \in Nat
    BY GlobalVersionType DEF PolicyTypeInv
  <1>3. CASE Newer
    <2>1. /\ agentVersion' = sync.version /\ sync' = [sync EXCEPT !.pc = "apply", !.todo = Subscribers]
          /\ excused' = (IF fresh THEN {} ELSE excused) \cup (IF sync.torn THEN {"torn"} ELSE {})
      BY <1>3 DEF Compare
    <2>2. /\ sync' \in SyncType /\ sync'.pc = "apply" /\ sync'.version = sync.version
          /\ sync'.configs = sync.configs /\ sync'.todo = Subscribers
      BY <2>1 DEF PolicyTypeInv, SyncType
    <2>3. excused' \subseteq {"fell", "torn", "raised"}
      BY <2>1 DEF PolicyTypeInv
    <2>4. PolicyTypeInv'
      BY <1>1, <1>2, <2>1, <2>2, <2>3, SyncTypes DEF PolicyTypeInv
    <2>5. excused' = {} => ConfigsActive' \/ Announced(agentVersion)'
      <3>1. excused' = {} => ~sync.torn /\ (fresh \/ excused = {})
        BY <2>1
      <3>2. excused' = {} => ConfigsActive \/ GlobalVersion(policies) > sync.version
        BY <1>1, <3>1 DEF ForceInv, Announced
      <3> QED BY <1>1, <2>1, <2>2, <3>2 DEF ConfigsActive, Announced
    <2>6. fresh => GlobalVersion(policies) <= sync.version
      BY <1>1, <1>2 DEF ForceInv
    <2>7. ForceInv'
      BY <1>1, <2>1, <2>2, <2>5, <2>6 DEF ForceInv
    <2> QED BY <2>4, <2>7
  <1>4. CASE ~Newer
    <2>1. sync' = IdleSync /\ UNCHANGED <<agentVersion, excused>>
      BY <1>4 DEF Compare
    <2>2. IdleSync.pc = "idle" /\ IdleSync.todo = {}
      BY DEF IdleSync
    <2>3. PolicyTypeInv'
      BY <1>1, <1>2, <2>1, IdleSyncType, SyncTypes DEF PolicyTypeInv
    <2>4. fresh => GlobalVersion(policies) <= agentVersion
      BY <1>1, <1>2, <1>4 DEF ForceInv, Newer
    <2>5. ForceInv'
      BY <1>1, <2>1, <2>2, <2>4 DEF ForceInv, Announced
    <2> QED BY <2>3, <2>5
  <1> QED BY <1>3, <1>4

LEMMA CalledType ==
    ASSUME PolicyTypeInv, NEW s \in Subscribers, Called(s)
    PROVE  /\ sync' \in SyncType /\ s \in sync.todo /\ sync.pc = "apply" /\ sync'.todo = sync.todo \ {s}
           /\ \/ sync'.pc = "idle" /\ sync.todo = {s}
              \/ sync'.pc = "apply" /\ sync'.configs = sync.configs /\ sync'.version = sync.version
  <1>1. sync.pc = "apply" /\ s \in sync.todo
    BY DEF Called
  <1>2. CASE sync.todo = {s}
    <2>1. sync' = IdleSync
      BY <1>2 DEF Called
    <2>2. IdleSync.pc = "idle" /\ IdleSync.todo = {}
      BY DEF IdleSync
    <2> QED BY <1>1, <1>2, <2>1, <2>2, IdleSyncType
  <1>3. CASE sync.todo # {s}
    <2>1. sync' = [sync EXCEPT !.todo = @ \ {s}]
      BY <1>3 DEF Called
    <2> QED BY <1>1, <2>1 DEF PolicyTypeInv, SyncType
  <1> QED BY <1>2, <1>3

LEMMA ApplyKeeps ==
    ASSUME PolicyTypeInv, ForceInv, NEW s \in Subscribers, Apply(s)
    PROVE  PolicyTypeInv' /\ ForceInv'
  <1>1. /\ Called(s) /\ applied' = [applied EXCEPT ![s] = sync.configs[WantsOf[s]]]
        /\ UNCHANGED <<policies, admin, agentVersion, syncFaults, excused, fresh>>
    BY DEF Apply
  <1>2. /\ sync' \in SyncType /\ s \in sync.todo /\ sync.pc = "apply" /\ sync'.todo = sync.todo \ {s}
        /\ \/ sync'.pc = "idle" /\ sync.todo = {s}
           \/ sync'.pc = "apply" /\ sync'.configs = sync.configs /\ sync'.version = sync.version
    BY <1>1, CalledType
  <1>3. WantsOf[s] \in Areas
    BY PolicyAssumption DEF PolicyAssumption
  <1>4. sync.configs[WantsOf[s]] \in Config
    BY <1>3 DEF PolicyTypeInv
  <1>5. applied' \in [Subscribers -> Config]
    BY <1>1, <1>4 DEF PolicyTypeInv
  <1>6. PolicyTypeInv'
    BY <1>1, <1>2, <1>5, SyncTypes DEF PolicyTypeInv
  <1>7. ASSUME excused = {}
        PROVE  \/ Announced(agentVersion)'
               \/ /\ \A o \in Subscribers \ sync'.todo : applied'[o] \in Active(policies', WantsOf[o])
                  /\ sync'.pc = "apply" => ConfigsActive'
    <2>1. CASE GlobalVersion(policies) > agentVersion
      BY <1>1, <2>1 DEF Announced
    <2>2. CASE /\ \A o \in Subscribers \ sync.todo : applied[o] \in Active(policies, WantsOf[o])
               /\ ConfigsActive
      <3>1. ASSUME NEW o \in Subscribers \ sync'.todo PROVE applied'[o] \in Active(policies', WantsOf[o])
        <4>1. CASE o = s
          <5>1. applied'[o] = sync.configs[WantsOf[s]]
            BY <1>1, <4>1 DEF PolicyTypeInv
          <5>2. sync.configs[WantsOf[s]] \in Active(policies, WantsOf[s])
            BY <1>3, <2>2 DEF ConfigsActive
          <5> QED BY <1>1, <4>1, <5>1, <5>2
        <4>2. CASE o # s
          <5>1. applied'[o] = applied[o] /\ o \in Subscribers \ sync.todo
            BY <1>1, <1>2, <4>2 DEF PolicyTypeInv
          <5> QED BY <1>1, <2>2, <5>1
        <4> QED BY <4>1, <4>2
      <3>2. sync'.pc = "apply" => ConfigsActive'
        BY <1>1, <1>2, <2>2 DEF ConfigsActive
      <3> QED BY <3>1, <3>2
    <2> QED BY <1>2, <1>7, <2>1, <2>2 DEF ForceInv, Announced
  <1>8. ForceInv'
    BY <1>1, <1>2, <1>7 DEF ForceInv
  <1> QED BY <1>6, <1>8

LEMMA ApplyRaisesKeeps ==
    ASSUME PolicyTypeInv, ForceInv, NEW s \in Subscribers, ApplyRaises(s)
    PROVE  PolicyTypeInv' /\ ForceInv'
  <1>1. Called(s) /\ excused' = excused \cup {"raised"} /\ UNCHANGED <<policies, admin, agentVersion, applied, fresh>>
    BY DEF ApplyRaises
  <1>2. /\ sync' \in SyncType /\ sync.pc = "apply" /\ sync'.todo = sync.todo \ {s}
        /\ \/ sync'.pc = "idle" /\ sync.todo = {s}
           \/ sync'.pc = "apply" /\ sync'.configs = sync.configs /\ sync'.version = sync.version
    BY <1>1, CalledType
  <1>3. PolicyTypeInv'
    BY <1>1, <1>2, SyncTypes DEF PolicyTypeInv
  <1>4. ForceInv'
    BY <1>1, <1>2 DEF ForceInv
  <1> QED BY <1>3, <1>4

LEMMA FetchFailsKeeps ==
    ASSUME PolicyTypeInv, ForceInv, FetchFails
    PROVE  PolicyTypeInv' /\ ForceInv'
  <1>1. sync' = IdleSync /\ fresh' = FALSE /\ UNCHANGED <<policies, admin, agentVersion, applied, excused>>
    BY DEF FetchFails
  <1>2. sync.pc # "apply" /\ IdleSync.pc = "idle" /\ IdleSync.todo = {}
    BY DEF FetchFails, IdleSync
  <1>3. PolicyTypeInv'
    BY <1>1, IdleSyncType, SyncTypes DEF PolicyTypeInv
  <1>4. ForceInv'
    BY <1>1, <1>2 DEF ForceInv, Announced
  <1> QED BY <1>3, <1>4

LEMMA PolicyInitially ==
    ASSUME PolicyInit
    PROVE  PolicyTypeInv /\ ForceInv
  <1>1. /\ policies = << >> /\ admin = [a \in Admins |-> Idle("none")] /\ sync = IdleSync
        /\ agentVersion = NoVersion /\ applied = [s \in Subscribers |-> Default] /\ excused = {} /\ fresh = FALSE
    BY DEF PolicyInit
  <1>2. Idle("none") \in [op : Ops, target : Nat, seen : Seq(PolicyRow)] /\ Idle("none").op = "none" /\ Len(Idle("none").seen) = 0
    BY DEF Idle, Ops, Default
  <1>3. admin \in [Admins -> [op : Ops, target : Nat, seen : Seq(PolicyRow)]] /\ \A a \in Admins : admin[a] = Idle("none")
    BY <1>1, <1>2
  <1>4. \A a \in Admins : Len(admin[a].seen) <= Len(policies) /\ ~Loaded(a)
    BY <1>1, <1>2, <1>3 DEF Loaded
  <1>5. policies \in Seq(PolicyRow) /\ Len(policies) <= MaxPolicies
    BY <1>1, PolicyAssumption DEF PolicyAssumption
  <1>6. agentVersion \in Nat /\ applied \in [Subscribers -> Config]
    BY <1>1 DEF NoVersion, Config, Default
  <1>7. PolicyTypeInv
    BY <1>1, <1>3, <1>4, <1>5, <1>6, IdleSyncType DEF PolicyTypeInv, SyncType
  <1>8. Enabled(policies) = {}
    BY <1>1 DEF Enabled
  <1>9. GlobalVersion(policies) > agentVersion
    BY <1>1, <1>8, GlobalVersionIs DEF NoVersion
  <1>10. ForceInv
    BY <1>1, <1>9 DEF ForceInv, IdleSync, Announced
  <1> QED BY <1>7, <1>10

LEMMA PolicyStep ==
    ASSUME PolicyTypeInv, ForceInv, [PolicyNext]_policyVars
    PROVE  PolicyTypeInv' /\ ForceInv'
  <1>1. ASSUME NEW c \in Categories, NEW e \in BOOLEAN, NEW priority \in Priorities, CreatePolicy(c, e, priority)
        PROVE  PolicyTypeInv' /\ ForceInv'
    <2>1. Committed
      BY <1>1, CreateTypes DEF Committed
    <2> QED BY <2>1, CommittedKeeps
  <1>2. ASSUME NEW a \in Admins, NEW c \in Categories, LoadPut(a, c)
        PROVE  PolicyTypeInv' /\ ForceInv'
    BY <1>2, ForemostThere, LoadKeeps
  <1>3. ASSUME NEW a \in Admins, NEW op \in {"toggle", "clone", "rollback"}, NEW p \in PolicyIds, Load(a, op, p)
        PROVE  PolicyTypeInv' /\ ForceInv'
    BY <1>3, LoadKeeps
  <1>4. ASSUME NEW a \in Admins, Put(a) \/ Clone(a) \/ Rollback(a)
        PROVE  PolicyTypeInv' /\ ForceInv'
    <2>1. Committed
      BY <1>4, PutTypes, CloneTypes, RollbackTypes DEF Committed
    <2> QED BY <2>1, CommittedKeeps
  <1>5. ASSUME NEW a \in Admins, NEW e \in BOOLEAN, Toggle(a, e)
        PROVE  PolicyTypeInv' /\ ForceInv'
    <2>1. Committed
      BY <1>5, ToggleTypes DEF Committed
    <2> QED BY <2>1, CommittedKeeps
  <1>6. ASSUME FetchConfigs \/ FetchVersion \/ FetchFails \/ Compare
        PROVE  PolicyTypeInv' /\ ForceInv'
    BY <1>6, FetchConfigsKeeps, FetchVersionKeeps, FetchFailsKeeps, CompareKeeps
  <1>7. ASSUME NEW s \in Subscribers, Apply(s) \/ ApplyRaises(s)
        PROVE  PolicyTypeInv' /\ ForceInv'
    BY <1>7, ApplyKeeps, ApplyRaisesKeeps
  <1>8. CASE UNCHANGED policyVars
    <2>1. UNCHANGED <<policies, admin, sync, agentVersion, applied, excused, fresh>>
      BY <1>8 DEF policyVars
    <2>2. PolicyTypeInv'
      BY <2>1 DEF PolicyTypeInv, Loaded
    <2>3. ForceInv'
      BY <2>1 DEF ForceInv, ConfigsActive, Announced
    <2> QED BY <2>2, <2>3
  <1> QED BY <1>1, <1>2, <1>3, <1>4, <1>5, <1>6, <1>7, <1>8 DEF PolicyNext

LEMMA PolicyAlways == PolicySpec => [](PolicyTypeInv /\ ForceInv)
  <1>1. PolicyInit => PolicyTypeInv /\ ForceInv
    BY PolicyInitially
  <1>2. PolicyTypeInv /\ ForceInv /\ [PolicyNext]_policyVars => (PolicyTypeInv /\ ForceInv)'
    BY PolicyStep
  <1> QED BY <1>1, <1>2, PTL DEF PolicySpec

(* Every reachable state of the policies and of the agent that syncs them is   *)
(* well-typed: the rows policy_service.py keeps, the edits its sessions hold,  *)
(* and what policy_sync.py has fetched, compared and handed to subscribers.    *)
THEOREM PolicyTypeCorrect == PolicySpec => []PolicyTypeOK
  <1>1. PolicyTypeInv => PolicyTypeOK
    BY DEF PolicyTypeInv, PolicyTypeOK, Ops, Config
  <1> QED BY <1>1, PolicyAlways, PTL

(* An agent that finished a sync after the last change, and whose subscribers  *)
(* did not raise, runs the configuration of the active policies, unless one of *)
(* the three weaknesses of policy_sync.py:60-101 has struck: a sum that fell,  *)
(* a commit between the two reads of a fetch, a subscriber that raised.  For   *)
(* any number of rows, requests, subscribers and versions.                     *)
THEOREM SyncedInForce == PolicySpec => []SyncedInForceUnlessExcused
  <1>1. PolicyTypeInv /\ ForceInv => SyncedInForceUnlessExcused
    <2> SUFFICES ASSUME PolicyTypeInv, ForceInv, Settled, excused = {} PROVE InForce
      BY DEF SyncedInForceUnlessExcused
    <2>1. GlobalVersion(policies) \in Nat /\ agentVersion \in Nat
      BY GlobalVersionType DEF PolicyTypeInv
    <2>2. sync.pc = "idle" /\ GlobalVersion(policies) <= agentVersion /\ sync.todo = {}
      BY DEF Settled, ForceInv
    <2>3. ~Announced(agentVersion)
      BY <2>1, <2>2 DEF Announced
    <2> QED BY <2>2, <2>3 DEF ForceInv, InForce
  <1> QED BY <1>1, PolicyAlways, PTL
-----------------------------------------------------------------------------
(* The run's type invariant of the composed specification, whose behaviours are
   behaviours of each component.                                             *)

LEMMA PlatformParts ==
    /\ Spec => PolicySpec
    /\ Spec => ChannelSpec
    /\ Spec => SocketSpec
    /\ Spec => LimiterSpec
    /\ Spec => ConsoleSpec
<1> DEFINE all == <<part, policyVars, channelVars, socketVars, limiterVars, consoleVars>>
<1>1. Init => PolicyInit /\ ChannelInit /\ SocketInit /\ LimiterInit /\ ConsoleInit
  BY DEF Init
<1>2. [Next]_all => [PolicyNext]_policyVars /\ [ChannelNext]_channelVars
  BY DEF Next, Runs, policyVars, channelVars
<1>3. [Next]_all => [SocketNext]_socketVars /\ [LimiterNext]_limiterVars /\ [ConsoleNext]_consoleVars
  BY DEF Next, Runs, socketVars, limiterVars, consoleVars
<1> QED
  BY <1>1, <1>2, <1>3, PTL DEF Spec, PolicySpec, ChannelSpec, SocketSpec, LimiterSpec, ConsoleSpec

\* What connects agents and backend is well-typed, whichever of it runs.
THEOREM PlatformTypeCorrect == Spec => []TypeOK
BY PlatformParts, PolicyTypeCorrect, ChannelTypeCorrect, SocketTypeCorrect, LimiterTypeCorrect, PTL DEF TypeOK

=============================================================================
