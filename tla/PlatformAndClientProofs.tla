---------------------- MODULE PlatformAndClientProofs ----------------------
(***************************************************************************)
(* Two components that share nothing, at either end of the program: the    *)
(* member's tab for any people and bounds, then the control plane for any  *)
(* tenants, features, bounds and sequence of requests and crashes.         *)
(*                                                                         *)
(* The tab.  The last session asked for is on its way or on the screen,    *)
(* unless a session was lost or taken for a newer one, and a list that     *)
(* loads, or has loaded, was requested for whoever was last rendered.  For *)
(* a member who always waits, one thing happens at a time: a call other    *)
(* than a territory's is alone, and what a list lacks is what it brings    *)
(* (Orderly); or the member has just signed out, several things happen,    *)
(* and all of them leave a guest's screen (Gone).                          *)
(*                                                                         *)
(* The control plane.  What an operator decided is the status of the       *)
(* tenant until the process dies: only the two routes that record it       *)
(* change a status once it is known, because adoption touches nothing but  *)
(* unknown tenants.  And an entry of the trail that names a status is      *)
(* either the truth or has a newer one in front of it, however many        *)
(* entries were pushed out behind.                                         *)
(***************************************************************************)
EXTENDS Client, Platform, SequenceTheorems, FiniteSetTheorems, TLAPS

USE ClientConstants

-----------------------------------------------------------------------------
(* The member's tab: types.                                                *)

Ops == Posts \cup {"session", "territory", "refill", "refresh"}

Call == [op : Ops, list : Lists \cup {"none", "page"}, who : Accounts, by : Accounts, owner : Accounts,
         live : BOOLEAN, old : BOOLEAN, found : SUBSET SUBSET People]

LoadOrNone == [by : Accounts, who : Accounts, found : SUBSET SUBSET People]

Shown == [by : Accounts, of : Accounts, marks : SUBSET People]

Dependencies == [path : Paths, ready : BOOLEAN, person : Accounts, member : BOOLEAN,
                 territory : {"unset", "home"}]

Losses == Ops \cup Lists \cup {"none", "page", "load"}

TypedScreen ==
    /\ saved \in [Lists -> SUBSET People] /\ account \in Accounts /\ path \in Paths
    /\ session \in Accounts /\ sessionReady \in BOOLEAN /\ territory \in {"unset", "home"}
    /\ shown \in [Lists -> Shown] /\ ready \in BOOLEAN
    /\ rendered \in Dependencies /\ rendered.member = (rendered.person # Nobody)

TypedCalls ==
    /\ loading \in [Lists -> LoadOrNone]
    /\ calls \in Seq(Call)
    /\ acts \in Nat /\ drops \in Nat
    /\ steady \in BOOLEAN /\ asked \in Accounts /\ overtaken \in BOOLEAN
    /\ displaced \in BOOLEAN /\ dropped \in SUBSET Losses

\* What each call is made for.
Proper(c) ==
    /\ c.op \in {"book", "cancel"} => c.list = "reservations"
    /\ c.op \in {"comment", "react"} => c.list = "feed"
    /\ c.op = "read" => c.list = "notifications"
    /\ c.op = "refill" => c.list \in {"reservations", "feed"}
    /\ c.list = "page" => c.op = "refresh" \/ (c.op = "session" /\ c.who = Nobody)

TypedTab == TypedScreen /\ TypedCalls /\ \A i \in DOMAIN calls : Proper(calls[i])

\* Unless a session was lost or taken for a newer one, the last session asked for
\* is on its way or on the screen.
AsksSession(i) == calls[i].op = "session"
Latest(i) == AsksSession(i) /\ \A j \in DOMAIN calls : AsksSession(j) => j <= i

LastSessionCounts ==
    ~overtaken /\ "session" \notin dropped =>
        /\ \A i, j \in DOMAIN calls :
              i < j /\ AsksSession(i) /\ AsksSession(j) /\ calls[j].old => calls[i].old
        /\ \A i \in DOMAIN calls :
              Latest(i) => IF calls[i].old THEN session = asked ELSE calls[i].who = asked
        /\ (\A i \in DOMAIN calls : ~AsksSession(i)) => session = asked

\* Notifications are requested for whom they were last rendered for.
NotificationsRequested ==
    "notifications" \notin dropped =>
        IF Idle("notifications") THEN shown.notifications.by = rendered.person
        ELSE loading.notifications.by = rendered.person

\* Nothing but the page has changed since the last rendering.
Rendered == \A d \in {"ready", "person", "member", "territory"} : rendered[d] = Now[d]

Settled == calls = <<>> /\ (\A l \in Lists : Idle(l)) /\ Rendered

\* Nothing else goes on while a call other than a territory is on its way.
AloneOnItsWay(c) ==
    /\ Len(calls) = 1 /\ (\A l \in Lists : Idle(l)) /\ rendered = Now
    /\ c.op # "refresh" /\ c.who = account
    /\ c.op = "session" => c.who = asked /\ (c.live \/ sessionReady)
    /\ c.op \in Posts \cup {"refill"} => path # "login" /\ session # Nobody
    /\ c.op = "refill" => c.found = {RowsFor(c.list, account, saved)}
    /\ c.op \in Posts => c.found \in {{}, {IF Allowed(c) THEN {c.who} ELSE {}}}

CalmCalls ==
    /\ path # rendered.path => Settled
    /\ \A i \in DOMAIN calls : IF calls[i].op = "territory" THEN session = account
                               ELSE AloneOnItsWay(calls[i])
    /\ \A l \in Lists : ~Idle(l) => /\ loading[l].who = account /\ session = account
                                    /\ loading[l].found = {RowsFor(l, account, saved)}

Asking == \E i \in DOMAIN calls : AsksSession(i)

\* Only who has just signed in over the screen of another, or whose token has
\* run out, differs from the session.
CalmSession ==
    /\ Asking \/ sessionReady
    /\ Asking \/ path # rendered.path \/ (session = asked /\ account \in {asked, Nobody})
    /\ session = account \/ (Rendered /\ (Nobody \in {session, account} \/ displaced))
    /\ rendered.ready /\ Idle("reservations") => ready

\* A token that runs out elsewhere than on the sign-in page lets the lists go
\* wrong until the member is there.
Kept == account # Nobody \/ session = Nobody
        \/ (path = "login" /\ rendered.path = "login" /\ ~Asking)

Owned(list) == shown[list].of = session \/ (displaced /\ Nobody \notin {session, shown[list].of})

Stored(list) == shown[list].marks = saved[list] \cap {shown[list].of}

\* What the lists show is stored, or what is on its way will make it so.
BookingsAgree ==
    \/ Stored("reservations")
    \/ \E i \in DOMAIN calls : /\ calls[i].list = "reservations"
                               /\ \/ calls[i].op = "refill"
                                  \/ calls[i].op \in {"book", "cancel"} /\ calls[i].found = {{account}}

Unread(c) == c.op = "read" /\ c.found = {}

NotificationsAgree ==
    /\ \A i \in DOMAIN calls : Unread(calls[i]) => /\ calls[i].owner = account /\ account # Nobody
                                                /\ shown.notifications.marks = {account}
    /\ (\E i \in DOMAIN calls : Unread(calls[i])) \/ Stored("notifications")

FeedAgrees ==
    \A m \in shown.feed.marks :
        \/ m \in saved.feed
        \/ m = account /\ \E i \in DOMAIN calls : calls[i].op = "react" /\ calls[i].found = {}

\* Bookings and feed follow the membership, the notifications the person.
CalmLists ==
    Kept =>
        /\ rendered.member = (session # Nobody) =>
              /\ Idle("reservations") => Owned("reservations") /\ BookingsAgree
              /\ Idle("feed") => Owned("feed") /\ FeedAgrees
        /\ rendered.person = session /\ Idle("notifications") =>
              shown.notifications.of = session /\ NotificationsAgree

Orderly == CalmCalls /\ CalmSession /\ CalmLists

\* After signing out several things may go on at once, none of which matters.
Gone ==
    /\ account = Nobody /\ session = Nobody /\ asked = Nobody /\ sessionReady
    /\ \A l \in Lists : Idle(l)
    /\ \A i \in DOMAIN calls : /\ calls[i].op \in {"session", "territory", "refresh"}
                               /\ calls[i].op = "session" => calls[i].who = Nobody
    /\ rendered.person = Nobody =>
          /\ rendered.ready => ready
          /\ \A l \in Lists : shown[l].of = Nobody
          /\ shown.reservations.marks = {} /\ shown.notifications.marks = {}
          /\ shown.feed.marks \subseteq saved.feed

Calm == steady /\ dropped = {} => Orderly \/ Gone

-----------------------------------------------------------------------------
(* Calls.                                                                  *)

LEMMA RemoveAtFacts ==
    ASSUME NEW S, NEW s \in Seq(S), NEW i \in DOMAIN s
    PROVE  /\ RemoveAt(s, i) \in Seq(S)
           /\ Len(s) \in Nat \ {0} /\ Len(RemoveAt(s, i)) = Len(s) - 1
           /\ DOMAIN RemoveAt(s, i) = 1..(Len(s) - 1)
           /\ \A j \in 1..(Len(s) - 1) : RemoveAt(s, i)[j] = IF j < i THEN s[j] ELSE s[j + 1]
<1> DEFINE before == SubSeq(s, 1, i - 1)
           after == SubSeq(s, i + 1, Len(s))
<1>1. Len(s) \in Nat /\ DOMAIN s = 1..Len(s) /\ i \in 1..Len(s) /\ \A j \in 1..Len(s) : s[j] \in S
  BY LenProperties, ElementOfSeq
<1>2. /\ before \in Seq(S) /\ Len(before) = i - 1
      /\ \A j \in 1..(i - 1) : before[j] = s[j]
  <2>1. \A j \in 1..(i - 1) : s[j] \in S
    BY <1>1
  <2>2. /\ before \in Seq(S)
        /\ Len(before) = IF 1 <= i - 1 THEN i - 1 - 1 + 1 ELSE 0
        /\ \A j \in 1..(i - 1 - 1 + 1) : before[j] = s[1 + j - 1]
    BY <1>1, <2>1, SubSeqProperties
  <2> HIDE DEF before
  <2> QED  BY <1>1, <2>2
<1>3. /\ after \in Seq(S) /\ Len(after) = Len(s) - i
      /\ \A j \in 1..(Len(s) - i) : after[j] = s[i + j]
  <2>1. \A j \in (i + 1)..Len(s) : s[j] \in S
    BY <1>1
  <2>2. /\ after \in Seq(S)
        /\ Len(after) = IF i + 1 <= Len(s) THEN Len(s) - (i + 1) + 1 ELSE 0
        /\ \A j \in 1..(Len(s) - (i + 1) + 1) : after[j] = s[i + 1 + j - 1]
    BY <1>1, <2>1, SubSeqProperties
  <2> HIDE DEF after
  <2>3. \A j \in 1..(Len(s) - i) : j \in 1..(Len(s) - (i + 1) + 1) /\ i + 1 + j - 1 = i + j
    BY <1>1
  <2>4. Len(after) = Len(s) - i
    BY <1>1, <2>2
  <2> QED  BY <2>2, <2>3, <2>4
<1>4. RemoveAt(s, i) = before \o after
  BY DEF RemoveAt
<1> HIDE DEF before, after
<1>5. /\ before \o after \in Seq(S) /\ Len(before \o after) = Len(before) + Len(after)
      /\ \A j \in 1..(Len(before) + Len(after)) :
            (before \o after)[j] = IF j <= Len(before) THEN before[j] ELSE after[j - Len(before)]
  BY <1>2, <1>3, ConcatProperties
<1>6. /\ DOMAIN (before \o after) = 1..Len(before \o after)
      /\ Len(before) + Len(after) = Len(s) - 1 /\ Len(s) \in Nat \ {0}
  BY <1>1, <1>2, <1>3, <1>5, LenProperties
<1>7. ASSUME NEW j \in 1..(Len(s) - 1)
      PROVE  (before \o after)[j] = IF j < i THEN s[j] ELSE s[j + 1]
  <2>1. (before \o after)[j] = IF j <= i - 1 THEN before[j] ELSE after[j - (i - 1)]
    BY <1>2, <1>5, <1>6
  <2>2. j <= i - 1 <=> j < i
    BY <1>1
  <2>3. CASE j < i
    BY <1>1, <1>2, <2>1, <2>2, <2>3
  <2>4. CASE ~(j < i)
    <3>1. j - (i - 1) \in 1..(Len(s) - i) /\ i + (j - (i - 1)) = j + 1
      BY <1>1, <1>6, <2>4
    <3> QED  BY <1>3, <2>1, <2>2, <2>4, <3>1
  <2> QED  BY <2>3, <2>4
<1> QED  BY <1>4, <1>5, <1>6, <1>7

\* The same calls, each as it is now.
LEMMA CallsInPlace ==
    ASSUME NEW S, NEW s \in Seq(S), NEW T, NEW f \in [DOMAIN s -> T]
    PROVE  /\ f \in Seq(T) /\ Len(f) = Len(s) /\ DOMAIN f = DOMAIN s
<1>1. Len(s) \in Nat /\ DOMAIN s = 1..Len(s)
  BY LenProperties
<1>2. f \in Seq(T)
  BY <1>1
<1> QED  BY <1>1, <1>2, LenProperties

LEMMA AppendFacts ==
    ASSUME NEW S, NEW s \in Seq(S), NEW e \in S
    PROVE  /\ Append(s, e) \in Seq(S) /\ DOMAIN Append(s, e) = 1..(Len(s) + 1)
           /\ Len(s) \in Nat /\ DOMAIN s = 1..Len(s) /\ Len(Append(s, e)) = Len(s) + 1
           /\ \A j \in 1..Len(s) : Append(s, e)[j] = s[j]
           /\ Append(s, e)[Len(s) + 1] = e
  BY AppendProperties, LenProperties

LEMMA ConcatFacts ==
    ASSUME NEW S, NEW s \in Seq(S), NEW t \in Seq(S), NEW m, NEW n, Len(s) = m, Len(t) = n
    PROVE  /\ s \o t \in Seq(S) /\ Len(s \o t) = m + n
           /\ \A j \in 1..(m + n) : (s \o t)[j] = IF j <= m THEN s[j] ELSE t[j - m]
  BY ConcatProperties

LEMMA RowsForTypes ==
    ASSUME NEW list \in Lists, NEW who, NEW stored \in [Lists -> SUBSET People]
    PROVE  RowsFor(list, who, stored) \in SUBSET People
  BY DEF RowsFor, Lists

LEMMA NewCallTypes ==
    ASSUME TypedScreen
    PROVE  \A op \in Ops, list \in Lists \cup {"none", "page"}, who \in Accounts, owner \in Accounts :
              (op = "refill" => list \in Lists) => NewCall(op, list, who, owner) \in Call
<1> SUFFICES ASSUME NEW op \in Ops, NEW list \in Lists \cup {"none", "page"},
                    NEW who \in Accounts, NEW owner \in Accounts,
                    op = "refill" => list \in Lists
             PROVE  NewCall(op, list, who, owner) \in Call
  OBVIOUS
<1>1. op = "refill" => RowsFor(list, who, saved) \in SUBSET People
  BY RowsForTypes DEF TypedScreen
<1> HIDE DEF RowsFor
<1> QED  BY <1>1 DEF NewCall, Call, TypedScreen, Accounts, Ops

\* The calls a rendering sends come after those there are.
LEMMA AsksTypes ==
    ASSUME TypedScreen, NEW op \in {"session", "territory"}
    PROVE  /\ Asks(op) \in Seq(Call)
           /\ Len(Asks(op)) = IF op \in Run THEN 1 ELSE 0
           /\ op \in Run => Asks(op)[1] = NewCall(op, "none", account, Nobody)
<1>1. NewCall(op, "none", account, Nobody) \in Call
  BY NewCallTypes DEF TypedScreen, Ops, Accounts
<1> HIDE DEF NewCall
<1> QED  BY <1>1 DEF Asks

LEMMA StaleTypes ==
    ASSUME TypedTab
    PROVE  /\ Stale \in Seq(Call) /\ Len(Stale) = Len(calls) /\ DOMAIN Stale = DOMAIN calls
           /\ \A i \in DOMAIN calls :
                 /\ Stale[i].op = calls[i].op /\ Stale[i].list = calls[i].list
                 /\ Stale[i].who = calls[i].who /\ Stale[i].old = calls[i].old
                 /\ Stale[i].found = calls[i].found /\ Stale[i].owner = calls[i].owner
<1>1. calls \in Seq(Call) /\ DOMAIN calls = 1..Len(calls) /\ \A i \in DOMAIN calls : calls[i] \in Call
  BY LenProperties, ElementOfSeq DEF TypedTab, TypedCalls
<1>2. \A i \in DOMAIN calls : [calls[i] EXCEPT !.live = @ /\ calls[i].op \notin Run] \in Call
  BY <1>1 DEF Call
<1>3. Stale \in [DOMAIN calls -> Call]
  BY <1>2 DEF Stale
<1>4. Stale \in Seq(Call) /\ Len(Stale) = Len(calls) /\ DOMAIN Stale = DOMAIN calls
  BY <1>1, <1>3, CallsInPlace
<1>5. \A i \in DOMAIN calls : Stale[i] = [calls[i] EXCEPT !.live = @ /\ calls[i].op \notin Run]
  BY DEF Stale
<1> QED  BY <1>1, <1>4, <1>5 DEF Call

\* The place before the call at i was taken out.
Was(j, i) == IF j < i THEN j ELSE j + 1

LEMMA CallsTyped ==
    ASSUME TypedTab
    PROVE  /\ calls \in Seq(Call) /\ Len(calls) \in Nat /\ DOMAIN calls = 1..Len(calls)
           /\ \A i \in DOMAIN calls : calls[i] \in Call
  BY LenProperties, ElementOfSeq DEF TypedTab, TypedCalls

LEMMA RenderCalls ==
    ASSUME TypedTab, Render
    PROVE  /\ calls' \in Seq(Call) /\ DOMAIN calls' = 1..Len(calls') /\ Len(calls') \in Nat
           /\ DOMAIN calls \subseteq DOMAIN calls' /\ DOMAIN calls = 1..Len(calls) /\ Len(calls) \in Nat
           /\ Len(calls') = Len(calls) + (IF "territory" \in Run THEN 1 ELSE 0)
                                       + (IF "session" \in Run THEN 1 ELSE 0)
           /\ \A j \in DOMAIN calls' :
                 \/ j \in DOMAIN calls /\ calls'[j] = Stale[j]
                 \/ /\ j \notin DOMAIN calls /\ "territory" \in Run
                    /\ calls'[j] = NewCall("territory", "none", account, Nobody)
                 \/ /\ j \notin DOMAIN calls /\ "session" \in Run /\ j = Len(calls')
                    /\ calls'[j] = NewCall("session", "none", account, Nobody)
           /\ "session" \in Run =>
                 calls'[Len(calls')] = NewCall("session", "none", account, Nobody)
<1> DEFINE n == Len(calls)
           a == Asks("territory")
           b == Asks("session")
           na == IF "territory" \in Run THEN 1 ELSE 0
           nb == IF "session" \in Run THEN 1 ELSE 0
<1>0. calls' = (Stale \o a) \o b
  BY DEF Render
<1>1. n \in Nat /\ DOMAIN calls = 1..n
  BY CallsTyped
<1>2. Stale \in Seq(Call) /\ Len(Stale) = n
  BY StaleTypes
<1>3. /\ a \in Seq(Call) /\ Len(a) = na
      /\ "territory" \in Run => a[1] = NewCall("territory", "none", account, Nobody)
      /\ b \in Seq(Call) /\ Len(b) = nb
      /\ "session" \in Run => b[1] = NewCall("session", "none", account, Nobody)
  BY AsksTypes DEF TypedTab
<1>6. na \in {0, 1} /\ nb \in {0, 1}
  OBVIOUS
<1>7. ("territory" \in Run <=> na = 1) /\ ("session" \in Run <=> nb = 1)
  OBVIOUS
<1> HIDE DEF n, a, b, na, nb, Stale
<1>4. /\ Stale \o a \in Seq(Call) /\ Len(Stale \o a) = n + na
      /\ \A j \in 1..(n + na) : (Stale \o a)[j] = IF j <= n THEN Stale[j] ELSE a[j - n]
  BY <1>2, <1>3, ConcatFacts
<1>5. /\ calls' \in Seq(Call) /\ Len(calls') = n + na + nb
      /\ \A j \in 1..(n + na + nb) :
            calls'[j] = IF j <= n + na THEN (Stale \o a)[j] ELSE b[j - (n + na)]
  <2> DEFINE both == Stale \o a
             m == n + na
  <2>1. both \in Seq(Call) /\ Len(both) = m
    BY <1>4
  <2> HIDE DEF both, m
  <2>2. /\ both \o b \in Seq(Call) /\ Len(both \o b) = m + nb
        /\ \A j \in 1..(m + nb) : (both \o b)[j] = IF j <= m THEN both[j] ELSE b[j - m]
    BY <1>3, <2>1, ConcatFacts
  <2> QED  BY <1>0, <2>2 DEF both, m
<1>8. DOMAIN calls' = 1..(n + na + nb)
  BY <1>5, LenProperties
<1>9. ASSUME NEW j \in DOMAIN calls'
      PROVE  \/ j \in DOMAIN calls /\ calls'[j] = Stale[j]
             \/ /\ j \notin DOMAIN calls /\ "territory" \in Run
                /\ calls'[j] = NewCall("territory", "none", account, Nobody)
             \/ /\ j \notin DOMAIN calls /\ "session" \in Run /\ j = Len(calls')
                /\ calls'[j] = NewCall("session", "none", account, Nobody)
  <2>1. CASE j <= n
    <3>1. j \in DOMAIN calls /\ j \in 1..(n + na) /\ j \in 1..(n + na + nb) /\ j <= n + na
      BY <1>1, <1>6, <1>8, <2>1
    <3> QED  BY <1>4, <1>5, <2>1, <3>1
  <2>2. CASE ~(j <= n) /\ j <= n + na
    <3>1. j = n + 1 /\ na = 1 /\ j \in 1..(n + na) /\ j \in 1..(n + na + nb) /\ j - n = 1
      BY <1>1, <1>6, <1>8, <2>2
    <3>2. calls'[j] = a[1]
      BY <1>4, <1>5, <2>2, <3>1
    <3> QED  BY <1>1, <1>3, <1>7, <2>2, <3>1, <3>2
  <2>3. CASE ~(j <= n + na)
    <3>1. j = n + na + 1 /\ nb = 1 /\ j \in 1..(n + na + nb) /\ j - (n + na) = 1 /\ ~(j <= n)
      BY <1>1, <1>6, <1>8, <2>3
    <3>2. calls'[j] = b[1]
      BY <1>5, <2>3, <3>1
    <3> QED  BY <1>1, <1>3, <1>5, <1>7, <3>1, <3>2
  <2> QED  BY <1>1, <1>6, <1>8, <2>1, <2>2, <2>3
<1>10. "session" \in Run => calls'[Len(calls')] = NewCall("session", "none", account, Nobody)
  <2> SUFFICES ASSUME "session" \in Run
               PROVE  calls'[Len(calls')] = NewCall("session", "none", account, Nobody)
    OBVIOUS
  <2>1. /\ Len(calls') \in 1..(n + na + nb) /\ ~(Len(calls') <= n + na)
        /\ Len(calls') - (n + na) = 1
    BY <1>1, <1>5, <1>6, <1>7
  <2> QED  BY <1>3, <1>5, <2>1
<1>11. DOMAIN calls \subseteq DOMAIN calls' /\ Len(calls') \in Nat
  BY <1>1, <1>5, <1>6, <1>8
<1>12. Len(calls') = Len(calls) + (IF "territory" \in Run THEN 1 ELSE 0)
                                + (IF "session" \in Run THEN 1 ELSE 0)
  BY <1>5 DEF n, na, nb
<1>13. DOMAIN calls' = 1..Len(calls') /\ DOMAIN calls = 1..Len(calls) /\ Len(calls) \in Nat
  BY <1>1, <1>5, <1>8 DEF n
<1> QED  BY <1>5, <1>9, <1>10, <1>11, <1>12, <1>13

LEMMA OutdatedTypes ==
    ASSUME TypedTab, NEW i \in DOMAIN calls
    PROVE  /\ Outdated(calls, i) \in Seq(Call) /\ Len(Outdated(calls, i)) = Len(calls)
           /\ DOMAIN Outdated(calls, i) = DOMAIN calls
           /\ \A j \in DOMAIN calls :
                 Outdated(calls, i)[j]
                     = [calls[j] EXCEPT !.old = @ \/ (j < i /\ calls[j].op = "session")]
<1>1. \A j \in DOMAIN calls :
          [calls[j] EXCEPT !.old = @ \/ (j < i /\ calls[j].op = "session")] \in Call
  BY CallsTyped DEF Call
<1>2. Outdated(calls, i) \in [DOMAIN calls -> Call]
  BY <1>1 DEF Outdated
<1> QED  BY <1>2, CallsInPlace, CallsTyped DEF Outdated

\* The answer that completes a signing out.
SignsOut(c) == c.op = "session" /\ c.list = "page"

LEMMA AfterTypes ==
    ASSUME TypedTab, NEW c \in Call, Proper(c), NEW answer
    PROVE  /\ After(c, answer) \in Seq(Call)
           /\ Len(After(c, answer)) = IF SignsOut(c) \/ Refills(c.op, answer) THEN 1 ELSE 0
           /\ SignsOut(c) => After(c, answer)[1] = NewCall("refresh", "page", account, Nobody)
           /\ Refills(c.op, answer) =>
                 After(c, answer)[1] = NewCall("refill", c.list, account, Nobody)
<1>1. NewCall("refresh", "page", account, Nobody) \in Call
  BY NewCallTypes DEF TypedTab, TypedScreen, Accounts, Ops
<1>2. Refills(c.op, answer) => c.list \in Lists /\ ~SignsOut(c)
  BY DEF Refills, Proper, Lists, SignsOut
<1>3. Refills(c.op, answer) => NewCall("refill", c.list, account, Nobody) \in Call
  BY <1>2, NewCallTypes DEF TypedTab, TypedScreen, Accounts, Ops
<1> HIDE DEF NewCall, Refills
<1>4. CASE SignsOut(c)
  <2>1. After(c, answer) = <<NewCall("refresh", "page", account, Nobody)>>
    BY <1>4 DEF After, SignsOut
  <2> QED  BY <1>1, <1>2, <1>4, <2>1
<1>5. CASE ~SignsOut(c) /\ Refills(c.op, answer)
  <2>1. After(c, answer) = <<NewCall("refill", c.list, account, Nobody)>>
    BY <1>5 DEF After, SignsOut
  <2> QED  BY <1>3, <1>5, <2>1
<1>6. CASE ~SignsOut(c) /\ ~Refills(c.op, answer)
  <2>1. After(c, answer) = <<>>
    BY <1>6 DEF After, SignsOut
  <2> QED  BY <1>6, <2>1
<1> QED  BY <1>4, <1>5, <1>6

\* What is left when an answer has come, and the call that may follow it.
LEMMA DeliverCalls ==
    ASSUME TypedTab, NEW i \in DOMAIN calls, NEW answer, Deliver(i, answer)
    PROVE  /\ calls' \in Seq(Call) /\ DOMAIN calls' = 1..Len(calls') /\ Len(calls') \in Nat
           /\ Len(calls') = IF SignsOut(calls[i]) \/ Refills(calls[i].op, answer)
                            THEN Len(calls) ELSE Len(calls) - 1
           /\ \A j \in 1..(Len(calls) - 1) :
                 /\ j \in DOMAIN calls' /\ Was(j, i) \in DOMAIN calls /\ Was(j, i) # i
                 /\ calls'[j] = IF calls[i].op = "session"
                                THEN [calls[Was(j, i)] EXCEPT
                                         !.old = @ \/ (Was(j, i) < i /\ calls[Was(j, i)].op = "session")]
                                ELSE calls[Was(j, i)]
           /\ SignsOut(calls[i]) =>
                 calls'[Len(calls)] = NewCall("refresh", "page", account, Nobody)
           /\ Refills(calls[i].op, answer) =>
                 calls'[Len(calls)] = NewCall("refill", calls[i].list, account, Nobody)
<1> DEFINE c == calls[i]
           before == IF c.op = "session" THEN Outdated(calls, i) ELSE calls
           left == RemoveAt(before, i)
           after == After(c, answer)
<1>0. calls' = left \o after
  BY DEF Deliver
<1>1. /\ calls \in Seq(Call) /\ Len(calls) \in Nat /\ DOMAIN calls = 1..Len(calls) /\ c \in Call
      /\ Proper(c)
  BY CallsTyped DEF TypedTab
<1>2. \A j \in 1..(Len(calls) - 1) : /\ Was(j, i) \in DOMAIN calls /\ Was(j, i) # i
                                     /\ Was(j, i) = IF j < i THEN j ELSE j + 1
  BY <1>1 DEF Was
<1>3. /\ before \in Seq(Call) /\ Len(before) = Len(calls) /\ DOMAIN before = DOMAIN calls
      /\ \A j \in DOMAIN calls :
            before[j] = IF c.op = "session"
                        THEN [calls[j] EXCEPT !.old = @ \/ (j < i /\ calls[j].op = "session")]
                        ELSE calls[j]
  <2>1. /\ Outdated(calls, i) \in Seq(Call) /\ Len(Outdated(calls, i)) = Len(calls)
        /\ DOMAIN Outdated(calls, i) = DOMAIN calls
        /\ \A j \in DOMAIN calls :
              Outdated(calls, i)[j]
                  = [calls[j] EXCEPT !.old = @ \/ (j < i /\ calls[j].op = "session")]
    BY OutdatedTypes
  <2>2. CASE c.op = "session"
    BY <2>1, <2>2
  <2>3. CASE c.op # "session"
    BY <1>1, <2>3
  <2> QED  BY <2>2, <2>3
<1>4. /\ after \in Seq(Call)
      /\ Len(after) = IF SignsOut(c) \/ Refills(c.op, answer) THEN 1 ELSE 0
      /\ SignsOut(c) => after[1] = NewCall("refresh", "page", account, Nobody)
      /\ Refills(c.op, answer) => after[1] = NewCall("refill", c.list, account, Nobody)
  <2> HIDE DEF c
  <2> QED  BY <1>1, AfterTypes
<1> HIDE DEF before
<1>5. /\ left \in Seq(Call) /\ Len(left) = Len(calls) - 1
      /\ \A j \in 1..(Len(calls) - 1) : left[j] = before[Was(j, i)]
  <2>1. /\ left \in Seq(Call) /\ Len(left) = Len(before) - 1
        /\ \A j \in 1..(Len(before) - 1) : left[j] = IF j < i THEN before[j] ELSE before[j + 1]
    BY <1>3, RemoveAtFacts
  <2> HIDE DEF left
  <2> QED  BY <1>2, <1>3, <2>1
<1> DEFINE more == SignsOut(c) \/ Refills(c.op, answer)
           n == IF more THEN 1 ELSE 0
<1> HIDE DEF left, after, c, more, NewCall, Refills
<1>6. n \in {0, 1} /\ (more <=> n = 1) /\ Len(after) = n
  BY <1>4 DEF more
<1> HIDE DEF n
<1>7. /\ calls' \in Seq(Call) /\ Len(calls') = Len(calls) - 1 + n
      /\ \A j \in 1..(Len(calls) - 1 + n) :
            calls'[j] = IF j <= Len(calls) - 1 THEN left[j] ELSE after[j - (Len(calls) - 1)]
  BY <1>0, <1>4, <1>5, <1>6, ConcatFacts
<1>8. DOMAIN calls' = 1..Len(calls') /\ Len(calls') \in Nat
  BY <1>7, LenProperties
<1>9. Len(calls') = IF more THEN Len(calls) ELSE Len(calls) - 1
  BY <1>1, <1>6, <1>7
<1>10. ASSUME NEW j \in 1..(Len(calls) - 1)
       PROVE  j \in DOMAIN calls' /\ calls'[j] = before[Was(j, i)]
  <2>1. j \in 1..(Len(calls) - 1 + n) /\ j <= Len(calls) - 1
    BY <1>1, <1>6
  <2> QED  BY <1>5, <1>7, <1>8, <2>1
<1>11. more => calls'[Len(calls)] = after[1]
  <2> SUFFICES ASSUME more  PROVE calls'[Len(calls)] = after[1]
    OBVIOUS
  <2>1. i \in 1..Len(calls) /\ n = 1
    BY <1>1, <1>6
  <2>2. /\ Len(calls) \in 1..(Len(calls) - 1 + n) /\ ~(Len(calls) <= Len(calls) - 1)
        /\ Len(calls) - (Len(calls) - 1) = 1
    BY <1>1, <2>1
  <2> QED  BY <1>7, <2>2
<1> QED  BY <1>2, <1>3, <1>4, <1>7, <1>8, <1>9, <1>10, <1>11 DEF c, more

LEMMA DropCalls ==
    ASSUME TypedTab, NEW i \in DOMAIN calls, Drop(i)
    PROVE  /\ calls' \in Seq(Call) /\ DOMAIN calls' = 1..Len(calls') /\ Len(calls') \in Nat
           /\ Len(calls') = Len(calls) - 1
           /\ \A j \in 1..(Len(calls) - 1) :
                 /\ j \in DOMAIN calls' /\ Was(j, i) \in DOMAIN calls /\ Was(j, i) # i
                 /\ calls'[j] = calls[Was(j, i)]
<1>1. calls \in Seq(Call) /\ Len(calls) \in Nat /\ DOMAIN calls = 1..Len(calls)
  BY CallsTyped
<1>2. calls' = RemoveAt(calls, i)
  BY DEF Drop
<1>3. \A j \in 1..(Len(calls) - 1) : /\ Was(j, i) \in DOMAIN calls /\ Was(j, i) # i
                                     /\ Was(j, i) = IF j < i THEN j ELSE j + 1
  BY <1>1 DEF Was
<1>4. /\ calls' \in Seq(Call) /\ Len(calls') = Len(calls) - 1 /\ Len(calls) \in Nat \ {0}
      /\ DOMAIN calls' = 1..(Len(calls) - 1)
      /\ \A j \in 1..(Len(calls) - 1) : calls'[j] = IF j < i THEN calls[j] ELSE calls[j + 1]
  BY <1>1, <1>2, RemoveAtFacts
<1> QED  BY <1>3, <1>4

LEMMA SentCalls ==
    ASSUME TypedTab
    PROVE  \A c \in Call : calls' = Append(calls, c) =>
              /\ calls' \in Seq(Call) /\ DOMAIN calls' = 1..Len(calls') /\ Len(calls') \in Nat
              /\ Len(calls') = Len(calls) + 1 /\ calls'[Len(calls')] = c
              /\ DOMAIN calls \subseteq DOMAIN calls' /\ Len(calls') \notin DOMAIN calls
              /\ \A j \in DOMAIN calls' : j \in DOMAIN calls \/ j = Len(calls')
              /\ \A j \in DOMAIN calls : calls'[j] = calls[j]
<1> SUFFICES ASSUME NEW c \in Call, calls' = Append(calls, c)
             PROVE  /\ calls' \in Seq(Call) /\ DOMAIN calls' = 1..Len(calls') /\ Len(calls') \in Nat
                    /\ Len(calls') = Len(calls) + 1 /\ calls'[Len(calls')] = c
                    /\ DOMAIN calls \subseteq DOMAIN calls' /\ Len(calls') \notin DOMAIN calls
                    /\ \A j \in DOMAIN calls' : j \in DOMAIN calls \/ j = Len(calls')
                    /\ \A j \in DOMAIN calls : calls'[j] = calls[j]
  OBVIOUS
<1>1. calls \in Seq(Call)
  BY CallsTyped
<1>2. /\ calls' \in Seq(Call) /\ DOMAIN calls' = 1..(Len(calls) + 1)
      /\ Len(calls) \in Nat /\ DOMAIN calls = 1..Len(calls) /\ Len(calls') = Len(calls) + 1
      /\ \A j \in 1..Len(calls) : calls'[j] = calls[j]
      /\ calls'[Len(calls) + 1] = c
  BY <1>1, AppendFacts
<1> QED  BY <1>2

LEMMA AppliedTypes ==
    ASSUME TypedTab, NEW c \in Call, Proper(c), c.op \in Posts, Allowed(c)
    PROVE  c.list \in Lists /\ c.who \in People /\ Applied(c) \in SUBSET People
<1>1. c.list \in Lists /\ c.who \in People
  BY DEF Proper, Posts, Lists, Call, Allowed, Accounts
<1>2. \A l \in Lists : saved[l] \in SUBSET People
  BY DEF TypedTab, TypedScreen
<1>3. {"reservations", "feed", "notifications"} \subseteq Lists
  BY DEF Lists
<1> QED  BY <1>1, <1>2, <1>3 DEF Applied, Posts

\* What the server does with a post, and what the reads on their way may find now.
LEMMA ServeCalls ==
    ASSUME TypedTab, NEW i \in DOMAIN calls, Serve(i)
    PROVE  /\ saved' \in [Lists -> SUBSET People]
           /\ loading' \in [Lists -> LoadOrNone]
           /\ \A l \in Lists : /\ Idle(l)' <=> Idle(l)
                               /\ loading'[l].by = loading[l].by /\ loading'[l].who = loading[l].who
           /\ calls' \in Seq(Call) /\ DOMAIN calls' = DOMAIN calls /\ Len(calls') = Len(calls)
           /\ \A j \in DOMAIN calls :
                 /\ calls'[j].op = calls[j].op /\ calls'[j].list = calls[j].list
                 /\ calls'[j].who = calls[j].who /\ calls'[j].owner = calls[j].owner
                 /\ calls'[j].live = calls[j].live /\ calls'[j].old = calls[j].old
           /\ calls'[i].found = {IF Allowed(calls[i]) THEN {calls[i].who} ELSE {}}
<1> DEFINE c == calls[i]
           new(j) == IF j = i THEN {IF Allowed(c) THEN {c.who} ELSE {}}
                     ELSE IF calls[j].op = "refill"
                     THEN calls[j].found \cup {RowsFor(calls[j].list, calls[j].who, saved')}
                     ELSE calls[j].found
<1>1. /\ calls \in Seq(Call) /\ (\A j \in DOMAIN calls : calls[j] \in Call /\ Proper(calls[j]))
      /\ saved \in [Lists -> SUBSET People] /\ loading \in [Lists -> LoadOrNone]
  BY CallsTyped DEF TypedTab, TypedScreen, TypedCalls
<1>2. c \in Call /\ Proper(c) /\ c.op \in Posts
  BY <1>1 DEF Serve
<1>3. saved' \in [Lists -> SUBSET People]
  <2>1. CASE Allowed(c)
    <3>1. saved' = [saved EXCEPT ![c.list] = Applied(c)]
      BY <2>1 DEF Serve
    <3> HIDE DEF c
    <3>2. c.list \in Lists /\ Applied(c) \in SUBSET People
      BY <1>2, <2>1, AppliedTypes
    <3> QED  BY <1>1, <3>1, <3>2
  <2>2. CASE ~Allowed(c)
    BY <1>1, <2>2 DEF Serve
  <2> QED  BY <2>1, <2>2
<1>4. \A l \in Lists, who \in Accounts : RowsFor(l, who, saved') \in SUBSET People
  BY <1>3, RowsForTypes
<1>5. \A j \in DOMAIN calls : new(j) \in SUBSET SUBSET People
  <2> SUFFICES ASSUME NEW j \in DOMAIN calls  PROVE new(j) \in SUBSET SUBSET People
    OBVIOUS
  <2>1. calls[j].found \in SUBSET SUBSET People /\ calls[j].who \in Accounts
    BY <1>1 DEF Call
  <2>2. calls[j].op = "refill" => calls[j].list \in Lists
    BY <1>1 DEF Proper, Lists
  <2>3. Allowed(c) => c.who \in People
    BY <1>2 DEF Allowed, Call, Accounts
  <2> HIDE DEF RowsFor, Allowed
  <2> QED  BY <1>4, <2>1, <2>2, <2>3
<1>6. calls' = [j \in DOMAIN calls |-> [calls[j] EXCEPT !.found = new(j)]]
  BY DEF Serve
<1> HIDE DEF new
<1>7. \A j \in DOMAIN calls : [calls[j] EXCEPT !.found = new(j)] \in Call
  BY <1>1, <1>5 DEF Call
<1>8. calls' \in [DOMAIN calls -> Call]
  BY <1>6, <1>7
<1>9. calls' \in Seq(Call) /\ DOMAIN calls' = DOMAIN calls /\ Len(calls') = Len(calls)
  BY <1>1, <1>8, CallsInPlace
<1>10. ASSUME NEW j \in DOMAIN calls
       PROVE  /\ calls'[j].op = calls[j].op /\ calls'[j].list = calls[j].list
              /\ calls'[j].who = calls[j].who /\ calls'[j].owner = calls[j].owner
              /\ calls'[j].live = calls[j].live /\ calls'[j].old = calls[j].old
              /\ calls'[j].found = new(j)
  BY <1>1, <1>6, <1>10 DEF Call
<1>11. calls'[i].found = {IF Allowed(calls[i]) THEN {calls[i].who} ELSE {}}
  BY <1>10 DEF new
<1>12. loading' = [l \in Lists |-> IF Idle(l) THEN loading[l]
                        ELSE [loading[l] EXCEPT !.found =
                                  @ \cup {RowsFor(l, loading[l].who, saved')}]]
  BY DEF Serve
<1>13. ASSUME NEW l \in Lists
       PROVE  /\ loading'[l] \in LoadOrNone /\ (Idle(l)' <=> Idle(l))
              /\ loading'[l].by = loading[l].by /\ loading'[l].who = loading[l].who
  <2>1. loading[l] \in LoadOrNone /\ loading[l].found \in SUBSET SUBSET People
    BY <1>1 DEF LoadOrNone
  <2>2. RowsFor(l, loading[l].who, saved') \in SUBSET People
    BY <1>4, <2>1 DEF LoadOrNone
  <2> HIDE DEF RowsFor
  <2>3. CASE Idle(l)
    BY <1>12, <2>1, <2>3 DEF Idle
  <2>4. CASE ~Idle(l)
    <3>1. loading'[l] = [loading[l] EXCEPT !.found = @ \cup {RowsFor(l, loading[l].who, saved')}]
      BY <1>12, <2>4
    <3> QED  BY <2>1, <2>2, <2>4, <3>1 DEF Idle, LoadOrNone
  <2> QED  BY <2>3, <2>4
<1>14. loading' \in [Lists -> LoadOrNone]
  BY <1>12, <1>13
<1> QED  BY <1>3, <1>9, <1>10, <1>11, <1>13, <1>14

-----------------------------------------------------------------------------
(* Types.                                                                  *)

LEMMA TabInitTyped == TabInit => TypedTab
<1> SUFFICES ASSUME TabInit  PROVE TypedTab
  OBVIOUS
<1>1. TypedScreen
  BY DEF TabInit, TypedScreen, Accounts, Paths, Shown, EmptyList, Dependencies, Now
<1>2. /\ NewCall("session", "none", account, Nobody) \in Call
      /\ Proper(NewCall("session", "none", account, Nobody))
  <2>1. NewCall("session", "none", account, Nobody) \in Call
    BY <1>1, NewCallTypes DEF TypedScreen, Ops, Accounts
  <2> QED  BY <2>1 DEF NewCall, Proper
<1> HIDE DEF NewCall
<1>3. calls \in Seq(Call) /\ DOMAIN calls = 1..1 /\ calls[1] = NewCall("session", "none", account, Nobody)
  BY <1>2 DEF TabInit
<1>4. TypedCalls
  BY <1>1, <1>3 DEF TabInit, TypedCalls, TypedScreen, LoadOrNone, NotLoading, Accounts
<1>5. \A i \in DOMAIN calls : Proper(calls[i])
  BY <1>2, <1>3
<1> QED  BY <1>1, <1>4, <1>5 DEF TypedTab

LEMMA RenderTyped == ASSUME TypedTab, Render  PROVE TypedTab'
<1>1. /\ calls' \in Seq(Call) /\ \A j \in DOMAIN calls' : Proper(calls'[j])
  <2>1. \A j \in DOMAIN calls : Proper(Stale[j])
    BY StaleTypes DEF TypedTab, Proper
  <2>2. /\ Proper(NewCall("territory", "none", account, Nobody))
        /\ Proper(NewCall("session", "none", account, Nobody))
    BY DEF NewCall, Proper
  <2> HIDE DEF NewCall, Proper
  <2> QED  BY <2>1, <2>2, RenderCalls
<1>2. \A l \in Lists : Load(l) \in LoadOrNone
  <2>1. \A l \in Lists : RowsFor(l, account, saved) \in SUBSET People
    BY RowsForTypes DEF TypedTab, TypedScreen
  <2> QED  BY <2>1 DEF TypedTab, TypedScreen, Load, LoadOrNone
<1>3. loading' \in [Lists -> LoadOrNone]
  <2>1. NotLoading \in LoadOrNone
    BY DEF NotLoading, LoadOrNone, Accounts
  <2>2. loading' = Loads /\ loading \in [Lists -> LoadOrNone]
    BY DEF Render, TypedTab, TypedCalls
  <2> HIDE DEF Load, NotLoading, Run
  <2> QED  BY <1>2, <2>1, <2>2 DEF Loads
<1>4. shown' \in [Lists -> Shown]
  <2>1. EmptyList \in Shown
    BY DEF EmptyList, Shown, Accounts
  <2>2. \A l \in Lists : shown[l] \in Shown
    BY DEF TypedTab, TypedScreen
  <2> HIDE DEF EmptyList, Run
  <2> QED  BY <2>1, <2>2 DEF Render
<1>5. rendered' \in Dependencies /\ rendered'.member = (rendered'.person # Nobody)
  BY DEF Render, Now, Dependencies, TypedTab, TypedScreen
<1>6. ready' \in BOOLEAN /\ asked' \in Accounts
  BY DEF Render, ReadyAfter, TypedTab, TypedScreen, TypedCalls
<1> QED  BY <1>1, <1>3, <1>4, <1>5, <1>6 DEF Render, TypedTab, TypedScreen, TypedCalls

LEMMA ServeTyped == ASSUME TypedTab, NEW i \in DOMAIN calls, Serve(i)  PROVE TypedTab'
<1>1. \A j \in DOMAIN calls' : Proper(calls'[j])
  BY ServeCalls DEF TypedTab, Proper
<1> QED  BY <1>1, ServeCalls DEF Serve, screen, history, TypedTab, TypedScreen, TypedCalls

LEMMA DeliverTyped ==
    ASSUME TypedTab, NEW i \in DOMAIN calls, NEW answer \in calls[i].found, Deliver(i, answer)
    PROVE  TypedTab'
<1>1. calls[i] \in Call /\ Proper(calls[i]) /\ answer \in SUBSET People
  BY CallsTyped DEF TypedTab, Call
<1>2. ASSUME NEW j \in DOMAIN calls'
      PROVE  Proper(calls'[j])
  <2>1. CASE j \in 1..(Len(calls) - 1)
    <3>1. Was(j, i) \in DOMAIN calls /\ Proper(calls[Was(j, i)]) /\ calls[Was(j, i)] \in Call
      BY <2>1, DeliverCalls, CallsTyped DEF TypedTab
    <3>2. /\ calls'[j].op = calls[Was(j, i)].op /\ calls'[j].list = calls[Was(j, i)].list
          /\ calls'[j].who = calls[Was(j, i)].who
      <4> DEFINE c == calls[Was(j, i)]
      <4>1. calls'[j] = IF calls[i].op = "session"
                        THEN [c EXCEPT !.old = @ \/ (Was(j, i) < i /\ c.op = "session")] ELSE c
        BY <2>1, DeliverCalls
      <4>2. c \in Call
        BY <3>1
      <4> HIDE DEF c
      <4>3. calls'[j].op = c.op /\ calls'[j].list = c.list /\ calls'[j].who = c.who
        BY <4>1, <4>2 DEF Call
      <4> QED  BY <4>3 DEF c
    <3> QED  BY <3>1, <3>2 DEF Proper
  <2>2. CASE j \notin 1..(Len(calls) - 1)
    <3>1. (SignsOut(calls[i]) \/ Refills(calls[i].op, answer)) /\ j = Len(calls)
      <4>1. /\ j \in 1..Len(calls') /\ Len(calls) \in Nat
            /\ Len(calls') = IF SignsOut(calls[i]) \/ Refills(calls[i].op, answer)
                             THEN Len(calls) ELSE Len(calls) - 1
        BY DeliverCalls, CallsTyped
      <4> HIDE DEF Refills
      <4> QED  BY <2>2, <4>1
    <3>2. CASE SignsOut(calls[i])
      <4>1. calls'[j] = NewCall("refresh", "page", account, Nobody)
        BY <3>1, <3>2, DeliverCalls
      <4> QED  BY <4>1 DEF NewCall, Proper
    <3>3. CASE Refills(calls[i].op, answer)
      <4>1. calls'[j] = NewCall("refill", calls[i].list, account, Nobody)
        BY <3>1, <3>3, DeliverCalls
      <4>2. calls[i].list \in {"reservations", "feed"}
        BY <1>1, <3>3 DEF Refills, Proper
      <4> QED  BY <4>1, <4>2 DEF NewCall, Proper
    <3> QED  BY <3>1, <3>2, <3>3
  <2> QED  BY <2>1, <2>2
<1>3. shown' \in [Lists -> Shown] /\ ready' \in BOOLEAN
  <2>1. CASE calls[i].op = "refill"
    <3>1. shown' = [shown EXCEPT ![calls[i].list] = [by |-> calls[i].by, of |-> calls[i].who,
                                                     marks |-> answer]]
          /\ ready' = (ready \/ calls[i].list = "reservations")
      BY <2>1 DEF Deliver, Fill
    <3>2. [by |-> calls[i].by, of |-> calls[i].who, marks |-> answer] \in Shown
      BY <1>1 DEF Call, Shown
    <3> QED  BY <3>1, <3>2 DEF TypedTab, TypedScreen
  <2>2. CASE calls[i].op # "refill"
    BY <2>2 DEF Deliver, TypedTab, TypedScreen
  <2> QED  BY <2>1, <2>2
<1>4. /\ session' \in Accounts /\ sessionReady' \in BOOLEAN /\ overtaken' \in BOOLEAN
      /\ territory' \in {"unset", "home"} /\ path' \in Paths
  BY <1>1 DEF Deliver, TypedTab, TypedScreen, TypedCalls, Call, Paths
<1>5. calls' \in Seq(Call)
  BY DeliverCalls
<1> QED  BY <1>2, <1>3, <1>4, <1>5 DEF Deliver, TypedTab, TypedScreen, TypedCalls

LEMMA ArriveTyped ==
    ASSUME TypedTab, NEW l \in Lists, NEW answer \in loading[l].found, Arrive(l, answer)
    PROVE  TypedTab'
<1>1. loading[l] \in LoadOrNone /\ answer \in SUBSET People
  BY DEF TypedTab, TypedCalls, LoadOrNone
<1>2. [by |-> loading[l].by, of |-> loading[l].who, marks |-> answer] \in Shown
  BY <1>1 DEF LoadOrNone, Shown
<1>3. shown' \in [Lists -> Shown] /\ ready' \in BOOLEAN
  BY <1>2 DEF Arrive, Fill, TypedTab, TypedScreen
<1>4. NotLoading \in LoadOrNone
  BY DEF NotLoading, LoadOrNone, Accounts
<1>5. loading' \in [Lists -> LoadOrNone]
  BY <1>4 DEF Arrive, TypedTab, TypedCalls
<1> QED  BY <1>3, <1>5 DEF Arrive, history, TypedTab, TypedScreen, TypedCalls

LEMMA DropTyped == ASSUME TypedTab, NEW i \in DOMAIN calls, Drop(i)  PROVE TypedTab'
<1>1. \A j \in DOMAIN calls' : Proper(calls'[j])
  BY DropCalls, CallsTyped DEF TypedTab
<1>2. calls[i] \in Call
  BY CallsTyped
<1>3. /\ session' \in Accounts /\ sessionReady' \in BOOLEAN /\ territory' \in {"unset", "home"}
      /\ dropped' \in SUBSET Losses /\ drops' \in Nat
  BY <1>2 DEF Drop, Lose, TypedTab, TypedScreen, TypedCalls, Call, Accounts, Losses
<1> QED  BY <1>1, <1>3, DropCalls DEF Drop, Lose, TypedTab, TypedScreen, TypedCalls

LEMMA FailTyped == ASSUME TypedTab, NEW l \in Lists, Fail(l)  PROVE TypedTab'
<1>1. NotLoading \in LoadOrNone
  BY DEF NotLoading, LoadOrNone, Accounts
<1>2. loading' \in [Lists -> LoadOrNone] /\ dropped' \in SUBSET Losses /\ drops' \in Nat
  BY <1>1 DEF Fail, Lose, TypedTab, TypedCalls, Losses
<1> QED  BY <1>2 DEF Fail, Lose, TypedTab, TypedScreen, TypedCalls

\* What a member does leaves the rest of the types as they are.
LEMMA ActTyped ==
    ASSUME TypedTab, Acts, Stay, path' \in Paths, account' \in Accounts, asked' \in Accounts,
           displaced' \in BOOLEAN, shown' \in [Lists -> Shown], calls' \in Seq(Call),
           \A j \in DOMAIN calls' : Proper(calls'[j])
    PROVE  TypedTab'
<1>1. acts' \in Nat /\ steady' \in BOOLEAN
  BY DEF Acts, TypedTab, TypedCalls
<1> QED  BY <1>1 DEF Acts, Stay, TypedTab, TypedScreen, TypedCalls

\* One call more.
LEMMA SentTyped ==
    ASSUME TypedTab
    PROVE  \A c \in Call : Proper(c) /\ calls' = Append(calls, c) =>
              calls' \in Seq(Call) /\ \A j \in DOMAIN calls' : Proper(calls'[j])
<1> SUFFICES ASSUME NEW c \in Call, Proper(c), calls' = Append(calls, c)
             PROVE  calls' \in Seq(Call) /\ \A j \in DOMAIN calls' : Proper(calls'[j])
  OBVIOUS
<1>1. /\ calls' \in Seq(Call) /\ calls'[Len(calls')] = c
      /\ \A j \in DOMAIN calls' : j \in DOMAIN calls \/ j = Len(calls')
      /\ \A j \in DOMAIN calls : calls'[j] = calls[j]
  BY SentCalls
<1> QED  BY <1>1 DEF TypedTab

\* What a post is, and where.
LEMMA PostTyped ==
    ASSUME TypedTab
    PROVE  \A op \in Posts, list \in Lists :
              /\ op \in {"book", "cancel"} => list = "reservations"
              /\ op \in {"comment", "react"} => list = "feed"
              /\ op = "read" => list = "notifications"
              /\ Post(op, list)
              => calls' \in Seq(Call) /\ \A j \in DOMAIN calls' : Proper(calls'[j])
<1> SUFFICES ASSUME NEW op \in Posts, NEW list \in Lists,
                    op \in {"book", "cancel"} => list = "reservations",
                    op \in {"comment", "react"} => list = "feed",
                    op = "read" => list = "notifications", Post(op, list)
             PROVE  calls' \in Seq(Call) /\ \A j \in DOMAIN calls' : Proper(calls'[j])
  OBVIOUS
<1>1. shown[list].of \in Accounts /\ account \in Accounts /\ op \in Ops /\ op # "refill"
  BY DEF TypedTab, TypedScreen, Shown, Ops, Posts
<1>2. NewCall(op, list, account, shown[list].of) \in Call
  BY <1>1, NewCallTypes DEF TypedTab
<1>3. Proper(NewCall(op, list, account, shown[list].of))
  BY <1>1 DEF NewCall, Proper, Posts
<1> HIDE DEF NewCall
<1> QED  BY <1>2, <1>3, SentTyped DEF Post

LEMMA ClickTyped == ASSUME TypedTab, Click  PROVE TypedTab'
<1>1. \A l \in Lists : shown[l] \in Shown
  BY DEF TypedTab, TypedScreen
<1>2. \A l \in Lists, marks \in SUBSET People : Patch(l, marks) => shown' \in [Lists -> Shown]
  BY DEF Patch, TypedTab, TypedScreen, Shown
<1>3. "reservations" \in Lists /\ "feed" \in Lists /\ "notifications" \in Lists
  BY DEF Lists
<1>4. /\ calls' \in Seq(Call) /\ (\A j \in DOMAIN calls' : Proper(calls'[j]))
      /\ shown' \in [Lists -> Shown]
  <2>1. CASE Book
    BY <1>3, <2>1, PostTyped DEF Book, Posts, TypedTab, TypedScreen
  <2>2. CASE Cancel
    BY <1>3, <2>2, PostTyped DEF Cancel, Posts, TypedTab, TypedScreen
  <2>3. CASE Comment
    BY <1>3, <2>3, PostTyped DEF Comment, Posts, TypedTab, TypedScreen
  <2>4. CASE React
    <3>1. session \in People
      BY <2>4 DEF React, TypedTab, TypedScreen, Accounts
    <3>2. shown.feed.marks \in SUBSET People
      BY <1>1, <1>3 DEF Shown
    <3>3. shown' \in [Lists -> Shown]
      BY <1>2, <1>3, <2>4, <3>1, <3>2 DEF React
    <3> QED  BY <1>3, <2>4, <3>3, PostTyped DEF React, Posts
  <2>5. CASE MarkRead
    <3>1. {shown.notifications.of} \in SUBSET People
      BY <1>1, <1>3, <2>5 DEF MarkRead, Shown, Accounts
    <3>2. shown' \in [Lists -> Shown]
      BY <1>2, <1>3, <2>5, <3>1 DEF MarkRead
    <3> QED  BY <1>3, <2>5, <3>2, PostTyped DEF MarkRead, Posts
  <2> QED  BY <2>1, <2>2, <2>3, <2>4, <2>5 DEF Click
<1>5. UNCHANGED <<account, path, asked, displaced>> /\ Acts /\ Stay
  BY DEF Click
<1> QED  BY <1>4, <1>5, ActTyped DEF TypedTab, TypedScreen, TypedCalls

\* What onLogout sends.
Refreshed == [NewCall("session", "page", Nobody, Nobody) EXCEPT !.live = FALSE]

LEMMA RefreshedTypes ==
    ASSUME TypedTab
    PROVE  /\ Refreshed \in Call /\ Proper(Refreshed)
           /\ SignsOut(Refreshed) /\ Refreshed.op = "session" /\ Refreshed.who = Nobody /\ Refreshed.old = FALSE
<1>1. NewCall("session", "page", Nobody, Nobody) \in Call
  BY NewCallTypes DEF TypedTab, TypedScreen, Ops, Accounts
<1>2. /\ NewCall("session", "page", Nobody, Nobody).op = "session"
      /\ NewCall("session", "page", Nobody, Nobody).list = "page"
      /\ NewCall("session", "page", Nobody, Nobody).who = Nobody
      /\ NewCall("session", "page", Nobody, Nobody).old = FALSE
  BY DEF NewCall
<1> HIDE DEF NewCall
<1> QED  BY <1>1, <1>2 DEF Refreshed, Call, Proper, SignsOut

LEMMA TypedStep == TypedTab /\ [TabNext]_tab => TypedTab'
<1> SUFFICES ASSUME TypedTab, [TabNext]_tab  PROVE TypedTab'
  OBVIOUS
<1>0. /\ path \in Paths /\ account \in Accounts /\ asked \in Accounts /\ shown \in [Lists -> Shown]
      /\ displaced \in BOOLEAN
      /\ calls \in Seq(Call) /\ (\A j \in DOMAIN calls : Proper(calls[j]))
      /\ Nobody \in Accounts /\ (\A p \in People : p \in Accounts)
  BY DEF TypedTab, TypedScreen, TypedCalls, Accounts
<1>1. CASE Render
  BY <1>1, RenderTyped
<1>2. ASSUME NEW i \in DOMAIN calls, Serve(i)  PROVE TypedTab'
  BY <1>2, ServeTyped
<1>3. ASSUME NEW i \in DOMAIN calls, NEW answer \in calls[i].found, Deliver(i, answer)
      PROVE  TypedTab'
  BY <1>3, DeliverTyped
<1>4. ASSUME NEW l \in Lists, NEW answer \in loading[l].found, Arrive(l, answer)
      PROVE  TypedTab'
  BY <1>4, ArriveTyped
<1>5. ASSUME NEW i \in DOMAIN calls, Drop(i)  PROVE TypedTab'
  BY <1>5, DropTyped
<1>6. ASSUME NEW l \in Lists, Fail(l)  PROVE TypedTab'
  BY <1>6, FailTyped
<1>7. ASSUME NEW to \in Paths, Navigate(to)  PROVE TypedTab'
  <2>1. path' \in Paths /\ UNCHANGED <<account, shown, calls, asked, displaced>> /\ Acts /\ Stay
    BY <1>7 DEF Navigate, Paths
  <2> QED  BY <1>0, <2>1, ActTyped
<1>8. ASSUME NEW p \in People, Login(p)  PROVE TypedTab'
  <2>1. /\ path' \in Paths /\ account' = p /\ UNCHANGED <<shown, calls, asked>> /\ Acts /\ Stay
        /\ displaced' \in BOOLEAN
    BY <1>0, <1>8 DEF Login, Paths
  <2> QED  BY <1>0, <2>1, ActTyped
<1>9. CASE Logout
  <2>1. /\ account' = Nobody /\ asked' = Nobody /\ calls' = Append(calls, Refreshed)
        /\ UNCHANGED <<path, shown, displaced>> /\ Acts /\ Stay
    BY <1>9 DEF Logout, Refreshed
  <2>2. calls' \in Seq(Call) /\ \A j \in DOMAIN calls' : Proper(calls'[j])
    BY <2>1, RefreshedTypes, SentTyped
  <2> QED  BY <1>0, <2>1, <2>2, ActTyped
<1>10. CASE Expire
  <2>1. account' = Nobody /\ UNCHANGED <<path, shown, calls, asked, displaced>> /\ Acts /\ Stay
    BY <1>10 DEF Expire
  <2> QED  BY <1>0, <2>1, ActTyped
<1>11. CASE Click
  BY <1>11, ClickTyped
<1>12. CASE UNCHANGED tab
  BY <1>12 DEF tab, screen, history, TypedTab, TypedScreen, TypedCalls
<1> QED  BY <1>1, <1>2, <1>3, <1>4, <1>5, <1>6, <1>7, <1>8, <1>9, <1>10, <1>11, <1>12
         DEF TabNext, Progress

-----------------------------------------------------------------------------
(* The last session asked for.                                             *)

\* Nothing about the sessions that are on their way has changed.
LEMMA SameSessions ==
    ASSUME TypedTab, LastSessionCounts, DOMAIN calls' = DOMAIN calls,
           \A j \in DOMAIN calls : /\ calls'[j].op = calls[j].op /\ calls'[j].who = calls[j].who
                                   /\ calls'[j].old = calls[j].old,
           UNCHANGED <<session, asked, overtaken>>, dropped \subseteq dropped'
    PROVE  LastSessionCounts'
  BY DEF LastSessionCounts, Latest, AsksSession

\* Calls are sent; a session among them is the newest.
LEMMA MoreCalls ==
    ASSUME TypedTab, LastSessionCounts, DOMAIN calls' = 1..Len(calls'), Len(calls') \in Nat,
           DOMAIN calls \subseteq DOMAIN calls',
           \A j \in DOMAIN calls : /\ calls'[j].op = calls[j].op /\ calls'[j].who = calls[j].who
                                   /\ calls'[j].old = calls[j].old,
           \A j \in DOMAIN calls' : \/ j \in DOMAIN calls
                                    \/ calls'[j].op # "session"
                                    \/ j = Len(calls') /\ calls'[j].who = asked' /\ calls'[j].old = FALSE,
           asked' = asked \/ (Len(calls') \in DOMAIN calls' \ DOMAIN calls /\ calls'[Len(calls')].op = "session"),
           UNCHANGED <<session, overtaken, dropped>>
    PROVE  LastSessionCounts'
<1> SUFFICES ASSUME ~overtaken', "session" \notin dropped'
             PROVE  /\ \A i, j \in DOMAIN calls' :
                          i < j /\ calls'[i].op = "session" /\ calls'[j].op = "session"
                          /\ calls'[j].old => calls'[i].old
                    /\ \A i \in DOMAIN calls' :
                          calls'[i].op = "session"
                          /\ (\A j \in DOMAIN calls' : calls'[j].op = "session" => j <= i) =>
                          IF calls'[i].old THEN session' = asked' ELSE calls'[i].who = asked'
                    /\ (\A i \in DOMAIN calls' : calls'[i].op # "session") => session' = asked'
  BY DEF LastSessionCounts, Latest, AsksSession
<1>1. DOMAIN calls = 1..Len(calls) /\ Len(calls) \in Nat /\ ~overtaken /\ "session" \notin dropped
  BY CallsTyped
<1>2. /\ \A i, j \in DOMAIN calls :
            i < j /\ calls[i].op = "session" /\ calls[j].op = "session" /\ calls[j].old => calls[i].old
      /\ \A i \in DOMAIN calls :
            calls[i].op = "session" /\ (\A j \in DOMAIN calls : calls[j].op = "session" => j <= i) =>
            IF calls[i].old THEN session = asked ELSE calls[i].who = asked
      /\ (\A i \in DOMAIN calls : calls[i].op # "session") => session = asked
  BY <1>1 DEF LastSessionCounts, Latest, AsksSession
<1>3. ASSUME NEW i \in DOMAIN calls', NEW j \in DOMAIN calls', i < j,
             calls'[i].op = "session", calls'[j].op = "session", calls'[j].old
      PROVE  calls'[i].old
  <2>1. j \in DOMAIN calls
    BY <1>3
  <2>2. i \in DOMAIN calls
    BY <1>1, <1>3, <2>1
  <2> QED  BY <1>2, <1>3, <2>1, <2>2
<1>4. ASSUME NEW i \in DOMAIN calls', calls'[i].op = "session",
             \A j \in DOMAIN calls' : calls'[j].op = "session" => j <= i
      PROVE  IF calls'[i].old THEN session' = asked' ELSE calls'[i].who = asked'
  <2>1. CASE i \in DOMAIN calls
    <3>1. asked' = asked
      <4> SUFFICES ASSUME asked' # asked  PROVE FALSE
        OBVIOUS
      <4>1. Len(calls') <= i /\ Len(calls') \notin DOMAIN calls /\ Len(calls') \in DOMAIN calls'
        BY <1>4
      <4> QED  BY <1>1, <2>1, <4>1
    <3>2. \A j \in DOMAIN calls : calls[j].op = "session" => j <= i
      BY <1>4
    <3> QED  BY <1>2, <1>4, <2>1, <3>1, <3>2
  <2>2. CASE i \notin DOMAIN calls
    BY <1>4, <2>2
  <2> QED  BY <2>1, <2>2
<1>5. ASSUME \A i \in DOMAIN calls' : calls'[i].op # "session"
      PROVE  session' = asked'
  <2>1. asked' = asked
    BY <1>5
  <2>2. \A i \in DOMAIN calls : calls[i].op # "session"
    BY <1>5
  <2> QED  BY <1>2, <2>1, <2>2
<1> QED  BY <1>3, <1>4, <1>5

\* Where a call that was not taken out is now.
LEMMA Moved ==
    ASSUME TypedTab, NEW i \in DOMAIN calls
    PROVE  /\ \A k \in DOMAIN calls : k # i => \E j \in 1..(Len(calls) - 1) : k = Was(j, i)
           /\ \A j, k \in 1..(Len(calls) - 1) : /\ j < k <=> Was(j, i) < Was(k, i)
                                                /\ j <= k <=> Was(j, i) <= Was(k, i)
<1> DEFINE n == Len(calls)
<1>1. n \in Nat /\ DOMAIN calls = 1..n /\ i \in 1..n
  BY CallsTyped
<1> HIDE DEF n
<1>2. ASSUME NEW k \in 1..n, k # i
      PROVE  \E j \in 1..(n - 1) : k = Was(j, i)
  <2>1. CASE k < i
    <3>1. k \in 1..(n - 1) /\ Was(k, i) = k
      BY <1>1, <2>1 DEF Was
    <3> QED  BY <3>1
  <2>2. CASE ~(k < i)
    <3>1. k - 1 \in 1..(n - 1) /\ Was(k - 1, i) = k
      BY <1>1, <1>2, <2>2 DEF Was
    <3> QED  BY <3>1
  <2> QED  BY <2>1, <2>2
<1>3. ASSUME NEW j \in 1..(n - 1), NEW k \in 1..(n - 1)
      PROVE  (j < k <=> Was(j, i) < Was(k, i)) /\ (j <= k <=> Was(j, i) <= Was(k, i))
  BY <1>1 DEF Was
<1> QED  BY <1>1, <1>2, <1>3 DEF n

\* A call other than a session is gone, and only such a call may have been added.
LEMMA FewerCalls ==
    ASSUME TypedTab, LastSessionCounts, NEW i \in DOMAIN calls, calls[i].op # "session",
           \A j \in 1..(Len(calls) - 1) :
               /\ j \in DOMAIN calls' /\ Was(j, i) \in DOMAIN calls
               /\ calls'[j].op = calls[Was(j, i)].op /\ calls'[j].who = calls[Was(j, i)].who
               /\ calls'[j].old = calls[Was(j, i)].old,
           \A j \in DOMAIN calls' : j \in 1..(Len(calls) - 1) \/ calls'[j].op # "session",
           UNCHANGED <<session, asked>>, overtaken => overtaken', dropped \subseteq dropped'
    PROVE  LastSessionCounts'
<1> SUFFICES ASSUME ~overtaken', "session" \notin dropped'
             PROVE  /\ \A k, j \in DOMAIN calls' :
                          k < j /\ calls'[k].op = "session" /\ calls'[j].op = "session"
                          /\ calls'[j].old => calls'[k].old
                    /\ \A k \in DOMAIN calls' :
                          calls'[k].op = "session"
                          /\ (\A j \in DOMAIN calls' : calls'[j].op = "session" => j <= k) =>
                          IF calls'[k].old THEN session' = asked' ELSE calls'[k].who = asked'
                    /\ (\A k \in DOMAIN calls' : calls'[k].op # "session") => session' = asked'
  BY DEF LastSessionCounts, Latest, AsksSession
<1>1. DOMAIN calls = 1..Len(calls) /\ Len(calls) \in Nat /\ ~overtaken /\ "session" \notin dropped
  BY CallsTyped
<1>2. /\ \A k, j \in DOMAIN calls :
            k < j /\ calls[k].op = "session" /\ calls[j].op = "session" /\ calls[j].old => calls[k].old
      /\ \A k \in DOMAIN calls :
            calls[k].op = "session" /\ (\A j \in DOMAIN calls : calls[j].op = "session" => j <= k) =>
            IF calls[k].old THEN session = asked ELSE calls[k].who = asked
      /\ (\A k \in DOMAIN calls : calls[k].op # "session") => session = asked
  BY <1>1 DEF LastSessionCounts, Latest, AsksSession
<1>3. /\ \A k \in DOMAIN calls : k # i => \E j \in 1..(Len(calls) - 1) : k = Was(j, i)
      /\ \A j, k \in 1..(Len(calls) - 1) : /\ j < k <=> Was(j, i) < Was(k, i)
                                           /\ j <= k <=> Was(j, i) <= Was(k, i)
  BY Moved
<1>4. ASSUME NEW k \in DOMAIN calls', NEW j \in DOMAIN calls', k < j,
             calls'[k].op = "session", calls'[j].op = "session", calls'[j].old
      PROVE  calls'[k].old
  BY <1>2, <1>3, <1>4
<1>5. ASSUME NEW k \in DOMAIN calls', calls'[k].op = "session",
             \A j \in DOMAIN calls' : calls'[j].op = "session" => j <= k
      PROVE  IF calls'[k].old THEN session' = asked' ELSE calls'[k].who = asked'
  <2>1. k \in 1..(Len(calls) - 1) /\ Was(k, i) \in DOMAIN calls /\ calls[Was(k, i)].op = "session"
    BY <1>5
  <2>2. ASSUME NEW m \in DOMAIN calls, calls[m].op = "session"
        PROVE  m <= Was(k, i)
    <3>1. PICK j \in 1..(Len(calls) - 1) : m = Was(j, i)
      BY <1>3, <2>2
    <3>2. j <= k
      BY <1>5, <2>2, <3>1
    <3> QED  BY <1>3, <2>1, <3>1, <3>2
  <2>3. IF calls[Was(k, i)].old THEN session = asked ELSE calls[Was(k, i)].who = asked
    BY <1>2, <2>1, <2>2
  <2> QED  BY <2>1, <2>3
<1>6. ASSUME \A k \in DOMAIN calls' : calls'[k].op # "session"
      PROVE  session' = asked'
  <2>1. ASSUME NEW m \in DOMAIN calls, calls[m].op = "session"
        PROVE  FALSE
    <3>1. PICK j \in 1..(Len(calls) - 1) : m = Was(j, i)
      BY <1>3, <2>1
    <3> QED  BY <1>6, <2>1, <3>1
  <2> QED  BY <1>2, <2>1
<1> QED  BY <1>4, <1>5, <1>6

\* A session has come; those that were sent before it are old now.
LEMMA SessionCame ==
    ASSUME TypedTab, LastSessionCounts, NEW i \in DOMAIN calls, calls[i].op = "session",
           NEW answer, Deliver(i, answer)
    PROVE  LastSessionCounts'
<1> SUFFICES ASSUME ~overtaken', "session" \notin dropped'
             PROVE  /\ \A k, j \in DOMAIN calls' :
                          k < j /\ calls'[k].op = "session" /\ calls'[j].op = "session"
                          /\ calls'[j].old => calls'[k].old
                    /\ \A k \in DOMAIN calls' :
                          calls'[k].op = "session"
                          /\ (\A j \in DOMAIN calls' : calls'[j].op = "session" => j <= k) =>
                          IF calls'[k].old THEN session' = asked' ELSE calls'[k].who = asked'
                    /\ (\A k \in DOMAIN calls' : calls'[k].op # "session") => session' = asked'
  BY DEF LastSessionCounts, Latest, AsksSession
<1>1. /\ DOMAIN calls = 1..Len(calls) /\ Len(calls) \in Nat /\ i \in 1..Len(calls)
      /\ \A j \in DOMAIN calls : calls[j] \in Call
      /\ ~overtaken /\ "session" \notin dropped /\ ~calls[i].old
      /\ session' = calls[i].who /\ asked' = asked
  BY CallsTyped DEF Deliver
<1>2. /\ \A k, j \in DOMAIN calls :
            k < j /\ calls[k].op = "session" /\ calls[j].op = "session" /\ calls[j].old => calls[k].old
      /\ \A k \in DOMAIN calls :
            calls[k].op = "session" /\ (\A j \in DOMAIN calls : calls[j].op = "session" => j <= k) =>
            IF calls[k].old THEN session = asked ELSE calls[k].who = asked
  BY <1>1 DEF LastSessionCounts, Latest, AsksSession
<1>3. /\ \A k \in DOMAIN calls : k # i => \E j \in 1..(Len(calls) - 1) : k = Was(j, i)
      /\ \A j, k \in 1..(Len(calls) - 1) : /\ j < k <=> Was(j, i) < Was(k, i)
                                           /\ j <= k <=> Was(j, i) <= Was(k, i)
  BY Moved
<1>4. /\ \A j \in 1..(Len(calls) - 1) : j \in DOMAIN calls'
      /\ \A j \in DOMAIN calls' : calls'[j].op = "session" => j \in 1..(Len(calls) - 1)
  <2>1. /\ DOMAIN calls' = 1..Len(calls') /\ \A j \in 1..(Len(calls) - 1) : j \in DOMAIN calls'
        /\ Len(calls') = IF SignsOut(calls[i]) THEN Len(calls) ELSE Len(calls) - 1
        /\ SignsOut(calls[i]) => calls'[Len(calls)] = NewCall("refresh", "page", account, Nobody)
    BY DeliverCalls DEF Refills
  <2>2. NewCall("refresh", "page", account, Nobody).op = "refresh"
    BY DEF NewCall
  <2> HIDE DEF NewCall
  <2>3. ASSUME NEW j \in DOMAIN calls', calls'[j].op = "session"  PROVE j \in 1..(Len(calls) - 1)
    <3>1. j # Len(calls) \/ ~SignsOut(calls[i])
      BY <2>1, <2>2, <2>3
    <3>2. CASE SignsOut(calls[i])
      BY <1>1, <2>1, <3>1, <3>2
    <3>3. CASE ~SignsOut(calls[i])
      BY <2>1, <2>3, <3>3, Zenon
    <3> QED  BY <3>2, <3>3
  <2> QED  BY <2>1, <2>3
<1>5. ASSUME NEW j \in 1..(Len(calls) - 1)
      PROVE  /\ Was(j, i) \in DOMAIN calls /\ Was(j, i) # i /\ Was(j, i) \in Nat
             /\ calls'[j].op = calls[Was(j, i)].op /\ calls'[j].who = calls[Was(j, i)].who
             /\ calls'[j].op = "session" =>
                    (calls'[j].old <=> calls[Was(j, i)].old \/ Was(j, i) < i)
  <2> DEFINE c == calls[Was(j, i)]
  <2>1. /\ calls'[j] = [c EXCEPT !.old = @ \/ (Was(j, i) < i /\ c.op = "session")]
        /\ Was(j, i) \in DOMAIN calls /\ Was(j, i) # i
    BY DeliverCalls
  <2>2. c \in Call /\ Was(j, i) \in Nat
    BY <1>1, <2>1
  <2> HIDE DEF c
  <2>3. /\ calls'[j].op = c.op /\ calls'[j].who = c.who
        /\ calls'[j].old = (c.old \/ (Was(j, i) < i /\ c.op = "session"))
    BY <2>1, <2>2 DEF Call
  <2> QED  BY <2>1, <2>2, <2>3 DEF c
<1>6. ASSUME NEW k \in DOMAIN calls', NEW j \in DOMAIN calls', k < j,
             calls'[k].op = "session", calls'[j].op = "session", calls'[j].old
      PROVE  calls'[k].old
  <2>1. Was(k, i) < Was(j, i)
    BY <1>3, <1>4, <1>6
  <2>2. CASE Was(j, i) < i
    BY <1>1, <1>4, <1>5, <1>6, <2>1, <2>2
  <2>3. CASE calls[Was(j, i)].old
    BY <1>2, <1>4, <1>5, <1>6, <2>1, <2>3
  <2> QED  BY <1>4, <1>5, <1>6, <2>2, <2>3
<1>7. ASSUME NEW k \in DOMAIN calls', calls'[k].op = "session",
             \A j \in DOMAIN calls' : calls'[j].op = "session" => j <= k
      PROVE  IF calls'[k].old THEN session' = asked' ELSE calls'[k].who = asked'
  <2>1. /\ Was(k, i) \in DOMAIN calls /\ calls[Was(k, i)].op = "session"
        /\ Was(k, i) # i /\ Was(k, i) \in Nat /\ k \in 1..(Len(calls) - 1)
    BY <1>4, <1>5, <1>7
  <2>2. ASSUME NEW m \in DOMAIN calls, calls[m].op = "session", m # i
        PROVE  m <= Was(k, i)
    <3>1. PICK j \in 1..(Len(calls) - 1) : m = Was(j, i)
      BY <1>3, <2>2
    <3>2. j <= k
      BY <1>4, <1>5, <1>7, <2>2, <3>1
    <3> QED  BY <1>3, <2>1, <3>1, <3>2
  <2>3. CASE Was(k, i) < i
    <3>1. \A m \in DOMAIN calls : calls[m].op = "session" => m <= i
      BY <1>1, <2>1, <2>2, <2>3
    <3>2. calls[i].who = asked
      BY <1>1, <1>2, <3>1
    <3> QED  BY <1>1, <1>5, <1>7, <2>1, <2>3, <3>2
  <2>4. CASE i < Was(k, i)
    <3>1. \A m \in DOMAIN calls : calls[m].op = "session" => m <= Was(k, i)
      BY <1>1, <2>1, <2>2, <2>4
    <3>2. ~calls[Was(k, i)].old
      BY <1>1, <1>2, <2>1, <2>4
    <3>3. calls[Was(k, i)].who = asked
      BY <1>2, <2>1, <3>1, <3>2
    <3>4. ~calls'[k].old
      BY <1>1, <1>5, <1>7, <2>1, <2>4, <3>2
    <3> QED  BY <1>1, <1>5, <2>1, <3>3, <3>4
  <2> QED  BY <1>1, <2>1, <2>3, <2>4
<1>8. ASSUME \A k \in DOMAIN calls' : calls'[k].op # "session"
      PROVE  session' = asked'
  <2>1. ASSUME NEW m \in DOMAIN calls, calls[m].op = "session"
        PROVE  m = i
    <3> SUFFICES ASSUME m # i  PROVE FALSE
      OBVIOUS
    <3>1. PICK j \in 1..(Len(calls) - 1) : m = Was(j, i)
      BY <1>3
    <3> QED  BY <1>4, <1>5, <1>8, <2>1, <3>1
  <2>2. \A m \in DOMAIN calls : calls[m].op = "session" => m <= i
    BY <1>1, <2>1
  <2> QED  BY <1>1, <1>2, <2>2
<1> QED  BY <1>6, <1>7, <1>8

\* The last session asked for still counts, whatever happens.
LEMMA SessionStep == TypedTab /\ LastSessionCounts /\ [TabNext]_tab => LastSessionCounts'
<1> SUFFICES ASSUME TypedTab, LastSessionCounts, [TabNext]_tab  PROVE LastSessionCounts'
  OBVIOUS
<1>0. DOMAIN calls = 1..Len(calls) /\ Len(calls) \in Nat /\ \A j \in DOMAIN calls : calls[j] \in Call
  BY CallsTyped
<1>1. CASE Render
  <2>1. UNCHANGED <<session, overtaken, dropped>>
    BY <1>1 DEF Render
  <2>2. asked' = IF "session" \in Run THEN account ELSE asked
    BY <1>1 DEF Render
  <2>3. LET c == NewCall("session", "none", account, Nobody)
        IN c.op = "session" /\ c.who = account /\ c.old = FALSE
    BY DEF NewCall
  <2>4. NewCall("territory", "none", account, Nobody).op = "territory"
    BY DEF NewCall
  <2>5. /\ DOMAIN calls' = 1..Len(calls') /\ Len(calls') \in Nat
        /\ DOMAIN calls \subseteq DOMAIN calls'
        /\ \A j \in DOMAIN calls' :
              \/ j \in DOMAIN calls /\ calls'[j] = Stale[j]
              \/ /\ j \notin DOMAIN calls
                 /\ calls'[j] = NewCall("territory", "none", account, Nobody)
              \/ /\ j \notin DOMAIN calls /\ "session" \in Run /\ j = Len(calls')
                 /\ calls'[j] = NewCall("session", "none", account, Nobody)
        /\ "session" \in Run => calls'[Len(calls')] = NewCall("session", "none", account, Nobody)
    BY <1>1, RenderCalls
  <2>6. "session" \in Run => Len(calls') \in DOMAIN calls' \ DOMAIN calls
    <3>1. Len(calls') = Len(calls) + (IF "territory" \in Run THEN 1 ELSE 0)
                                   + (IF "session" \in Run THEN 1 ELSE 0)
      BY <1>1, RenderCalls
    <3> HIDE DEF Run
    <3> QED  BY <1>0, <2>5, <3>1
  <2> HIDE DEF NewCall
  <2>7. \A j \in DOMAIN calls : /\ calls'[j].op = calls[j].op /\ calls'[j].who = calls[j].who
                                /\ calls'[j].old = calls[j].old
    BY <2>5, StaleTypes
  <2>8. \A j \in DOMAIN calls' : \/ j \in DOMAIN calls
                                 \/ calls'[j].op # "session"
                                 \/ j = Len(calls') /\ calls'[j].who = asked' /\ calls'[j].old = FALSE
    BY <2>2, <2>3, <2>4, <2>5
  <2>9. asked' = asked \/ (Len(calls') \in DOMAIN calls' \ DOMAIN calls /\ calls'[Len(calls')].op = "session")
    BY <2>2, <2>3, <2>5, <2>6
  <2> QED  BY <2>1, <2>5, <2>7, <2>8, <2>9, MoreCalls
<1>2. ASSUME NEW i \in DOMAIN calls, Serve(i)  PROVE LastSessionCounts'
  <2>1. UNCHANGED <<session, asked, overtaken, dropped>>
    BY <1>2 DEF Serve, screen, history
  <2> QED  BY <1>2, <2>1, ServeCalls, SameSessions
<1>3. ASSUME NEW i \in DOMAIN calls, NEW answer \in calls[i].found, Deliver(i, answer)
      PROVE  LastSessionCounts'
  <2>1. CASE calls[i].op = "session"
    BY <1>3, <2>1, SessionCame
  <2>2. CASE calls[i].op # "session"
    <3>1. UNCHANGED <<session, asked, dropped>> /\ (overtaken => overtaken')
      BY <1>3, <2>2 DEF Deliver
    <3>2. /\ \A j \in 1..(Len(calls) - 1) :
                /\ j \in DOMAIN calls' /\ Was(j, i) \in DOMAIN calls
                /\ calls'[j] = calls[Was(j, i)]
      BY <1>3, <2>2, DeliverCalls
    <3>3. ASSUME NEW j \in DOMAIN calls', j \notin 1..(Len(calls) - 1)
          PROVE  calls'[j].op # "session"
      <4>1. /\ j \in 1..Len(calls')
            /\ Len(calls') = IF Refills(calls[i].op, answer) THEN Len(calls) ELSE Len(calls) - 1
            /\ Refills(calls[i].op, answer) =>
                  calls'[Len(calls)] = NewCall("refill", calls[i].list, account, Nobody)
        BY <1>3, <2>2, DeliverCalls DEF SignsOut
      <4> HIDE DEF Refills, NewCall
      <4>2. Refills(calls[i].op, answer) /\ j = Len(calls)
        <5>1. CASE Refills(calls[i].op, answer)
          BY <1>0, <3>3, <4>1, <5>1
        <5>2. CASE ~Refills(calls[i].op, answer)
          <6>1. Len(calls') = Len(calls) - 1
            BY <4>1, <5>2
          <6> QED  BY <3>3, <4>1, <6>1
        <5> QED  BY <5>1, <5>2
      <4>3. NewCall("refill", calls[i].list, account, Nobody).op = "refill"
        BY DEF NewCall
      <4> QED  BY <4>1, <4>2, <4>3
    <3> QED  BY <2>2, <3>1, <3>2, <3>3, FewerCalls
  <2> QED  BY <2>1, <2>2
<1>4. ASSUME NEW l \in Lists, NEW answer \in loading[l].found, Arrive(l, answer)
      PROVE  LastSessionCounts'
  BY <1>4, SameSessions DEF Arrive, history
<1>5. ASSUME NEW i \in DOMAIN calls, Drop(i)  PROVE LastSessionCounts'
  <2>1. CASE calls[i].op = "session"
    <3>1. "session" \in dropped'
      BY <1>5, <2>1 DEF Drop, Lose
    <3> QED  BY <3>1 DEF LastSessionCounts
  <2>2. CASE calls[i].op # "session"
    <3>1. UNCHANGED <<session, asked, overtaken>> /\ dropped \subseteq dropped'
      BY <1>5, <2>2 DEF Drop, Lose
    <3>2. \A j \in 1..(Len(calls) - 1) : /\ j \in DOMAIN calls' /\ Was(j, i) \in DOMAIN calls
                                         /\ calls'[j] = calls[Was(j, i)]
      BY <1>5, DropCalls
    <3>3. \A j \in DOMAIN calls' : j \in 1..(Len(calls) - 1)
      BY <1>5, DropCalls
    <3> QED  BY <2>2, <3>1, <3>2, <3>3, FewerCalls
  <2> QED  BY <2>1, <2>2
<1>6. ASSUME NEW l \in Lists, Fail(l)  PROVE LastSessionCounts'
  BY <1>6, SameSessions DEF Fail, Lose
<1>7. ASSUME NEW to \in Paths, Navigate(to)  PROVE LastSessionCounts'
  BY <1>7, SameSessions DEF Navigate, Acts, Stay
<1>8. ASSUME NEW p \in People, Login(p)  PROVE LastSessionCounts'
  BY <1>8, SameSessions DEF Login, Acts, Stay
<1>9. CASE Logout
  <2>1. /\ asked' = Nobody /\ calls' = Append(calls, Refreshed)
        /\ UNCHANGED <<session, overtaken, dropped>>
    BY <1>9 DEF Logout, Refreshed, Stay, Acts
  <2>2. /\ DOMAIN calls' = 1..Len(calls') /\ Len(calls') \in Nat /\ calls'[Len(calls')] = Refreshed
        /\ Len(calls') = Len(calls) + 1
        /\ DOMAIN calls \subseteq DOMAIN calls' /\ Len(calls') \notin DOMAIN calls
        /\ \A j \in DOMAIN calls' : j \in DOMAIN calls \/ j = Len(calls')
        /\ \A j \in DOMAIN calls : calls'[j] = calls[j]
    BY <2>1, SentCalls, RefreshedTypes
  <2>3. Refreshed.op = "session" /\ Refreshed.who = Nobody /\ Refreshed.old = FALSE
    BY RefreshedTypes
  <2>4. Len(calls') \in DOMAIN calls'
    BY <1>0, <2>2
  <2> QED  BY <2>1, <2>2, <2>3, <2>4, MoreCalls
<1>10. CASE Expire
  BY <1>10, SameSessions DEF Expire, Acts, Stay
<1>11. CASE Click
  <2>1. PICK op \in Posts, list \in Lists : calls' = Append(calls, NewCall(op, list, account, shown[list].of))
    <3>1. \E op \in Posts, list \in Lists : Post(op, list)
      <4>1. "reservations" \in Lists /\ "feed" \in Lists /\ "notifications" \in Lists
        BY DEF Lists
      <4>2. "book" \in Posts /\ "cancel" \in Posts /\ "comment" \in Posts /\ "react" \in Posts /\ "read" \in Posts
        BY DEF Posts
      <4> HIDE DEF Post
      <4> QED  BY <1>11, <4>1, <4>2 DEF Click, Book, Cancel, Comment, React, MarkRead
    <3> QED  BY <3>1 DEF Post
  <2>2. shown[list].of \in Accounts /\ account \in Accounts /\ op \in Ops /\ op # "refill" /\ op # "session"
    BY DEF TypedTab, TypedScreen, Shown, Ops, Posts
  <2>3. NewCall(op, list, account, shown[list].of) \in Call
    BY <2>2, NewCallTypes DEF TypedTab
  <2>4. NewCall(op, list, account, shown[list].of).op = op
    BY DEF NewCall
  <2> HIDE DEF NewCall
  <2>5. /\ DOMAIN calls' = 1..Len(calls') /\ Len(calls') \in Nat
        /\ calls'[Len(calls')] = NewCall(op, list, account, shown[list].of)
        /\ DOMAIN calls \subseteq DOMAIN calls'
        /\ \A j \in DOMAIN calls' : j \in DOMAIN calls \/ j = Len(calls')
        /\ \A j \in DOMAIN calls : calls'[j] = calls[j]
    BY <2>1, <2>3, SentCalls
  <2>6. UNCHANGED <<session, asked, overtaken, dropped>>
    BY <1>11 DEF Click, Acts, Stay
  <2> QED  BY <2>2, <2>4, <2>5, <2>6, MoreCalls
<1>12. CASE UNCHANGED tab
  BY <1>12, SameSessions DEF tab, screen, history
<1> QED  BY <1>1, <1>2, <1>3, <1>4, <1>5, <1>6, <1>7, <1>8, <1>9, <1>10, <1>11, <1>12
         DEF TabNext, Progress

-----------------------------------------------------------------------------
(* For whom notifications were requested.                                  *)

LEMMA NotificationsStep ==
    TypedTab /\ NotificationsRequested /\ [TabNext]_tab => NotificationsRequested'
<1> SUFFICES ASSUME TypedTab, NotificationsRequested, [TabNext]_tab, "notifications" \notin dropped'
             PROVE  IF Idle("notifications")' THEN shown'.notifications.by = rendered'.person
                    ELSE loading'.notifications.by = rendered'.person
  BY DEF NotificationsRequested
<1> DEFINE n == "notifications"
           Goal == IF Idle("notifications")' THEN shown'.notifications.by = rendered'.person
                   ELSE loading'.notifications.by = rendered'.person
<1> SUFFICES Goal
  OBVIOUS
<1>0. /\ n \in Lists /\ loading \in [Lists -> LoadOrNone] /\ shown \in [Lists -> Shown]
      /\ "reservations" \in Lists /\ "feed" \in Lists
      /\ rendered.member = (rendered.person # Nobody)
  BY DEF TypedTab, TypedScreen, TypedCalls, Lists
<1>a. dropped \subseteq dropped'
  BY DEF TabNext, Progress, Render, Serve, Deliver, Arrive, Drop, Fail, Lose, Navigate, Login,
         Logout, Expire, Click, Acts, tab, history
<1>b. IF Idle(n) THEN shown[n].by = rendered.person ELSE loading[n].by = rendered.person
  BY <1>a DEF NotificationsRequested
<1>c. ASSUME loading'[n] = loading[n], shown'[n].by = shown[n].by, rendered' = rendered
      PROVE  Goal
  BY <1>b, <1>c DEF Idle
<1>1. CASE Render
  <2>1. /\ rendered'.person = session /\ loading' = Loads
        /\ shown' = [l \in Lists |-> IF l \in Run /\ session = Nobody THEN EmptyList ELSE shown[l]]
    BY <1>1 DEF Render, Now
  <2>2. CASE n \in Run /\ session = Nobody
    BY <1>0, <2>1, <2>2 DEF Loads, Idle, NotLoading, EmptyList
  <2>3. CASE n \in Run /\ session # Nobody
    BY <1>0, <2>1, <2>3 DEF Loads, Idle, Load
  <2>4. CASE n \notin Run
    <3>1. rendered.person = session
      BY <2>4 DEF Run, Effects, Lists, Watches, Now
    <3> QED  BY <1>0, <1>b, <2>1, <2>4, <3>1 DEF Loads, Idle
  <2> QED  BY <2>2, <2>3, <2>4
<1>2. ASSUME NEW i \in DOMAIN calls, Serve(i)  PROVE Goal
  <2>1. (Idle(n)' <=> Idle(n)) /\ loading'[n].by = loading[n].by
    BY <1>0, <1>2, ServeCalls
  <2>2. UNCHANGED <<shown, rendered>>
    BY <1>2 DEF Serve, screen
  <2> QED  BY <1>b, <2>1, <2>2
<1>3. ASSUME NEW i \in DOMAIN calls, NEW answer \in calls[i].found, Deliver(i, answer)
      PROVE  Goal
  <2>1. calls[i].op = "refill" => calls[i].list # n
    BY DEF TypedTab, Proper
  <2>2. shown'[n] = shown[n] /\ UNCHANGED <<loading, rendered>>
    BY <1>0, <1>3, <2>1 DEF Deliver, Fill
  <2> QED  BY <1>c, <2>2
<1>4. ASSUME NEW l \in Lists, NEW answer \in loading[l].found, Arrive(l, answer)
      PROVE  Goal
  <2>1. CASE l = n
    <3>1. ~Idle(n) /\ loading'[n] = NotLoading /\ shown'[n].by = loading[n].by /\ rendered' = rendered
      BY <1>0, <1>4, <2>1 DEF Arrive, Fill, Idle
    <3> QED  BY <1>b, <3>1 DEF Idle, NotLoading
  <2>2. CASE l # n
    BY <1>0, <1>4, <1>c, <2>2 DEF Arrive, Fill
  <2> QED  BY <2>1, <2>2
<1>5. ASSUME NEW i \in DOMAIN calls, Drop(i)  PROVE Goal
  BY <1>5, <1>c DEF Drop, Lose
<1>6. ASSUME NEW l \in Lists, Fail(l)  PROVE Goal
  <2>1. l # n
    BY <1>6 DEF Fail, Lose
  <2> QED  BY <1>0, <1>6, <1>c, <2>1 DEF Fail, Lose
<1>7. ASSUME NEW to \in Paths, Navigate(to)  PROVE Goal
  BY <1>7, <1>c DEF Navigate, Stay
<1>8. ASSUME NEW p \in People, Login(p)  PROVE Goal
  BY <1>8, <1>c DEF Login, Stay
<1>9. CASE Logout
  BY <1>9, <1>c DEF Logout, Stay
<1>10. CASE Expire
  BY <1>10, <1>c DEF Expire, Stay
<1>11. CASE Click
  <2>1. shown'[n].by = shown[n].by
    BY <1>0, <1>11 DEF Click, Book, Cancel, Comment, React, MarkRead, Patch, Shown
  <2> QED  BY <1>11, <1>c, <2>1 DEF Click, Stay
<1>12. CASE UNCHANGED tab
  BY <1>12, <1>c DEF tab, screen
<1> HIDE DEF Goal
<1> QED  BY <1>1, <1>2, <1>3, <1>4, <1>5, <1>6, <1>7, <1>8, <1>9, <1>10, <1>11, <1>12
         DEF TabNext, Progress

Following == TypedTab /\ LastSessionCounts /\ NotificationsRequested

\* Whatever is dropped, overtaken or clicked: a tab that has come to rest shows the
\* session of the account the browser holds, unless a session was lost or answered out
\* of order, and its notifications were requested for that account, unless theirs were
\* lost (CurrentUserProvider's refreshSession, NotificationProvider's effect).
THEOREM FollowsTheAccount == TabSpec => []NotificationsFollowTheAccount
<1>1. TabInit => Following
  <2> SUFFICES ASSUME TabInit  PROVE Following
    OBVIOUS
  <2>1. TypedTab
    BY TabInitTyped
  <2>2. DOMAIN calls = 1..1 /\ calls[1].op = "session" /\ calls[1].who = asked /\ calls[1].old = FALSE
    BY DEF TabInit, NewCall
  <2>3. LastSessionCounts
    BY <2>2 DEF LastSessionCounts, Latest, AsksSession
  <2>4. NotificationsRequested
    BY DEF TabInit, NotificationsRequested, Idle, NotLoading, EmptyList, Now, Lists
  <2> QED  BY <2>1, <2>3, <2>4 DEF Following
<1>2. Following /\ [TabNext]_tab => Following'
  BY TypedStep, SessionStep, NotificationsStep DEF Following
<1>3. Following => NotificationsFollowTheAccount
  <2> SUFFICES ASSUME Following, Quiet, asked = account, ~overtaken, "session" \notin dropped
               PROVE  /\ session = account
                      /\ "notifications" \notin dropped => shown.notifications.by = account
    BY DEF NotificationsFollowTheAccount
  <2>1. session = account
    BY DEF Following, LastSessionCounts, Quiet
  <2>2. rendered.person = session /\ Idle("notifications")
    BY DEF Quiet, Now, Lists
  <2> QED  BY <2>1, <2>2 DEF Following, NotificationsRequested
<1> QED  BY <1>1, <1>2, <1>3, PTL DEF TabSpec

-----------------------------------------------------------------------------
(* Calm: nothing was lost, and the member always waited.                   *)

LEMMA RowsAgree ==
    ASSUME TypedTab
    PROVE  /\ RowsFor("reservations", account, saved) = saved.reservations \cap {account}
           /\ RowsFor("notifications", account, saved) = saved.notifications \cap {account}
           /\ RowsFor("feed", account, saved) \subseteq saved.feed
<1>1. \A l \in Lists : saved[l] \in SUBSET People
  BY DEF TypedTab, TypedScreen
<1>2. "reservations" \in Lists /\ "notifications" \in Lists /\ "feed" \in Lists
  BY DEF Lists
<1> QED  BY <1>1, <1>2 DEF RowsFor

\* How things are when the member acts.
LEMMA Quietly ==
    ASSUME TypedTab, Orderly, Quiet
    PROVE  /\ calls = <<>> /\ DOMAIN calls = {} /\ (\A l \in Lists : Idle(l)) /\ rendered = Now
           /\ rendered.path = path /\ rendered.person = session /\ rendered.ready = sessionReady
           /\ rendered.member = (session # Nobody) /\ Rendered /\ ~Asking
           /\ sessionReady /\ ready /\ session = asked /\ account \in {asked, Nobody}
           /\ Kept => /\ Owned("reservations") /\ Owned("feed") /\ shown.notifications.of = session
                      /\ Stored("reservations") /\ Stored("notifications")
                      /\ shown.feed.marks \subseteq saved.feed
<1>1. calls = <<>> /\ DOMAIN calls = {} /\ (\A l \in Lists : Idle(l)) /\ rendered = Now
  BY DEF Quiet
<1>2. /\ rendered.path = path /\ rendered.person = session /\ rendered.ready = sessionReady
      /\ rendered.member = (session # Nobody)
  BY <1>1 DEF Now
<1>3. ~Asking /\ Rendered
  BY <1>1 DEF Asking, Rendered
<1>4. "reservations" \in Lists /\ "notifications" \in Lists /\ "feed" \in Lists
  BY DEF Lists
<1>5. sessionReady /\ ready /\ session = asked /\ account \in {asked, Nobody}
  BY <1>1, <1>2, <1>3, <1>4 DEF Orderly, CalmSession
<1>6. ASSUME Kept
      PROVE  /\ Owned("reservations") /\ Owned("feed") /\ shown.notifications.of = session
             /\ BookingsAgree /\ NotificationsAgree /\ FeedAgrees
  BY <1>1, <1>2, <1>4, <1>6 DEF Orderly, CalmLists
<1>7. /\ BookingsAgree => Stored("reservations")
      /\ NotificationsAgree => Stored("notifications")
      /\ FeedAgrees => shown.feed.marks \subseteq saved.feed
  BY <1>1 DEF BookingsAgree, NotificationsAgree, FeedAgrees
<1> QED  BY <1>1, <1>2, <1>3, <1>5, <1>6, <1>7

\* A member who moves, signs in or has no token any more touches no list and sends
\* no call.
LEMMA StillCalm ==
    ASSUME TypedTab, Orderly, Quiet,
           UNCHANGED <<shown, calls, asked, saved, session, sessionReady, territory,
                       ready, rendered, loading>>,
           path' # rendered.path \/ account' \in {session, Nobody},
           session = account' \/ Nobody \in {session, account'} \/ displaced',
           Kept' => Kept, session # Nobody /\ displaced => displaced'
    PROVE  Orderly'
<1>1. /\ calls = <<>> /\ DOMAIN calls = {} /\ (\A l \in Lists : Idle(l)) /\ rendered = Now
      /\ rendered.path = path /\ Rendered /\ ~Asking
      /\ sessionReady /\ ready /\ session = asked
  BY Quietly
<1>2. Rendered'
  <2>1. /\ Now.ready = sessionReady /\ Now.person = session /\ Now.territory = territory
        /\ Now.member = (session # Nobody)
    BY DEF Now
  <2>2. /\ Now'.ready = sessionReady' /\ Now'.person = session' /\ Now'.territory = territory'
        /\ Now'.member = (session' # Nobody)
    BY DEF Now
  <2> HIDE DEF Now
  <2> QED  BY <1>1, <2>1, <2>2 DEF Rendered
<1>3. DOMAIN calls' = {} /\ (\A l \in Lists : Idle(l)') /\ calls' = <<>>
  BY <1>1 DEF Idle
<1>4. CalmCalls'
  BY <1>2, <1>3 DEF CalmCalls, Settled
<1>5. CalmSession'
  BY <1>1, <1>2 DEF CalmSession
<1>6. CalmLists'
  <2>1. /\ Owned("reservations") => Owned("reservations")'
        /\ Owned("feed") => Owned("feed")'
    BY DEF Owned
  <2>2. BookingsAgree => BookingsAgree'
    BY <1>1 DEF BookingsAgree, Stored
  <2>3. NotificationsAgree => NotificationsAgree'
    BY <1>1, <1>3 DEF NotificationsAgree, Unread, Stored
  <2>4. FeedAgrees => FeedAgrees'
    BY <1>1 DEF FeedAgrees
  <2> QED  BY <2>1, <2>2, <2>3, <2>4 DEF Orderly, CalmLists, Idle
<1> QED  BY <1>4, <1>5, <1>6 DEF Orderly

LEMMA NavigateCalm ==
    ASSUME TypedTab, Orderly, Quiet, NEW to \in Paths, Navigate(to)
    PROVE  Orderly'
<1>1. UNCHANGED <<account, displaced, shown, calls, asked, saved, session, sessionReady, territory,
                  ready, rendered, loading>>
  BY DEF Navigate, Stay
<1>2. rendered.path = path /\ ~Asking /\ session = asked /\ account \in {asked, Nobody}
  BY Quietly
<1>3. Kept' => Kept
  BY <1>1, <1>2 DEF Kept
<1> QED  BY <1>1, <1>2, <1>3, StillCalm

\* Signing in is only possible where every list was kept.
LEMMA LoginCalm ==
    ASSUME TypedTab, Orderly, Quiet, NEW p \in People, Login(p)
    PROVE  Orderly'
<1>1. /\ path = "login" /\ rendered.path = "login" /\ path' = "home" /\ account' = p
      /\ displaced' = (session # Nobody /\ (displaced \/ session # p))
      /\ UNCHANGED <<shown, calls, asked, saved, session, sessionReady, territory,
                     ready, rendered, loading>>
  BY DEF Login, Stay
<1>2. Kept
  BY <1>1, Quietly DEF Kept
<1>3. displaced \in BOOLEAN
  BY DEF TypedTab, TypedCalls
<1>4. path' # rendered.path
  BY <1>1
<1>5. session = account' \/ Nobody \in {session, account'} \/ displaced'
  BY <1>1
<1>6. session # Nobody /\ displaced => displaced'
  BY <1>1, <1>3
<1> QED  BY <1>1, <1>2, <1>4, <1>5, <1>6, StillCalm

LEMMA ExpireCalm == ASSUME TypedTab, Orderly, Quiet, Expire  PROVE Orderly'
<1>1. /\ account # Nobody /\ account' = Nobody
      /\ UNCHANGED <<path, displaced, shown, calls, asked, saved, session, sessionReady, territory,
                     ready, rendered, loading>>
  BY DEF Expire, Stay
<1>2. Kept' => Kept
  BY <1>1 DEF Kept
<1> QED  BY <1>1, <1>2, StillCalm

LEMMA LogoutCalm == ASSUME TypedTab, Orderly, Quiet, Logout  PROVE Orderly'
<1>0. /\ session # Nobody /\ account' = Nobody /\ asked' = Nobody /\ calls' = Append(calls, Refreshed)
      /\ UNCHANGED <<path, shown, saved, session, sessionReady, territory, ready, rendered, loading>>
  BY DEF Logout, Stay, Refreshed
<1>1. /\ DOMAIN calls = {} /\ (\A l \in Lists : Idle(l)) /\ rendered = Now /\ calls = <<>>
      /\ rendered.path = path /\ rendered.person = session /\ Rendered
      /\ sessionReady /\ ready
  BY Quietly
<1>2. Refreshed.op = "session" /\ Refreshed.who = Nobody /\ Refreshed \in Call
  BY RefreshedTypes
<1>3. DOMAIN calls' = {1} /\ calls'[1] = Refreshed /\ Len(calls') = 1
  BY <1>0, <1>1
<1>4. (\A l \in Lists : Idle(l)') /\ path' = rendered'.path /\ rendered' = Now' /\ Rendered'
  BY <1>0, <1>1 DEF Idle, Now, Rendered
<1>5. Asking'
  BY <1>2, <1>3 DEF Asking, AsksSession
<1>6. CalmCalls'
  <2>1. AloneOnItsWay(calls[1])'
    BY <1>0, <1>1, <1>2, <1>3, <1>4 DEF AloneOnItsWay, Posts
  <2> QED  BY <1>2, <1>3, <1>4, <2>1 DEF CalmCalls
<1>7. CalmSession'
  BY <1>0, <1>1, <1>4, <1>5 DEF CalmSession
<1>8. CalmLists'
  BY <1>0, <1>5 DEF CalmLists, Kept
<1> QED  BY <1>6, <1>7, <1>8 DEF Orderly

\* One post is on its way, about a list that may have been patched.
LEMMA ClickCalm == ASSUME TypedTab, Orderly, Quiet, Click  PROVE Orderly'
<1>0. /\ path # "login"
      /\ UNCHANGED <<account, path, displaced, asked, saved, session, sessionReady, territory, ready,
                     rendered, loading>>
  BY DEF Click, Stay
<1>1. /\ DOMAIN calls = {} /\ (\A l \in Lists : Idle(l)) /\ rendered = Now /\ calls = <<>>
      /\ rendered.path = path /\ rendered.person = session /\ rendered.ready = sessionReady
      /\ sessionReady /\ ready /\ session = asked /\ account \in {asked, Nobody}
      /\ Rendered /\ ~Asking
  BY Quietly
<1>2. Kept => /\ Owned("reservations") /\ Owned("feed") /\ shown.notifications.of = session
              /\ Stored("reservations") /\ Stored("notifications")
              /\ shown.feed.marks \subseteq saved.feed
  BY Quietly
<1>3. /\ "reservations" \in Lists /\ "notifications" \in Lists /\ "feed" \in Lists
      /\ \A l \in Lists : shown[l] \in Shown
      /\ shown \in [Lists -> Shown]
  BY DEF Lists, TypedTab, TypedScreen
<1>s. session # Nobody
  <2>1. session = Nobody => Kept /\ shown.notifications.of = Nobody
    BY <1>2 DEF Kept
  <2> QED  BY <2>1 DEF Click, Book, Cancel, Comment, React, MarkRead
<1>4. PICK op \in Posts, list \in Lists :
          /\ Post(op, list)
          /\ \/ shown' = shown /\ op \notin {"read", "react"}
             \/ /\ op = "react" /\ list = "feed"
                /\ \E marks : Patch("feed", marks) /\ marks \subseteq shown.feed.marks \cup {session}
             \/ /\ op = "read" /\ list = "notifications" /\ shown.notifications.of # Nobody
                /\ Patch("notifications", {shown.notifications.of})
  <2>1. "book" \in Posts /\ "cancel" \in Posts /\ "comment" \in Posts /\ "react" \in Posts /\ "read" \in Posts
    BY DEF Posts
  <2> HIDE DEF Post, Patch
  <2>2. CASE Book
    BY <1>3, <2>1, <2>2 DEF Book
  <2>3. CASE Cancel
    BY <1>3, <2>1, <2>3 DEF Cancel
  <2>4. CASE Comment
    BY <1>3, <2>1, <2>4 DEF Comment
  <2>5. CASE React
    <3>1. PICK marks : /\ marks = IF session \in shown.feed.marks THEN shown.feed.marks \ {session}
                                  ELSE shown.feed.marks \cup {session}
                       /\ Patch("feed", marks)
      BY <2>5 DEF React
    <3>2. marks \subseteq shown.feed.marks \cup {session}
      BY <3>1
    <3>3. Post("react", "feed")
      BY <2>5 DEF React
    <3> QED  BY <1>3, <2>1, <3>1, <3>2, <3>3
  <2>6. CASE MarkRead
    BY <1>3, <2>1, <2>6 DEF MarkRead
  <2> QED  BY <2>2, <2>3, <2>4, <2>5, <2>6 DEF Click
<1> DEFINE c == NewCall(op, list, account, shown[list].of)
<1>5. c.op = op /\ c.list = list /\ c.who = account /\ c.owner = shown[list].of /\ c.found = {}
  BY DEF NewCall
<1>6. calls' = Append(calls, c)
  BY <1>4 DEF Post
<1> HIDE DEF c
<1>7. DOMAIN calls' = {1} /\ calls'[1] = c /\ Len(calls') = 1
  BY <1>1, <1>6
<1>8. op \in {"book", "cancel", "comment", "react", "read"}
  BY DEF Posts
<1>9. /\ \A l \in Lists : shown'[l].of = shown[l].of
      /\ shown'.reservations.marks = shown.reservations.marks
      /\ op # "read" => shown'.notifications.marks = shown.notifications.marks
      /\ op = "read" => /\ shown'.notifications.marks = {shown.notifications.of}
                        /\ list = "notifications" /\ shown.notifications.of # Nobody
      /\ \A m \in shown'.feed.marks : m \in shown.feed.marks \/ (m = session /\ op = "react")
  <2>1. CASE shown' = shown /\ op \notin {"read", "react"}
    BY <2>1
  <2>2. ASSUME NEW marks, op = "react", Patch("feed", marks),
               marks \subseteq shown.feed.marks \cup {session}
        PROVE  <1>9!1 /\ <1>9!2 /\ <1>9!3 /\ <1>9!4 /\ <1>9!5
    BY <1>3, <2>2 DEF Patch, Shown
  <2>3. CASE op = "read" /\ list = "notifications" /\ shown.notifications.of # Nobody
             /\ Patch("notifications", {shown.notifications.of})
    BY <1>3, <2>3 DEF Patch, Shown
  <2> QED  BY <1>4, <2>1, <2>2, <2>3
<1>10. CalmCalls'
  <2>1. (\A l \in Lists : Idle(l)') /\ path' = rendered'.path /\ rendered' = Now'
    BY <1>0, <1>1 DEF Idle, Now
  <2>2. AloneOnItsWay(calls[1])'
    BY <1>0, <1>s, <1>5, <1>7, <1>8, <2>1 DEF AloneOnItsWay
  <2> QED  BY <1>5, <1>7, <1>8, <2>1, <2>2 DEF CalmCalls
<1>11. ~Asking'
  BY <1>5, <1>7, <1>8 DEF Asking, AsksSession
<1>12. CalmSession'
  <2>1. Rendered'
    BY <1>0, <1>1 DEF Rendered, Now
  <2> QED  BY <1>0, <1>1, <1>11, <2>1 DEF Orderly, CalmSession, Idle
<1>13. CalmLists'
  <2> SUFFICES ASSUME Kept'
               PROVE  /\ Owned("reservations")' /\ BookingsAgree' /\ Owned("feed")' /\ FeedAgrees'
                      /\ shown'.notifications.of = session' /\ NotificationsAgree'
    BY DEF CalmLists
  <2>0. Kept /\ account = session
    BY <1>0, <1>1, <1>s DEF Kept
  <2>1. Owned("reservations")' /\ Owned("feed")' /\ shown'.notifications.of = session'
    BY <1>0, <1>2, <1>3, <1>9, <2>0 DEF Owned
  <2>2. BookingsAgree'
    BY <1>0, <1>2, <1>3, <1>9, <2>0 DEF BookingsAgree, Stored
  <2>3. NotificationsAgree'
    <3>1. CASE op = "read"
      BY <1>0, <1>2, <1>3, <1>5, <1>7, <1>9, <2>0, <3>1 DEF NotificationsAgree, Unread
    <3>2. CASE op # "read"
      BY <1>0, <1>2, <1>3, <1>5, <1>7, <1>9, <2>0, <3>2 DEF NotificationsAgree, Unread, Stored
    <3> QED  BY <3>1, <3>2
  <2>4. FeedAgrees'
    BY <1>0, <1>2, <1>5, <1>7, <1>9, <2>0 DEF FeedAgrees
  <2> QED  BY <2>1, <2>2, <2>3, <2>4
<1> QED  BY <1>10, <1>12, <1>13 DEF Orderly

\* What is so while a call other than a territory is on its way.
LEMMA Alone ==
    ASSUME TypedTab, Orderly, NEW i \in DOMAIN calls, calls[i].op # "territory"
    PROVE  /\ i = 1 /\ DOMAIN calls = {1} /\ Len(calls) = 1 /\ AloneOnItsWay(calls[1])
           /\ (\A l \in Lists : Idle(l)) /\ rendered = Now /\ rendered.path = path /\ Rendered
           /\ rendered.person = session /\ rendered.member = (session # Nobody)
           /\ calls[1].who = account
<1>1. AloneOnItsWay(calls[i])
  BY DEF Orderly, CalmCalls
<1>2. Len(calls) = 1 /\ DOMAIN calls = 1..Len(calls)
  BY <1>1, CallsTyped DEF AloneOnItsWay
<1>3. DOMAIN calls = {1} /\ i = 1
  BY <1>2
<1>4. /\ rendered.path = path /\ rendered.person = session /\ rendered.member = (session # Nobody)
      /\ Rendered
  BY <1>1 DEF AloneOnItsWay, Now, Rendered
<1> QED  BY <1>1, <1>2, <1>3, <1>4 DEF AloneOnItsWay

\* Where lists are kept, posts and refills are those of the account on the screen.
LEMMA Posting ==
    ASSUME TypedTab, Orderly, NEW i \in DOMAIN calls, calls[i].op \in Posts \cup {"refill"}
    PROVE  /\ ~Asking /\ path # "login" /\ session # Nobody
           /\ Kept => account = session
<1>1. calls[i].op \notin {"session", "territory"}
  BY DEF Posts
<1>2. /\ i = 1 /\ DOMAIN calls = {1} /\ AloneOnItsWay(calls[1]) /\ rendered.path = path
  BY <1>1, Alone
<1>3. path # "login" /\ session # Nobody
  BY <1>2 DEF AloneOnItsWay
<1>4. ~Asking
  BY <1>1, <1>2 DEF Asking, AsksSession
<1>5. session = asked /\ account \in {asked, Nobody}
  BY <1>2, <1>4 DEF Orderly, CalmSession
<1> QED  BY <1>3, <1>4, <1>5 DEF Kept

LEMMA ServeCalm ==
    ASSUME TypedTab, TypedTab', Orderly, NEW i \in DOMAIN calls, Serve(i)
    PROVE  Orderly'
<1> DEFINE c == calls[1]
<1>1. calls[i].op \in Posts /\ calls[i].found = {} /\ calls[i].op # "territory"
  BY DEF Serve, Posts
<1>2. /\ i = 1 /\ DOMAIN calls = {1} /\ Len(calls) = 1 /\ (\A l \in Lists : Idle(l))
      /\ rendered = Now /\ rendered.path = path /\ rendered.person = session
      /\ rendered.member = (session # Nobody) /\ c.who = account /\ Rendered
  BY <1>1, Alone
<1>3. /\ saved' = IF Allowed(c) THEN [saved EXCEPT ![c.list] = Applied(c)] ELSE saved
      /\ UNCHANGED <<account, path, session, sessionReady, territory, shown, ready, rendered,
                     asked, displaced>>
  BY <1>2 DEF Serve, screen, history
<1>4. /\ DOMAIN calls' = {1} /\ Len(calls') = 1 /\ (\A l \in Lists : Idle(l)')
      /\ calls'[1].op = c.op /\ calls'[1].list = c.list /\ calls'[1].who = c.who
      /\ calls'[1].owner = c.owner /\ calls'[1].live = c.live
      /\ calls'[1].found = {IF Allowed(c) THEN {c.who} ELSE {}}
  BY <1>2, ServeCalls
<1>5. /\ c.op \in {"book", "cancel", "comment", "react", "read"} /\ c.found = {} /\ Proper(c)
      /\ c.list \in Lists /\ saved \in [Lists -> SUBSET People]
  <2>1. c.op \in {"book", "cancel", "comment", "react", "read"} /\ c.found = {} /\ Proper(c)
    BY <1>1, <1>2 DEF Posts, TypedTab
  <2> QED  BY <2>1 DEF Proper, Lists, TypedTab, TypedScreen
<1>6. ~Asking /\ path # "login" /\ session # Nobody /\ (Kept => account = session)
  BY <1>1, Posting
<1> HIDE DEF c
<1>7. ~Asking'
  BY <1>4, <1>5 DEF Asking, AsksSession
<1>8. rendered' = Now' /\ path' = rendered'.path /\ Rendered'
  BY <1>2, <1>3 DEF Now, Rendered
<1>9. CalmCalls'
  <2>1. AloneOnItsWay(calls[1])'
    BY <1>2, <1>3, <1>4, <1>5, <1>6, <1>8 DEF AloneOnItsWay, Allowed, Posts
  <2> QED  BY <1>4, <1>5, <1>8, <2>1 DEF CalmCalls
<1>10. CalmSession'
  <2>1. "reservations" \in Lists
    BY DEF Lists
  <2> QED  BY <1>2, <1>3, <1>4, <1>6, <1>7, <1>8, <2>1 DEF Orderly, CalmSession
<1>11. CalmLists'
  <2> SUFFICES ASSUME Kept'
               PROVE  /\ Owned("reservations")' /\ BookingsAgree' /\ Owned("feed")' /\ FeedAgrees'
                      /\ shown'.notifications.of = session' /\ NotificationsAgree'
    BY DEF CalmLists
  <2>0. /\ "reservations" \in Lists /\ "notifications" \in Lists /\ "feed" \in Lists
        /\ \A l \in Lists : l # c.list => saved'[l] = saved[l]
    BY <1>3, <1>5 DEF Lists
  <2>k. Kept /\ account = session /\ account # Nobody
    BY <1>3, <1>6, <1>7 DEF Kept
  <2>1. /\ Owned("reservations") /\ Owned("feed") /\ shown.notifications.of = session
        /\ BookingsAgree /\ NotificationsAgree /\ FeedAgrees
    BY <1>2, <2>0, <2>k DEF Orderly, CalmLists
  <2>2. BookingsAgree'
    <3>1. Stored("reservations")
      BY <1>2, <1>5, <2>1 DEF BookingsAgree, c
    <3>2. CASE c.list = "reservations" /\ Allowed(c)
      <4>1. c.op \in {"book", "cancel"} /\ calls'[1].found = {{account'}}
        BY <1>2, <1>3, <1>4, <1>5, <3>2 DEF Proper
      <4> QED  BY <1>4, <3>2, <4>1 DEF BookingsAgree
    <3>3. CASE ~(c.list = "reservations" /\ Allowed(c))
      <4>1. saved'.reservations = saved.reservations
        BY <1>3, <2>0, <3>3
      <4> QED  BY <1>3, <3>1, <4>1 DEF BookingsAgree, Stored
    <3> QED  BY <3>2, <3>3
  <2>3. NotificationsAgree'
    <3>1. ~Unread(calls[1])'
      BY <1>4 DEF Unread
    <3>2. shown.notifications.marks = saved'.notifications \cap {account}
      <4>1. CASE c.op = "read"
        <5>1. /\ c.owner = account /\ account # Nobody /\ shown.notifications.marks = {account}
              /\ c.list = "notifications"
          BY <1>2, <1>5, <2>1, <4>1 DEF NotificationsAgree, Unread, Proper, c
        <5>2. Allowed(c) /\ Applied(c) = saved.notifications \cup {account}
          BY <1>2, <4>1, <5>1 DEF Allowed, Applied
        <5>3. saved'.notifications = saved.notifications \cup {account}
          BY <1>3, <1>5, <2>0, <5>1, <5>2
        <5> QED  BY <5>1, <5>3
      <4>2. CASE c.op # "read"
        <5>1. c.list # "notifications"
          BY <1>5, <4>2 DEF Proper
        <5>2. saved'.notifications = saved.notifications
          BY <2>0, <5>1
        <5>3. Stored("notifications")
          BY <1>2, <2>1, <4>2 DEF NotificationsAgree, Unread, c
        <5> QED  BY <2>k, <2>1, <5>2, <5>3 DEF Stored
      <4> QED  BY <4>1, <4>2
    <3>3. Stored("notifications")'
      BY <1>3, <2>k, <2>1, <3>2 DEF Stored
    <3> QED  BY <1>4, <3>1, <3>3 DEF NotificationsAgree
  <2>4. FeedAgrees'
    <3> SUFFICES ASSUME NEW m \in shown.feed.marks  PROVE m \in saved'.feed
      BY <1>3 DEF FeedAgrees
    <3>1. shown.feed.marks \in SUBSET People
      BY <2>0 DEF TypedTab, TypedScreen, Shown
    <3>2. m \in saved.feed \/ (m = account /\ c.op = "react")
      BY <1>2, <2>1 DEF FeedAgrees, c
    <3>3. CASE c.list = "feed" /\ Allowed(c)
      <4>1. saved'.feed = Applied(c)
        BY <1>3, <1>5, <2>0, <3>3
      <4>2. c.op \in {"comment", "react"}
        BY <1>5, <3>3 DEF Proper
      <4> QED  BY <1>2, <3>2, <3>3, <4>1, <4>2 DEF Applied
    <3>4. CASE ~(c.list = "feed" /\ Allowed(c))
      <4>1. saved'.feed = saved.feed
        BY <1>3, <2>0, <3>4
      <4>2. c.op = "react" => account = Nobody
        BY <1>2, <1>5, <3>4 DEF Allowed, Proper
      <4> QED  BY <3>1, <3>2, <4>1, <4>2
    <3> QED  BY <3>3, <3>4
  <2>5. Owned("reservations")' /\ Owned("feed")' /\ shown'.notifications.of = session'
    BY <1>3, <2>1 DEF Owned
  <2> QED  BY <2>2, <2>3, <2>4, <2>5
<1> QED  BY <1>9, <1>10, <1>11 DEF Orderly

\* Answers about territories touch neither the lists nor what is loading.
LEMMA TerritoryCalm ==
    ASSUME TypedTab, Orderly, NEW i \in DOMAIN calls, calls[i].op = "territory",
           NEW answer, Deliver(i, answer)
    PROVE  Orderly'
<1>0. UNCHANGED <<saved, account, path, session, sessionReady, shown, ready, rendered, loading,
                  asked, displaced>>
  BY DEF Deliver, TypedTab, TypedScreen
<1>1. \A j \in DOMAIN calls : calls[j].op = "territory"
  <2> SUFFICES ASSUME NEW j \in DOMAIN calls, calls[j].op # "territory"  PROVE FALSE
    OBVIOUS
  <2>1. j = 1 /\ DOMAIN calls = {1}
    BY Alone
  <2> QED  BY <2>1
<1>2. \A j \in DOMAIN calls' : calls'[j].op = "territory"
  <2> SUFFICES ASSUME NEW j \in DOMAIN calls'  PROVE calls'[j].op = "territory"
    OBVIOUS
  <2>1. j \in 1..(Len(calls) - 1)
    BY DeliverCalls DEF Refills, SignsOut
  <2>2. Was(j, i) \in DOMAIN calls /\ calls'[j] = calls[Was(j, i)]
    BY <2>1, DeliverCalls
  <2> QED  BY <1>1, <2>2
<1>3. path = rendered.path /\ session = account
  BY DEF Orderly, CalmCalls, Settled
<1>4. CalmCalls'
  BY <1>0, <1>2, <1>3 DEF Orderly, CalmCalls, Idle
<1>5. ~Asking /\ ~Asking'
  BY <1>1, <1>2 DEF Asking, AsksSession
<1>6. CalmSession'
  BY <1>0, <1>3, <1>5 DEF Orderly, CalmSession, Idle
<1>7. CalmLists'
  <2>1. BookingsAgree => BookingsAgree'
    BY <1>0, <1>1 DEF BookingsAgree, Stored
  <2>2. NotificationsAgree => NotificationsAgree'
    BY <1>0, <1>1, <1>2 DEF NotificationsAgree, Unread, Stored
  <2>3. FeedAgrees => FeedAgrees'
    BY <1>0, <1>1 DEF FeedAgrees
  <2>4. /\ Owned("reservations") => Owned("reservations")'
        /\ Owned("feed") => Owned("feed")'
        /\ Kept' => Kept
    BY <1>0, <1>5 DEF Owned, Kept
  <2>5. \A l \in Lists : Idle(l)' <=> Idle(l)
    BY <1>0 DEF Idle
  <2>6. "reservations" \in Lists /\ "notifications" \in Lists /\ "feed" \in Lists
    BY DEF Lists
  <2> SUFFICES ASSUME Kept'
               PROVE  /\ rendered.member = (session # Nobody) =>
                            /\ Idle("reservations") => Owned("reservations")' /\ BookingsAgree'
                            /\ Idle("feed") => Owned("feed")' /\ FeedAgrees'
                      /\ rendered.person = session /\ Idle("notifications") =>
                            shown.notifications.of = session /\ NotificationsAgree'
    BY <1>0, <2>5, <2>6 DEF CalmLists
  <2>7. Kept
    BY <2>4
  <2>8. /\ rendered.member = (session # Nobody) =>
               /\ Idle("reservations") => Owned("reservations") /\ BookingsAgree
               /\ Idle("feed") => Owned("feed") /\ FeedAgrees
        /\ rendered.person = session /\ Idle("notifications") =>
               shown.notifications.of = session /\ NotificationsAgree
    BY <2>7 DEF Orderly, CalmLists
  <2> QED  BY <2>1, <2>2, <2>3, <2>4, <2>8
<1> QED  BY <1>4, <1>6, <1>7 DEF Orderly

\* The session that comes is that of the account; the lists that do not follow the
\* person stay, and another one's are told apart by displaced.
LEMMA SessionCalm ==
    ASSUME TypedTab, Orderly, NEW i \in DOMAIN calls, calls[i].op = "session",
           NEW answer, Deliver(i, answer)
    PROVE  Orderly' \/ Gone'
<1>1. /\ i = 1 /\ DOMAIN calls = {1} /\ Len(calls) = 1 /\ AloneOnItsWay(calls[1])
      /\ (\A l \in Lists : Idle(l)) /\ rendered = Now /\ rendered.path = path /\ Rendered
      /\ rendered.person = session /\ rendered.member = (session # Nobody)
      /\ calls[1].who = account
  BY Alone
<1>2. account = asked /\ (calls[1].live \/ sessionReady) /\ Proper(calls[1])
  BY <1>1 DEF AloneOnItsWay, TypedTab
<1>3. /\ session' = account /\ sessionReady' = TRUE
      /\ UNCHANGED <<saved, account, path, shown, ready, rendered, loading, asked, displaced>>
  BY <1>1, <1>2 DEF Deliver, TypedTab, TypedScreen
<1>4. /\ "reservations" \in Lists /\ "notifications" \in Lists /\ "feed" \in Lists
      /\ \A l \in Lists : saved[l] \in SUBSET People
  BY DEF Lists, TypedTab, TypedScreen
<1>5. \A l \in Lists : Idle(l)'
  BY <1>1, <1>3 DEF Idle
<1>6. /\ BookingsAgree => Stored("reservations")
      /\ NotificationsAgree => Stored("notifications")
      /\ FeedAgrees => shown.feed.marks \subseteq saved.feed
  BY <1>1 DEF BookingsAgree, NotificationsAgree, FeedAgrees, Unread
<1>7. Kept => /\ Owned("reservations") /\ Owned("feed") /\ shown.notifications.of = session
              /\ Stored("reservations") /\ Stored("notifications")
              /\ shown.feed.marks \subseteq saved.feed
  BY <1>1, <1>4, <1>6 DEF Orderly, CalmLists
<1>8. CASE SignsOut(calls[1])
  <2>1. account = Nobody
    BY <1>1, <1>2, <1>8 DEF SignsOut, Proper
  <2>2. DOMAIN calls' = {1} /\ calls'[1].op = "refresh"
    <3>1. /\ DOMAIN calls' = 1..Len(calls') /\ Len(calls') = 1
          /\ calls'[1] = NewCall("refresh", "page", account, Nobody)
      BY <1>1, <1>8, DeliverCalls
    <3> QED  BY <3>1 DEF NewCall
  <2>3. ASSUME rendered.person = Nobody
        PROVE  /\ \A l \in Lists : shown[l].of = Nobody
               /\ shown.reservations.marks = {} /\ shown.notifications.marks = {}
               /\ shown.feed.marks \subseteq saved.feed
    <3>1. session = Nobody
      BY <1>1, <2>3
    <3>2. /\ shown.reservations.of = Nobody /\ shown.feed.of = Nobody
          /\ shown.notifications.of = Nobody
          /\ Stored("reservations") /\ Stored("notifications")
          /\ shown.feed.marks \subseteq saved.feed
      BY <1>7, <3>1 DEF Kept, Owned
    <3>3. \A l \in Lists : saved[l] \cap {Nobody} = {}
      BY <1>4
    <3> QED  BY <1>4, <3>2, <3>3 DEF Stored, Lists
  <2>4. rendered.ready => ready
    BY <1>1, <1>4 DEF Orderly, CalmSession
  <2>5. Gone'
    BY <1>2, <1>3, <1>5, <2>1, <2>2, <2>3, <2>4 DEF Gone
  <2> QED  BY <2>5
<1>9. CASE ~SignsOut(calls[1])
  <2>1. DOMAIN calls' = {}
    <3>1. DOMAIN calls' = 1..Len(calls') /\ Len(calls') = Len(calls) - 1
      BY <1>1, <1>9, DeliverCalls DEF Refills
    <3> QED  BY <1>1, <3>1
  <2>2. CalmCalls'
    BY <1>1, <1>3, <1>5, <2>1 DEF CalmCalls
  <2>3. CalmSession'
    BY <1>1, <1>2, <1>3, <1>4 DEF Orderly, CalmSession
  <2>4. session = account \/ Nobody \in {session, account} \/ displaced
    BY DEF Orderly, CalmSession
  <2>5. ASSUME rendered.member = (account # Nobody)
        PROVE  Owned("reservations")' /\ Owned("feed")' /\ BookingsAgree' /\ FeedAgrees'
    <3>1. (session = Nobody <=> account = Nobody) /\ Kept
      BY <1>1, <2>5 DEF Kept
    <3>2. Owned("reservations")' /\ Owned("feed")'
      BY <1>3, <1>7, <2>4, <3>1 DEF Owned
    <3> QED  BY <1>3, <1>7, <3>1, <3>2 DEF BookingsAgree, FeedAgrees, Stored
  <2>6. ASSUME rendered.person = account
        PROVE  shown'.notifications.of = session' /\ NotificationsAgree'
    <3>1. session = account /\ Kept
      BY <1>1, <2>6 DEF Kept
    <3> QED  BY <1>3, <1>7, <2>1, <3>1 DEF NotificationsAgree, Stored
  <2>7. CalmLists'
    BY <1>3, <2>5, <2>6 DEF CalmLists
  <2> QED  BY <2>2, <2>3, <2>7 DEF Orderly
<1> QED  BY <1>8, <1>9


\* A list is refilled with the rows there are.
LEMMA RefillCalm ==
    ASSUME TypedTab, Orderly, NEW i \in DOMAIN calls, calls[i].op = "refill",
           NEW answer \in calls[i].found, Deliver(i, answer)
    PROVE  Orderly'
<1>1. /\ i = 1 /\ DOMAIN calls = {1} /\ Len(calls) = 1 /\ AloneOnItsWay(calls[1])
      /\ (\A l \in Lists : Idle(l)) /\ rendered = Now /\ rendered.path = path /\ Rendered
      /\ rendered.person = session /\ rendered.member = (session # Nobody)
      /\ calls[1].who = account
  BY Alone
<1>2. /\ calls[1].list \in {"reservations", "feed"} /\ shown \in [Lists -> Shown]
      /\ "reservations" \in Lists /\ "notifications" \in Lists /\ "feed" \in Lists
  BY <1>1 DEF TypedTab, TypedScreen, Proper, Lists
<1>p. ~Asking /\ path # "login" /\ session # Nobody /\ (Kept => account = session)
  BY Posting
<1> DEFINE list == calls[1].list
<1>3. answer = RowsFor(list, account, saved)
  BY <1>1 DEF AloneOnItsWay
<1> HIDE DEF list
<1>4. /\ shown' = [shown EXCEPT ![list] = [by |-> calls[1].by, of |-> account, marks |-> answer]]
      /\ ready' = (ready \/ list = "reservations")
      /\ UNCHANGED <<saved, account, path, session, sessionReady, territory, rendered, loading,
                     asked, displaced>>
  BY <1>1 DEF Deliver, Fill, list, TypedTab, TypedScreen
<1>5. DOMAIN calls' = {}
  <2>1. DOMAIN calls' = 1..Len(calls') /\ Len(calls') = Len(calls) - 1
    BY DeliverCalls DEF Refills, SignsOut
  <2> QED  BY <1>1, <2>1
<1>6. ~Asking'
  BY <1>5 DEF Asking
<1>7. CalmCalls'
  BY <1>1, <1>4, <1>5 DEF CalmCalls, Idle
<1>8. CalmSession'
  <2>1. Rendered'
    BY <1>1, <1>4 DEF Rendered, Now
  <2>2. \A l \in Lists : Idle(l)'
    BY <1>1, <1>4 DEF Idle
  <2> QED  BY <1>1, <1>2, <1>4, <1>6, <1>p, <2>1, <2>2 DEF Orderly, CalmSession
<1>9. CalmLists'
  <2> SUFFICES ASSUME Kept'
               PROVE  /\ Owned("reservations")' /\ BookingsAgree' /\ Owned("feed")' /\ FeedAgrees'
                      /\ shown'.notifications.of = session' /\ NotificationsAgree'
    BY DEF CalmLists
  <2>k. Kept /\ account = session
    BY <1>4, <1>p DEF Kept
  <2>1. /\ Owned("reservations") /\ Owned("feed") /\ shown.notifications.of = session
        /\ BookingsAgree /\ NotificationsAgree /\ FeedAgrees
    BY <1>1, <1>2, <2>k DEF Orderly, CalmLists
  <2>2. /\ list \in {"reservations", "feed"} /\ calls[1].list = list
        /\ \A l \in Lists : l # list => shown'[l] = shown[l]
        /\ shown'[list].of = account /\ shown'[list].marks = answer
    BY <1>2, <1>4 DEF list
  <2>3. Owned("reservations")' /\ Owned("feed")' /\ shown'.notifications.of = session'
    BY <1>2, <1>4, <2>k, <2>1, <2>2 DEF Owned
  <2>4. Stored("reservations")'
    <3>1. CASE list = "reservations"
      BY <1>3, <1>4, <2>2, <3>1, RowsAgree DEF Stored
    <3>2. CASE list = "feed"
      BY <1>1, <1>2, <1>4, <2>1, <2>2, <3>2 DEF BookingsAgree, Stored
    <3> QED  BY <2>2, <3>1, <3>2
  <2>5. Stored("notifications")'
    <3>1. Stored("notifications")
      BY <1>1, <2>1 DEF NotificationsAgree, Unread
    <3> QED  BY <1>2, <1>4, <2>2, <3>1 DEF Stored
  <2>6. shown'.feed.marks \subseteq saved.feed
    <3>1. CASE list = "feed"
      BY <1>3, <2>2, <3>1, RowsAgree
    <3>2. CASE list = "reservations"
      BY <1>1, <1>2, <2>1, <2>2, <3>2 DEF FeedAgrees
    <3> QED  BY <2>2, <3>1, <3>2
  <2> QED  BY <1>4, <1>5, <2>3, <2>4, <2>5, <2>6
           DEF BookingsAgree, NotificationsAgree, FeedAgrees
<1> QED  BY <1>7, <1>8, <1>9 DEF Orderly

\* A post that was accepted asks for a refill, unless its list was patched.
LEMMA PostCalm ==
    ASSUME TypedTab, Orderly, NEW i \in DOMAIN calls, calls[i].op \in Posts,
           NEW answer \in calls[i].found, Deliver(i, answer)
    PROVE  Orderly'
<1>0. calls[i].op \in {"book", "cancel", "comment", "react", "read"}
  BY DEF Posts
<1>1. /\ i = 1 /\ DOMAIN calls = {1} /\ Len(calls) = 1 /\ AloneOnItsWay(calls[1])
      /\ (\A l \in Lists : Idle(l)) /\ rendered = Now /\ rendered.path = path /\ Rendered
      /\ rendered.person = session /\ rendered.member = (session # Nobody)
      /\ calls[1].who = account
  BY <1>0, Alone
<1>p. ~Asking /\ path # "login" /\ session # Nobody /\ (Kept => account = session)
  BY Posting
<1>l. "reservations" \in Lists /\ "notifications" \in Lists /\ "feed" \in Lists
  BY DEF Lists
<1> DEFINE c == calls[1]
           refills == Refills(c.op, answer)
<1>2. /\ c.op \in {"book", "cancel", "comment", "react", "read"} /\ Proper(c)
      /\ c.found # {} /\ answer \in c.found /\ c.who = account
      /\ c.found = {{}} \/ c.found = {{account}}
  BY <1>0, <1>1 DEF AloneOnItsWay, TypedTab, Posts
<1>3. UNCHANGED <<saved, account, path, session, sessionReady, shown, ready, rendered,
                  loading, asked, territory, displaced>>
  BY <1>0, <1>1 DEF Deliver, TypedTab, TypedScreen
<1>4. /\ DOMAIN calls' = IF refills THEN {1} ELSE {}
      /\ refills => /\ Len(calls') = 1 /\ calls'[1].op = "refill" /\ calls'[1].list = c.list
                    /\ calls'[1].who = account
                    /\ calls'[1].found = {RowsFor(c.list, account, saved)}
  <2>0. ~SignsOut(calls[i])
    BY <1>0 DEF SignsOut
  <2>1. /\ DOMAIN calls' = 1..Len(calls')
        /\ Len(calls') = IF refills THEN Len(calls) ELSE Len(calls) - 1
        /\ refills => calls'[Len(calls)] = NewCall("refill", c.list, account, Nobody)
    BY <1>1, <2>0, DeliverCalls
  <2>2. LET d == NewCall("refill", c.list, account, Nobody)
        IN d.op = "refill" /\ d.list = c.list /\ d.who = account
           /\ d.found = {RowsFor(c.list, account, saved)}
    BY DEF NewCall, Posts
  <2> HIDE DEF refills, c, NewCall
  <2>3. CASE refills
    <3>1. Len(calls') = 1 /\ DOMAIN calls' = {1}
      BY <1>1, <2>1, <2>3
    <3> QED  BY <1>1, <2>1, <2>2, <2>3, <3>1
  <2>4. CASE ~refills
    <3>1. DOMAIN calls' = {}
      BY <1>1, <2>1, <2>4
    <3> QED  BY <2>4, <3>1
  <2> QED  BY <2>3, <2>4
<1>5. /\ c.list = "reservations" /\ ~refills => c.op \in {"book", "cancel"} /\ c.found = {{}}
      /\ refills => c.list \in {"reservations", "feed"}
  BY <1>2 DEF Refills, Proper
<1> HIDE DEF refills, c
<1>6. ~Asking'
  BY <1>4 DEF Asking, AsksSession
<1>7. (\A l \in Lists : Idle(l)') /\ rendered' = Now' /\ path' = rendered'.path /\ Rendered'
  BY <1>1, <1>3 DEF Idle, Now, Rendered
<1>8. CalmCalls'
  <2>1. refills => AloneOnItsWay(calls[1])'
    BY <1>3, <1>4, <1>7, <1>p DEF AloneOnItsWay, Posts
  <2> QED  BY <1>4, <1>7, <2>1 DEF CalmCalls
<1>9. CalmSession'
  BY <1>1, <1>3, <1>6, <1>7, <1>l, <1>p DEF Orderly, CalmSession
<1>10. CalmLists'
  <2> SUFFICES ASSUME Kept'
               PROVE  /\ Owned("reservations")' /\ BookingsAgree' /\ Owned("feed")' /\ FeedAgrees'
                      /\ shown'.notifications.of = session' /\ NotificationsAgree'
    BY DEF CalmLists
  <2>k. Kept /\ account # Nobody
    BY <1>3, <1>p DEF Kept
  <2>0. {{account}} # {{}}
    OBVIOUS
  <2>1. /\ Owned("reservations") /\ Owned("feed") /\ shown.notifications.of = session
        /\ BookingsAgree /\ NotificationsAgree /\ FeedAgrees
    BY <1>1, <1>l, <2>k DEF Orderly, CalmLists
  <2>2. BookingsAgree'
    <3>1. CASE refills /\ c.list = "reservations"
      BY <1>4, <3>1 DEF BookingsAgree
    <3>2. CASE ~(refills /\ c.list = "reservations")
      <4>1. Stored("reservations")
        <5>1. c.list = "reservations" => c.found # {{account}}
          BY <1>5, <2>0, <3>2
        <5> QED  BY <1>1, <1>2, <2>1, <5>1 DEF BookingsAgree, c
      <4> QED  BY <1>3, <4>1 DEF BookingsAgree, Stored
    <3> QED  BY <3>1, <3>2
  <2>3. NotificationsAgree'
    <3>1. ~Unread(calls[1])
      BY <1>2 DEF Unread, c
    <3>2. \A j \in DOMAIN calls' : ~Unread(calls[j])'
      BY <1>4 DEF Unread
    <3>3. Stored("notifications")
      BY <1>1, <2>1, <3>1 DEF NotificationsAgree
    <3> QED  BY <1>3, <3>2, <3>3 DEF NotificationsAgree, Stored
  <2>4. FeedAgrees'
    BY <1>1, <1>2, <1>3, <2>1 DEF FeedAgrees, c
  <2>5. Owned("reservations")' /\ Owned("feed")' /\ shown'.notifications.of = session'
    BY <1>3, <2>1 DEF Owned
  <2> QED  BY <2>2, <2>3, <2>4, <2>5
<1> QED  BY <1>8, <1>9, <1>10 DEF Orderly

LEMMA DeliverCalm ==
    ASSUME TypedTab, Orderly, NEW i \in DOMAIN calls, NEW answer \in calls[i].found,
           Deliver(i, answer)
    PROVE  Orderly' \/ Gone'
<1>1. calls[i].op \in Posts \cup {"session", "territory", "refill", "refresh"}
  BY CallsTyped DEF Call, Ops
<1>2. calls[i].op # "refresh"
  BY DEF Orderly, CalmCalls, AloneOnItsWay
<1> QED  BY <1>1, <1>2, TerritoryCalm, SessionCalm, RefillCalm, PostCalm

\* A load brings the rows there are.
LEMMA ArriveCalm ==
    ASSUME TypedTab, Orderly, NEW list \in Lists, NEW answer \in loading[list].found,
           Arrive(list, answer)
    PROVE  Orderly'
<1>0. /\ "reservations" \in Lists /\ "notifications" \in Lists /\ "feed" \in Lists
      /\ shown \in [Lists -> Shown] /\ loading \in [Lists -> LoadOrNone]
  BY DEF Lists, TypedTab, TypedScreen, TypedCalls
<1>1. ~Idle(list)
  BY DEF Idle
<1>2. /\ loading[list].who = account /\ answer = RowsFor(list, account, saved)
      /\ session = account
  BY <1>1 DEF Orderly, CalmCalls
<1>3. \A j \in DOMAIN calls : calls[j].op = "territory"
  BY <1>1, Alone
<1>4. /\ shown' = [shown EXCEPT ![list] = [by |-> loading[list].by, of |-> account, marks |-> answer]]
      /\ ready' = (ready \/ list = "reservations")
      /\ loading' = [loading EXCEPT ![list] = NotLoading]
      /\ UNCHANGED <<saved, account, path, session, sessionReady, territory, rendered, calls, asked,
                     displaced>>
  BY <1>2 DEF Arrive, Fill, history
<1>5. /\ \A l \in Lists : l # list => /\ (Idle(l)' <=> Idle(l)) /\ shown'[l] = shown[l]
                                      /\ loading'[l] = loading[l]
      /\ Idle(list)' /\ shown'[list].of = account /\ shown'[list].marks = answer
  BY <1>0, <1>4 DEF Idle, NotLoading
<1>6. path = rendered.path
  BY <1>1 DEF Orderly, CalmCalls, Settled
<1>7. CalmCalls'
  BY <1>2, <1>3, <1>4, <1>5, <1>6 DEF Orderly, CalmCalls
<1>8. ~Asking /\ ~Asking'
  BY <1>3, <1>4 DEF Asking, AsksSession
<1>9. CalmSession'
  <2>1. rendered.ready /\ Idle("reservations")' => ready'
    BY <1>0, <1>4, <1>5 DEF Orderly, CalmSession
  <2> QED  BY <1>2, <1>4, <1>8, <2>1 DEF Orderly, CalmSession
<1>10. CalmLists'
  <2> SUFFICES ASSUME rendered.member = (session # Nobody)
               PROVE  /\ Idle("reservations")' => Owned("reservations")' /\ BookingsAgree'
                      /\ Idle("feed")' => Owned("feed")' /\ FeedAgrees'
                      /\ rendered.person = session /\ Idle("notifications")' =>
                            shown'.notifications.of = session' /\ NotificationsAgree'
    BY <1>4, <1>6 DEF CalmLists, TypedTab, TypedScreen
  <2>k. Kept
    BY <1>2 DEF Kept
  <2>1. /\ Idle("reservations") => Owned("reservations") /\ BookingsAgree
        /\ Idle("feed") => Owned("feed") /\ FeedAgrees
        /\ rendered.person = session /\ Idle("notifications") =>
              shown.notifications.of = session /\ NotificationsAgree
    BY <2>k DEF Orderly, CalmLists
  <2>2. ASSUME Idle("reservations")'  PROVE Owned("reservations")' /\ BookingsAgree'
    <3>1. CASE list = "reservations"
      BY <1>2, <1>4, <1>5, <3>1, RowsAgree DEF BookingsAgree, Stored, Owned
    <3>2. CASE list # "reservations"
      <4>1. Owned("reservations") /\ BookingsAgree /\ shown'.reservations = shown.reservations
        BY <1>0, <1>5, <2>1, <2>2, <3>2
      <4> QED  BY <1>3, <1>4, <4>1 DEF BookingsAgree, Stored, Owned
    <3> QED  BY <3>1, <3>2
  <2>3. ASSUME rendered.person = session, Idle("notifications")'
        PROVE  shown'.notifications.of = session' /\ NotificationsAgree'
    <3>1. CASE list = "notifications"
      BY <1>2, <1>3, <1>4, <1>5, <3>1, RowsAgree DEF NotificationsAgree, Unread, Stored
    <3>2. CASE list # "notifications"
      <4>1. /\ shown.notifications.of = session /\ NotificationsAgree
            /\ shown'.notifications = shown.notifications
        BY <1>0, <1>5, <2>1, <2>3, <3>2
      <4> QED  BY <1>3, <1>4, <4>1 DEF NotificationsAgree, Unread, Stored
    <3> QED  BY <3>1, <3>2
  <2>4. ASSUME Idle("feed")'  PROVE Owned("feed")' /\ FeedAgrees'
    <3>1. CASE list = "feed"
      BY <1>2, <1>4, <1>5, <3>1, RowsAgree DEF FeedAgrees, Owned
    <3>2. CASE list # "feed"
      <4>1. Owned("feed") /\ FeedAgrees /\ shown'.feed = shown.feed
        BY <1>0, <1>5, <2>1, <2>4, <3>2
      <4> QED  BY <1>3, <1>4, <4>1 DEF FeedAgrees, Owned
    <3> QED  BY <3>1, <3>2
  <2> QED  BY <2>2, <2>3, <2>4
<1> QED  BY <1>7, <1>9, <1>10 DEF Orderly

\* A page that was changed asks for the session, and for nothing else.
LEMMA RenderPage ==
    ASSUME TypedTab, Orderly, Render, path # rendered.path
    PROVE  Orderly'
<1>1. Settled
  BY DEF Orderly, CalmCalls
<1>2. /\ calls = <<>> /\ (\A l \in Lists : Idle(l)) /\ DOMAIN calls = {} /\ Len(calls) = 0
      /\ rendered.ready = Now.ready /\ rendered.person = Now.person
      /\ rendered.member = Now.member /\ rendered.territory = Now.territory
  BY <1>1, CallsTyped DEF Settled, Rendered
<1>3. /\ Now.path = path /\ Now.person = session /\ Now.ready = sessionReady
      /\ Now.member = (session # Nobody)
  BY DEF Now
<1>4. /\ "session" \in Run /\ "territory" \notin Run
      /\ \A l \in Lists : l \notin Run
  BY <1>2, <1>3 DEF Run, Watches, Effects, Lists
<1>5. /\ UNCHANGED <<saved, account, path, session, sessionReady, territory, displaced>>
      /\ rendered' = Now /\ rendered' = Now' /\ asked' = account /\ ready' = ready
  BY <1>4 DEF Render, ReadyAfter, Now, Lists
<1>6. \A l \in Lists : loading'[l] = loading[l] /\ shown'[l] = shown[l] /\ Idle(l)'
  BY <1>2, <1>4 DEF Render, Loads, Idle
<1>7. /\ Len(calls') = 1 /\ DOMAIN calls' = {1} /\ calls'[1].op = "session"
      /\ calls'[1].who = account /\ calls'[1].live = TRUE
  <2> DEFINE c == NewCall("session", "none", account, Nobody)
             t == IF "territory" \in Run THEN 1 ELSE 0
             s == IF "session" \in Run THEN 1 ELSE 0
  <2>1. /\ DOMAIN calls' = 1..Len(calls') /\ Len(calls') = Len(calls) + t + s
        /\ "session" \in Run => calls'[Len(calls')] = c
    BY RenderCalls
  <2>2. t = 0 /\ s = 1
    BY <1>4
  <2>3. c.op = "session" /\ c.who = account /\ c.live = TRUE
    BY DEF NewCall
  <2> HIDE DEF c, t, s
  <2>4. Len(calls') = 1
    BY <1>2, <2>1, <2>2
  <2>5. DOMAIN calls' = {1}
    <3>1. DOMAIN calls' = 1..1
      BY <2>1, <2>4, Zenon
    <3> QED  BY <3>1
  <2>6. calls'[Len(calls')] = c
    BY <1>4, <2>1
  <2>7. calls'[1] = c
    BY <2>4, <2>6
  <2> QED  BY <2>3, <2>4, <2>5, <2>7
<1>8. ~Asking /\ sessionReady /\ Rendered'
  BY <1>2, <1>5 DEF Orderly, CalmSession, Asking, Rendered
<1>9. "reservations" \in Lists /\ "notifications" \in Lists /\ "feed" \in Lists
  BY DEF Lists
<1>10. CalmCalls'
  <2>1. AloneOnItsWay(calls[1])'
    BY <1>3, <1>5, <1>6, <1>7 DEF AloneOnItsWay, Posts
  <2> QED  BY <1>3, <1>5, <1>6, <1>7, <2>1 DEF CalmCalls
<1>11. Asking'
  BY <1>7 DEF Asking, AsksSession
<1>12. CalmSession'
  <2>1. rendered'.ready = rendered.ready
    BY <1>2, <1>3, <1>5
  <2> QED  BY <1>2, <1>5, <1>8, <1>9, <1>11, <2>1 DEF Orderly, CalmSession
<1>13. CalmLists'
  <2> SUFFICES ASSUME Kept'
               PROVE  /\ Owned("reservations")' /\ BookingsAgree' /\ Owned("feed")' /\ FeedAgrees'
                      /\ shown'.notifications.of = session' /\ NotificationsAgree'
    BY DEF CalmLists
  <2>1. Kept
    BY <1>5, <1>11 DEF Kept
  <2>2. /\ Owned("reservations") /\ Owned("feed") /\ shown.notifications.of = session
        /\ BookingsAgree /\ NotificationsAgree /\ FeedAgrees
    BY <1>2, <1>3, <1>9, <2>1 DEF Orderly, CalmLists
  <2>3. BookingsAgree'
    BY <1>2, <1>5, <1>6, <1>9, <2>2 DEF BookingsAgree, Stored
  <2>4. NotificationsAgree'
    BY <1>2, <1>5, <1>6, <1>7, <1>9, <2>2 DEF NotificationsAgree, Unread, Stored
  <2>5. FeedAgrees'
    BY <1>2, <1>5, <1>6, <1>9, <2>2 DEF FeedAgrees
  <2>6. Owned("reservations")' /\ Owned("feed")' /\ shown'.notifications.of = session'
    BY <1>5, <1>6, <1>9, <2>2 DEF Owned
  <2> QED  BY <2>3, <2>4, <2>5, <2>6
<1> QED  BY <1>10, <1>12, <1>13 DEF Orderly

\* What a rendering does to the lists: those that follow the membership stay while
\* there is a member, whoever that is.
LEMMA RenderedLists ==
    ASSUME TypedTab, Render, sessionReady
    PROVE  /\ \A l \in Lists :
                 \/ l \in Run /\ session = Nobody /\ loading'[l] = NotLoading /\ Idle(l)'
                    /\ shown'[l] = EmptyList
                 \/ l \in Run /\ session # Nobody /\ loading'[l] = Load(l) /\ ~Idle(l)'
                    /\ shown'[l] = shown[l]
                 \/ l \notin Run /\ rendered.member = (session # Nobody)
                    /\ (l = "notifications" => rendered.person = session)
                    /\ loading'[l] = loading[l] /\ (Idle(l)' <=> Idle(l)) /\ shown'[l] = shown[l]
           /\ "reservations" \in Run \/ (rendered.ready /\ ready' = ready)
           /\ "reservations" \in Run => ready' = (session = Nobody)
<1>1. Now.person = session /\ Now.ready = sessionReady /\ Now.member = (session # Nobody)
  BY DEF Now
<1>2. ASSUME NEW l \in Lists, l \notin Run
      PROVE  /\ rendered.member = (session # Nobody)
             /\ l = "notifications" => rendered.person = session
  <2>1. "member" \in Watches(l) /\ (l = "notifications" => "person" \in Watches(l))
    BY DEF Watches, Lists
  <2> QED  BY <1>1, <1>2, <2>1 DEF Run, Effects
<1>3. \A l \in Lists : loading'[l] = Loads[l] /\ shown'[l] = IF l \in Run /\ session = Nobody
                                                           THEN EmptyList ELSE shown[l]
  BY DEF Render
<1>4. \A l \in Lists : NotLoading.found = {} /\ Load(l).found # {}
  BY DEF NotLoading, Load
<1>5. ASSUME NEW l \in Lists
      PROVE  \/ l \in Run /\ session = Nobody /\ loading'[l] = NotLoading /\ Idle(l)'
                /\ shown'[l] = EmptyList
             \/ l \in Run /\ session # Nobody /\ loading'[l] = Load(l) /\ ~Idle(l)'
                /\ shown'[l] = shown[l]
             \/ l \notin Run /\ rendered.member = (session # Nobody)
                /\ (l = "notifications" => rendered.person = session)
                /\ loading'[l] = loading[l] /\ (Idle(l)' <=> Idle(l)) /\ shown'[l] = shown[l]
  <2>1. CASE l \in Run /\ session = Nobody
    BY <1>3, <1>4, <2>1 DEF Loads, Idle
  <2>2. CASE l \in Run /\ session # Nobody
    BY <1>3, <1>4, <2>2 DEF Loads, Idle
  <2>3. CASE l \notin Run
    <3>1. /\ rendered.member = (session # Nobody)
          /\ l = "notifications" => rendered.person = session
      BY <1>2, <2>3
    <3>2. loading'[l] = loading[l] /\ (Idle(l)' <=> Idle(l)) /\ shown'[l] = shown[l]
      BY <1>3, <2>3 DEF Loads, Idle
    <3> QED  BY <2>3, <3>1, <3>2
  <2> QED  BY <2>1, <2>2, <2>3
<1>6. "reservations" \in Run \/ (rendered.ready /\ ready' = ready)
  <2>1. ASSUME "reservations" \notin Run  PROVE rendered.ready = Now.ready
    BY <2>1 DEF Run, Watches, Effects, Lists
  <2> QED  BY <1>1, <2>1 DEF Render, ReadyAfter, TypedTab, TypedScreen
<1>7. "reservations" \in Run => ready' = (session = Nobody)
  BY DEF Render, ReadyAfter
<1> QED  BY <1>5, <1>6, <1>7

\* A session or a territory that has come has the lists loaded again.
LEMMA RenderSession ==
    ASSUME TypedTab, Orderly, Render, path = rendered.path
    PROVE  Orderly'
<1>1. \A i \in DOMAIN calls : calls[i].op = "territory"
  <2> SUFFICES ASSUME NEW i \in DOMAIN calls, calls[i].op # "territory"  PROVE FALSE
    OBVIOUS
  <2>1. rendered = Now
    BY Alone
  <2> QED  BY <2>1 DEF Render
<1>2. ~Asking /\ sessionReady
  BY <1>1 DEF Orderly, CalmSession, Asking, AsksSession
<1>3. "session" \notin Run
  BY DEF Run, Watches, Now
<1>4. \A i \in DOMAIN calls' : calls'[i].op = "territory"
  <2> SUFFICES ASSUME NEW i \in DOMAIN calls'  PROVE calls'[i].op = "territory"
    OBVIOUS
  <2>1. CASE i \in DOMAIN calls /\ calls'[i] = Stale[i]
    BY <1>1, <2>1, CallsTyped DEF Stale, Call
  <2>2. CASE calls'[i] = NewCall("territory", "none", account, Nobody)
    BY <2>2 DEF NewCall
  <2> QED  BY <1>3, <2>1, <2>2, RenderCalls
<1>5. /\ UNCHANGED <<saved, account, path, session, sessionReady, asked, displaced>>
      /\ rendered' = Now /\ rendered'.path = path /\ rendered'.person = session
      /\ rendered'.member = (session # Nobody)
  BY <1>3 DEF Render, Now
<1>6. session = account
  <2>1. Rendered => rendered = Now
    <3>1. /\ rendered = [path |-> rendered.path, ready |-> rendered.ready, person |-> rendered.person,
                         member |-> rendered.member, territory |-> rendered.territory]
      BY DEF TypedTab, TypedScreen, Dependencies
    <3>2. Rendered => /\ rendered.ready = Now.ready /\ rendered.person = Now.person
                      /\ rendered.member = Now.member /\ rendered.territory = Now.territory
      BY DEF Rendered
    <3>3. /\ Now = [path |-> Now.path, ready |-> Now.ready, person |-> Now.person,
                    member |-> Now.member, territory |-> Now.territory]
          /\ Now.path = rendered.path
      BY DEF Now
    <3> QED  BY <3>1, <3>2, <3>3
  <2> QED  BY <2>1 DEF Orderly, CalmSession, Render
<1>7. "reservations" \in Lists /\ "notifications" \in Lists /\ "feed" \in Lists
  BY DEF Lists
<1>8. /\ \A l \in Lists :
            \/ l \in Run /\ session = Nobody /\ loading'[l] = NotLoading /\ Idle(l)'
               /\ shown'[l] = EmptyList
            \/ l \in Run /\ session # Nobody /\ loading'[l] = Load(l) /\ ~Idle(l)'
               /\ shown'[l] = shown[l]
            \/ l \notin Run /\ rendered.member = (session # Nobody)
               /\ (l = "notifications" => rendered.person = session)
               /\ loading'[l] = loading[l] /\ (Idle(l)' <=> Idle(l)) /\ shown'[l] = shown[l]
      /\ "reservations" \in Run \/ (rendered.ready /\ ready' = ready)
      /\ "reservations" \in Run => ready' = (session = Nobody)
  <2> HIDE DEF Run, Load, Idle
  <2> QED  BY <1>2, RenderedLists
<1>9. CalmCalls'
  <2>1. ASSUME NEW l \in Lists, ~Idle(l)'
        PROVE  loading'[l].who = account /\ loading'[l].found = {RowsFor(l, account, saved)}
    <3>1. CASE loading'[l] = Load(l)
      BY <3>1 DEF Load
    <3>2. CASE loading'[l] = loading[l] /\ (Idle(l)' <=> Idle(l))
      BY <2>1, <3>2 DEF Orderly, CalmCalls
    <3> QED  BY <1>8, <2>1, <3>1, <3>2
  <2> QED  BY <1>4, <1>5, <1>6, <2>1 DEF CalmCalls
<1>10. CalmSession'
  <2>1. ~Asking'
    BY <1>4 DEF Asking, AsksSession
  <2>2. ASSUME Idle("reservations")'  PROVE ready'
    <3>1. CASE "reservations" \in Run
      <4>1. session = Nobody
        BY <1>7, <1>8, <2>2, <3>1
      <4> QED  BY <1>8, <3>1, <4>1
    <3>2. CASE "reservations" \notin Run
      <4>1. Idle("reservations") /\ rendered.ready /\ ready' = ready
        BY <1>7, <1>8, <2>2, <3>2
      <4> QED  BY <4>1 DEF Orderly, CalmSession
    <3> QED  BY <3>1, <3>2
  <2> QED  BY <1>2, <1>5, <1>6, <2>1, <2>2 DEF Orderly, CalmSession
<1>11. CalmLists'
  <2> SUFFICES /\ Idle("reservations")' => Owned("reservations")' /\ BookingsAgree'
               /\ Idle("feed")' => Owned("feed")' /\ FeedAgrees'
               /\ Idle("notifications")' => shown'.notifications.of = session' /\ NotificationsAgree'
    BY DEF CalmLists
  <2>0. \A l \in Lists : session = Nobody => saved[l] \cap {Nobody} = {}
    BY DEF TypedTab, TypedScreen
  <2>1. \A l \in Lists : Idle(l)' =>
            \/ shown'[l] = EmptyList /\ session = Nobody
            \/ /\ rendered.member = (session # Nobody) /\ Idle(l) /\ shown'[l] = shown[l]
               /\ l = "notifications" => rendered.person = session
    BY <1>8
  <2>2. EmptyList.of = Nobody /\ EmptyList.marks = {}
    BY DEF EmptyList
  <2>3. Kept
    BY <1>6 DEF Kept
  <2>4. /\ rendered.member = (session # Nobody) =>
              /\ Idle("reservations") => Owned("reservations") /\ BookingsAgree
              /\ Idle("feed") => Owned("feed") /\ FeedAgrees
        /\ rendered.person = session /\ Idle("notifications") =>
              shown.notifications.of = session /\ NotificationsAgree
    BY <2>3 DEF Orderly, CalmLists
  <2>5. ASSUME Idle("reservations")'  PROVE Owned("reservations")' /\ BookingsAgree'
    <3>1. CASE shown'.reservations = EmptyList /\ session = Nobody
      BY <1>5, <1>7, <2>0, <2>2, <3>1 DEF Owned, BookingsAgree, Stored
    <3>2. CASE /\ rendered.member = (session # Nobody) /\ Idle("reservations")
               /\ shown'.reservations = shown.reservations
      <4>1. Owned("reservations") /\ Stored("reservations")
        BY <1>1, <2>4, <3>2 DEF BookingsAgree
      <4> QED  BY <1>5, <3>2, <4>1 DEF Owned, BookingsAgree, Stored
    <3> QED  BY <1>7, <2>1, <2>5, <3>1, <3>2
  <2>6. ASSUME Idle("notifications")'
        PROVE  shown'.notifications.of = session' /\ NotificationsAgree'
    <3>1. CASE shown'.notifications = EmptyList /\ session = Nobody
      BY <1>4, <1>5, <1>7, <2>0, <2>2, <3>1 DEF NotificationsAgree, Unread, Stored
    <3>2. CASE /\ rendered.person = session /\ Idle("notifications")
               /\ shown'.notifications = shown.notifications
      <4>1. shown.notifications.of = session /\ Stored("notifications")
        BY <1>1, <2>4, <3>2 DEF NotificationsAgree, Unread
      <4> QED  BY <1>4, <1>5, <3>2, <4>1 DEF NotificationsAgree, Unread, Stored
    <3> QED  BY <1>7, <2>1, <2>6, <3>1, <3>2
  <2>7. ASSUME Idle("feed")'  PROVE Owned("feed")' /\ FeedAgrees'
    <3>1. CASE shown'.feed = EmptyList /\ session = Nobody
      BY <1>5, <2>2, <3>1 DEF Owned, FeedAgrees
    <3>2. CASE /\ rendered.member = (session # Nobody) /\ Idle("feed")
               /\ shown'.feed = shown.feed
      <4>1. Owned("feed") /\ shown.feed.marks \subseteq saved.feed
        BY <1>1, <2>4, <3>2 DEF FeedAgrees
      <4> QED  BY <1>5, <3>2, <4>1 DEF Owned, FeedAgrees
    <3> QED  BY <1>7, <2>1, <2>7, <3>1, <3>2
  <2> QED  BY <2>5, <2>6, <2>7
<1> QED  BY <1>9, <1>10, <1>11 DEF Orderly

LEMMA CalmInit == ASSUME TabInit  PROVE Orderly
<1>1. /\ DOMAIN calls = {1} /\ Len(calls) = 1 /\ calls[1].op = "session"
      /\ calls[1].who = account /\ calls[1].live = TRUE
  <2> DEFINE c == NewCall("session", "none", account, Nobody)
  <2>1. calls = <<c>>
    BY DEF TabInit
  <2>2. c.op = "session" /\ c.who = account /\ c.live = TRUE
    BY DEF NewCall
  <2> HIDE DEF c
  <2>3. Len(calls) = 1 /\ DOMAIN calls = {1} /\ calls[1] = c
    BY <2>1
  <2> QED  BY <2>2, <2>3
<1>2. /\ rendered = Now /\ rendered.path = path /\ rendered.person = Nobody /\ Rendered
      /\ rendered.ready = FALSE /\ asked = account /\ session = Nobody
      /\ \A l \in Lists : Idle(l)
  BY DEF TabInit, Now, Idle, NotLoading, Rendered
<1>3. CalmCalls
  BY <1>1, <1>2 DEF CalmCalls, AloneOnItsWay, Posts
<1>4. CalmSession
  <2>1. Asking
    BY <1>1 DEF Asking, AsksSession
  <2> QED  BY <1>2, <2>1 DEF CalmSession
<1>5. CalmLists
  <2>1. \A l \in Lists : shown[l].of = Nobody /\ shown[l].marks = {} /\ saved[l] \cap {Nobody} = {}
    BY DEF TabInit, EmptyList
  <2>2. "reservations" \in Lists /\ "notifications" \in Lists /\ "feed" \in Lists
    BY DEF Lists
  <2>3. /\ Owned("reservations") /\ Owned("feed") /\ shown.notifications.of = session
        /\ Stored("reservations") /\ Stored("notifications") /\ shown.feed.marks = {}
    BY <1>2, <2>1, <2>2 DEF Owned, Stored
  <2>4. BookingsAgree /\ FeedAgrees
    BY <2>3 DEF BookingsAgree, FeedAgrees
  <2>5. NotificationsAgree
    BY <1>1, <2>3 DEF NotificationsAgree, Unread
  <2> QED  BY <2>3, <2>4, <2>5 DEF CalmLists
<1> QED  BY <1>3, <1>4, <1>5 DEF Orderly

\* What follows a signing out ends as a guest's screen.
LEMMA GoneQuiet == ASSUME TypedTab, Gone, Quiet  PROVE Orderly
<1>1. /\ DOMAIN calls = {} /\ (\A l \in Lists : Idle(l)) /\ rendered = Now
      /\ rendered.path = path /\ rendered.person = Nobody /\ Rendered
      /\ rendered.ready = sessionReady /\ session = Nobody /\ account = Nobody /\ asked = Nobody
      /\ sessionReady
  BY DEF Gone, Quiet, Now, Rendered
<1>2. /\ ready /\ \A l \in Lists : shown[l].of = Nobody
      /\ shown.reservations.marks = {} /\ shown.notifications.marks = {}
      /\ shown.feed.marks \subseteq saved.feed
  BY <1>1 DEF Gone
<1>3. /\ "reservations" \in Lists /\ "notifications" \in Lists /\ "feed" \in Lists
      /\ \A l \in Lists : saved[l] \cap {Nobody} = {}
  BY DEF Lists, TypedTab, TypedScreen
<1>4. CalmCalls
  BY <1>1 DEF CalmCalls
<1>5. CalmSession
  BY <1>1, <1>2 DEF CalmSession
<1>6. CalmLists
  BY <1>1, <1>2, <1>3 DEF CalmLists, Owned, BookingsAgree, NotificationsAgree, FeedAgrees, Unread, Stored
<1> QED  BY <1>4, <1>5, <1>6 DEF Orderly

LEMMA GoneDeliver ==
    ASSUME TypedTab, Gone, NEW i \in DOMAIN calls, NEW answer, Deliver(i, answer)
    PROVE  Gone'
<1>1. /\ account = Nobody /\ session = Nobody /\ asked = Nobody /\ sessionReady
      /\ (\A l \in Lists : Idle(l))
      /\ \A j \in DOMAIN calls : /\ calls[j].op \in {"session", "territory", "refresh"}
                                 /\ calls[j].op = "session" => calls[j].who = Nobody
  BY DEF Gone
<1>2. /\ calls[i].op \in {"session", "territory", "refresh"}
      /\ calls[i].op = "session" => calls[i].who = Nobody
  BY <1>1
<1>3. /\ session' = Nobody /\ sessionReady' = TRUE
      /\ UNCHANGED <<saved, account, shown, ready, rendered, loading, asked>>
  BY <1>1, <1>2 DEF Deliver
<1>4. \A l \in Lists : Idle(l)'
  BY <1>1, <1>3 DEF Idle
<1>5. ASSUME NEW j \in DOMAIN calls'
      PROVE  /\ calls'[j].op \in {"session", "territory", "refresh"}
             /\ calls'[j].op = "session" => calls'[j].who = Nobody
  <2>1. /\ j \in 1..Len(calls') /\ Len(calls) \in Nat
        /\ Len(calls') = IF SignsOut(calls[i]) THEN Len(calls) ELSE Len(calls) - 1
    BY <1>2, DeliverCalls, CallsTyped DEF Refills
  <2>2. CASE j \in 1..(Len(calls) - 1)
    <3>1. Was(j, i) \in DOMAIN calls /\ calls[Was(j, i)] \in Call
      BY <2>2, DeliverCalls, CallsTyped
    <3> DEFINE d == calls[Was(j, i)]
    <3>a. calls'[j] = IF calls[i].op = "session"
                      THEN [d EXCEPT !.old = @ \/ (Was(j, i) < i /\ d.op = "session")] ELSE d
      BY <2>2, DeliverCalls
    <3>b. d \in Call
      BY <3>1
    <3> HIDE DEF d, Was
    <3>2. calls'[j].op = d.op /\ calls'[j].who = d.who
      BY <3>a, <3>b DEF Call
    <3> USE DEF d
    <3> QED  BY <1>1, <3>1, <3>2
  <2>3. CASE j \notin 1..(Len(calls) - 1)
    <3>1. SignsOut(calls[i]) /\ j = Len(calls)
      <4> HIDE DEF SignsOut
      <4> QED  BY <2>1, <2>3
    <3>2. calls'[j] = NewCall("refresh", "page", account, Nobody)
      BY <3>1, DeliverCalls
    <3> QED  BY <3>2 DEF NewCall
  <2> QED  BY <2>2, <2>3
<1> QED  BY <1>1, <1>3, <1>4, <1>5 DEF Gone

LEMMA GoneRender == ASSUME TypedTab, Gone, Render  PROVE Gone'
<1>1. /\ account = Nobody /\ session = Nobody /\ asked = Nobody /\ sessionReady
      /\ (\A l \in Lists : Idle(l))
      /\ \A j \in DOMAIN calls : /\ calls[j].op \in {"session", "territory", "refresh"}
                                 /\ calls[j].op = "session" => calls[j].who = Nobody
  BY DEF Gone
<1>2. /\ rendered' = Now /\ rendered'.person = Nobody /\ asked' = Nobody
      /\ UNCHANGED <<saved, account, session, sessionReady>>
  BY <1>1 DEF Render, Now
<1>3. \A j \in DOMAIN calls' : /\ calls'[j].op \in {"session", "territory", "refresh"}
                               /\ calls'[j].op = "session" => calls'[j].who = Nobody
  <2> SUFFICES ASSUME NEW j \in DOMAIN calls'
               PROVE  /\ calls'[j].op \in {"session", "territory", "refresh"}
                      /\ calls'[j].op = "session" => calls'[j].who = Nobody
    OBVIOUS
  <2>1. CASE j \in DOMAIN calls /\ calls'[j] = Stale[j]
    <3>1. calls'[j].op = calls[j].op /\ calls'[j].who = calls[j].who
      BY <2>1, CallsTyped DEF Stale, Call
    <3> QED  BY <1>1, <2>1, <3>1
  <2>2. CASE calls'[j] = NewCall("territory", "none", account, Nobody)
    BY <2>2 DEF NewCall
  <2>3. CASE calls'[j] = NewCall("session", "none", account, Nobody)
    BY <1>1, <2>3 DEF NewCall
  <2> QED  BY <2>1, <2>2, <2>3, RenderCalls
<1>4. /\ \A l \in Lists :
            \/ shown'[l] = EmptyList /\ Idle(l)'
            \/ rendered.member = FALSE /\ shown'[l] = shown[l] /\ Idle(l)'
      /\ "reservations" \in Run => ready' = TRUE
      /\ "reservations" \in Run \/ (rendered.ready /\ ready' = ready)
  <2> HIDE DEF Run, Load, Idle
  <2> QED  BY <1>1, RenderedLists
<1>5. /\ "reservations" \in Lists /\ "notifications" \in Lists /\ "feed" \in Lists
      /\ EmptyList.of = Nobody /\ EmptyList.marks = {}
  BY DEF Lists, EmptyList
<1>6. rendered.member = FALSE => rendered.person = Nobody
  BY DEF TypedTab, TypedScreen
<1>7. rendered.person = Nobody =>
          /\ rendered.ready => ready
          /\ \A l \in Lists : shown[l].of = Nobody
          /\ shown.reservations.marks = {} /\ shown.notifications.marks = {}
          /\ shown.feed.marks \subseteq saved.feed
  BY DEF Gone
<1>8. ready'
  <2>1. CASE "reservations" \in Run
    BY <1>4, <2>1
  <2>2. CASE "reservations" \notin Run
    <3>1. rendered.ready /\ ready' = ready
      BY <1>4, <2>2
    <3>2. rendered.member = FALSE
      BY <1>1, <1>5, <2>2, RenderedLists
    <3> QED  BY <1>6, <1>7, <3>1, <3>2
  <2> QED  BY <2>1, <2>2
<1>9. \A l \in Lists : shown'[l].of = Nobody
  BY <1>4, <1>5, <1>6, <1>7
<1>10. /\ shown'.reservations.marks = {} /\ shown'.notifications.marks = {}
       /\ shown'.feed.marks \subseteq saved.feed
  BY <1>4, <1>5, <1>6, <1>7
<1>11. \A l \in Lists : Idle(l)'
  BY <1>4
<1> QED  BY <1>1, <1>2, <1>3, <1>8, <1>9, <1>10, <1>11 DEF Gone

LEMMA CalmStep == TypedTab /\ Calm /\ [TabNext]_tab => Calm'
<1> SUFFICES ASSUME TypedTab, TypedTab', [TabNext]_tab, Calm, steady', dropped' = {}
             PROVE  Orderly' \/ Gone'
  BY TypedStep DEF Calm
<1> DEFINE Before == steady /\ dropped = {}
<1>1. ASSUME Before  PROVE Orderly \/ Gone
  BY <1>1 DEF Calm
<1>2. ASSUME Acts  PROVE Orderly /\ Quiet
  <2>1. Before /\ Quiet
    BY <1>2 DEF Acts, TypedTab, TypedCalls
  <2> QED  BY <1>1, <2>1, GoneQuiet
<1>3. ASSUME NEW lost, lost # {}, Lose(lost)  PROVE FALSE
  BY <1>3 DEF Lose
<1>4. CASE UNCHANGED tab
  <2>1. UNCHANGED <<saved, account, path, session, sessionReady, territory, shown, ready,
                    rendered, loading, calls, asked, displaced, steady, dropped>>
    BY <1>4 DEF tab, screen, history
  <2>2. /\ Now' = Now /\ (Asking' <=> Asking)
        /\ \A l \in Lists : Idle(l)' <=> Idle(l)
    BY <2>1 DEF Now, Asking, AsksSession, Idle
  <2>3. (Settled' <=> Settled) /\ (Rendered' <=> Rendered) /\ (Kept' <=> Kept)
    BY <2>1, <2>2 DEF Settled, Rendered, Kept
  <2>4. ASSUME Orderly  PROVE Orderly'
    <3>1. CalmCalls'
      BY <2>1, <2>2, <2>3, <2>4 DEF Orderly, CalmCalls, AloneOnItsWay, Allowed
    <3>2. CalmSession'
      BY <2>1, <2>2, <2>3, <2>4 DEF Orderly, CalmSession, Idle
    <3>3. CalmLists'
      <4>1. /\ BookingsAgree' <=> BookingsAgree
            /\ FeedAgrees' <=> FeedAgrees
            /\ NotificationsAgree' <=> NotificationsAgree
        BY <2>1 DEF BookingsAgree, FeedAgrees, NotificationsAgree, Unread, Stored
      <4>2. /\ Owned("reservations")' <=> Owned("reservations")
            /\ Owned("feed")' <=> Owned("feed")
        BY <2>1 DEF Owned
      <4> QED  BY <2>1, <2>3, <2>4, <4>1, <4>2 DEF Orderly, CalmLists, Idle
    <3> QED  BY <3>1, <3>2, <3>3 DEF Orderly
  <2>5. ASSUME Gone  PROVE Gone'
    BY <2>1, <2>2, <2>5 DEF Gone
  <2>6. Orderly \/ Gone
    BY <1>1, <2>1
  <2> QED  BY <2>4, <2>5, <2>6
<1>5. CASE Render
  <2>1. Orderly \/ Gone
    BY <1>1, <1>5 DEF Render
  <2> QED  BY <1>5, <2>1, RenderPage, RenderSession, GoneRender
<1>6. ASSUME NEW i \in DOMAIN calls, Serve(i)  PROVE Orderly'
  <2>1. Orderly \/ Gone
    BY <1>1, <1>6 DEF Serve, history
  <2>2. ~Gone
    BY <1>6 DEF Gone, Serve, Posts
  <2> QED  BY <1>6, <2>1, <2>2, ServeCalm
<1>7. ASSUME NEW i \in DOMAIN calls, NEW answer \in calls[i].found, Deliver(i, answer)
      PROVE  Orderly' \/ Gone'
  <2>1. Orderly \/ Gone
    BY <1>1, <1>7 DEF Deliver
  <2> QED  BY <1>7, <2>1, DeliverCalm, GoneDeliver
<1>8. ASSUME NEW l \in Lists, NEW answer \in loading[l].found, Arrive(l, answer)  PROVE Orderly'
  <2>1. Orderly \/ Gone
    BY <1>1, <1>8 DEF Arrive, history
  <2>2. ~Gone
    BY <1>8 DEF Gone, Idle
  <2> QED  BY <1>8, <2>1, <2>2, ArriveCalm
<1>9. ASSUME NEW i \in DOMAIN calls, Drop(i)  PROVE FALSE
  BY <1>3, <1>9 DEF Drop
<1>10. ASSUME NEW l \in Lists, Fail(l)  PROVE FALSE
  BY <1>3, <1>10 DEF Fail
<1>11. ASSUME NEW to \in Paths, Navigate(to)  PROVE Orderly'
  <2>1. Acts
    BY <1>11 DEF Navigate
  <2> QED  BY <1>2, <1>11, <2>1, NavigateCalm
<1>12. ASSUME NEW p \in People, Login(p)  PROVE Orderly'
  <2>1. Acts
    BY <1>12 DEF Login
  <2> QED  BY <1>2, <1>12, <2>1, LoginCalm
<1>13. CASE Logout
  <2>1. Acts
    BY <1>13 DEF Logout
  <2> QED  BY <1>2, <1>13, <2>1, LogoutCalm
<1>14. CASE Expire
  <2>1. Acts
    BY <1>14 DEF Expire
  <2> QED  BY <1>2, <1>14, <2>1, ExpireCalm
<1>15. CASE Click
  <2>1. Acts
    BY <1>15 DEF Click
  <2> QED  BY <1>2, <1>15, <2>1, ClickCalm
<1> QED  BY <1>4, <1>5, <1>6, <1>7, <1>8, <1>9, <1>10, <1>11, <1>12, <1>13, <1>14, <1>15
         DEF TabNext, Progress

\* Every answer and every update has its type, and every call is made for the list its
\* operation is about.
THEOREM TabTypes == TabSpec => []TypedTab
  BY TabInitTyped, TypedStep, PTL DEF TabSpec

\* A member who lets everything come to rest before the next step, and loses nothing on
\* the way, sees stored rows however the answers of that step were ordered: bookings
\* (ReservationProvider's effect and refresh), notifications (NotificationProvider), no
\* reaction of the feed but stored ones (CommunityInteractionProvider). They are those of
\* the account of the browser, and as a guest nothing. Bookings and feed may be another
\* person's only where an account signed in over that person's screen, since the effects
\* that load them depend on there being a member and not on who it is
\* (ReservationProvider.tsx:122, CommunityInteractionProvider.tsx:100).
THEOREM CalmScreensAgree == TabSpec => []CalmScreenAgrees
<1>1. TabInit => TypedTab /\ Calm
  BY TabInitTyped, CalmInit DEF Calm
<1>2. TypedTab /\ Calm /\ [TabNext]_tab => (TypedTab /\ Calm)'
  BY TypedStep, CalmStep
<1>3. TypedTab /\ Calm => CalmScreenAgrees
  <2> SUFFICES ASSUME TypedTab, Calm, steady, dropped = {}, Quiet, asked = account
               PROVE  /\ session = account /\ sessionReady /\ ready
                      /\ shown.notifications.of = account
                      /\ \A l \in Lists : \/ shown[l].of = account
                                          \/ displaced /\ Nobody \notin {account, shown[l].of}
                      /\ \A l \in {"reservations", "notifications"} :
                            shown[l].marks = saved[l] \cap {shown[l].of}
                      /\ shown.feed.marks \subseteq saved.feed
    BY DEF CalmScreenAgrees
  <2>1. Orderly
    BY GoneQuiet DEF Calm
  <2>2. /\ session = account /\ sessionReady /\ ready
        /\ Kept => /\ Owned("reservations") /\ Owned("feed") /\ shown.notifications.of = session
                   /\ Stored("reservations") /\ Stored("notifications")
                   /\ shown.feed.marks \subseteq saved.feed
    BY <2>1, Quietly
  <2>3. Kept
    BY <2>2 DEF Kept
  <2> QED  BY <2>2, <2>3 DEF Owned, Stored, Lists
<1> QED  BY <1>1, <1>2, <1>3, PTL DEF TabSpec

-----------------------------------------------------------------------------
(* The control plane: the inductive invariant.                             *)

HIDE ClientConstants
USE PlatformConstants

\* What operators decided since the process started is still so.
Decided == \A t \in Tenants :
              decision[t] # "none" => decision[t] # "absent" /\ cp.status[t] = decision[t]

\* Nobody is named in the trail who is not known.
NamesKnown == \A i \in DOMAIN audit :
                 audit[i].says # "other" => cp.status[audit[i].tenant] # "absent"

\* An entry that names a status tells it as it is, unless a newer one does.
Outdone(i) == \E j \in 1..(i - 1) : /\ audit[j].tenant = audit[i].tenant
                                    /\ audit[j].says # "other"

TrailIsTrue ==
    \A i \in DOMAIN audit :
        audit[i].says = "other" \/ cp.status[audit[i].tenant] = audit[i].says \/ Outdone(i)

IInv == /\ TypeOK /\ Decided /\ NamesKnown /\ TrailIsTrue
        /\ SuspendedTenantsAreQuiet

\* The part of the invariant that speaks of the trail.
Trail == NamesKnown /\ TrailIsTrue

-----------------------------------------------------------------------------
(* Adoption and the trail.                                                 *)

LEMMA BootedTypes ==
    ASSUME TypeOK
    PROVE  /\ Booted \in ControlPlane
           /\ \A t \in Tenants : cp.status[t] # "absent" => Booted.status[t] = cp.status[t]
  BY DEF TypeOK, Booted, ControlPlane, Adopted, Statuses

LEMMA EntryTypes ==
    ASSUME NEW t \in Tenants, NEW s \in Statuses \cup {"other"}
    PROVE  /\ Says(t, s) \in Entry /\ Says(t, s).tenant = t /\ Says(t, s).says = s
           /\ Mentions(t) \in Entry /\ Mentions(t).tenant = t /\ Mentions(t).says = "other"
  BY DEF Says, Mentions, Entry

\* The newest entries come first and as many of the others follow as are kept.
LEMMA Logged ==
    ASSUME TypeOK, NEW entries \in Seq(Entry), Log(entries)
    PROVE  /\ audit' \in Seq(Entry) /\ Len(audit') <= AuditCap
           /\ Len(audit') <= Len(entries) + Len(audit)
           /\ \A i \in 1..Len(audit') :
                 audit'[i] = IF i <= Len(entries) THEN entries[i] ELSE audit[i - Len(entries)]
<1> DEFINE all == entries \o audit
           n == IF Len(all) > AuditCap THEN AuditCap ELSE Len(all)
<1>1. audit \in Seq(Entry) /\ Len(audit) \in Nat /\ Len(entries) \in Nat
  BY LenProperties DEF TypeOK
<1>2. /\ all \in Seq(Entry) /\ Len(all) = Len(entries) + Len(audit)
      /\ \A i \in 1 .. Len(entries) + Len(audit) :
            all[i] = IF i <= Len(entries) THEN entries[i] ELSE audit[i - Len(entries)]
  BY <1>1, ConcatProperties
<1>3. n \in Nat /\ n <= AuditCap /\ n <= Len(all)
  BY <1>1, <1>2
<1>4. \A i \in 1..n : all[i] \in Entry
  BY <1>2, <1>3, ElementOfSeq
<1>5. /\ SubSeq(all, 1, n) \in Seq(Entry)
      /\ Len(SubSeq(all, 1, n)) = n
      /\ \A i \in 1..n : SubSeq(all, 1, n)[i] = all[i]
  BY <1>1, <1>2, <1>3, <1>4
<1>6. audit' = SubSeq(all, 1, n)
  BY DEF Log
<1> QED  BY <1>1, <1>2, <1>3, <1>5, <1>6

\* Known tenants keep their status: no step but those below takes it from them.
StatusesStay == \A t \in Tenants : cp.status[t] # "absent" => cp'.status[t] = cp.status[t]

\* What is only mentioned leaves a true trail true.
LEMMA MentionsKeepTrail ==
    ASSUME TypeOK, Trail, StatusesStay, NEW entries \in Seq(Entry), Log(entries),
           \A i \in 1..Len(entries) : entries[i].says = "other"
    PROVE  Trail'
<1> DEFINE k == Len(entries)
<1>1. /\ DOMAIN audit' = 1..Len(audit') /\ DOMAIN audit = 1..Len(audit)
      /\ Len(audit') \in Nat /\ k \in Nat
      /\ Len(audit') <= k + Len(audit) /\ Len(audit) \in Nat
      /\ \A i \in 1..Len(audit') :
            audit'[i] = IF i <= k THEN entries[i] ELSE audit[i - k]
      /\ \A i \in 1..Len(audit) : audit[i] \in Entry
  BY Logged, LenProperties, ElementOfSeq DEF TypeOK
<1> HIDE DEF k
<1>2. SUFFICES ASSUME NEW i \in 1..Len(audit'), audit'[i].says # "other"
               PROVE  /\ cp'.status[audit'[i].tenant] # "absent"
                      /\ \/ cp'.status[audit'[i].tenant] = audit'[i].says
                         \/ Outdone(i)'
  BY <1>1 DEF Trail, NamesKnown, TrailIsTrue
<1>3. i > k /\ i - k \in 1..Len(audit) /\ audit'[i] = audit[i - k]
  BY <1>1, <1>2 DEF k
<1>4. /\ cp.status[audit[i - k].tenant] # "absent"
      /\ audit[i - k].tenant \in Tenants
  BY <1>1, <1>2, <1>3 DEF Trail, NamesKnown, Entry
<1>5. cp'.status[audit'[i].tenant] = cp.status[audit[i - k].tenant]
  BY <1>3, <1>4 DEF StatusesStay
<1>6. CASE Outdone(i - k)
  <2>1. PICK j \in 1..(i - k - 1) : audit[j].tenant = audit[i - k].tenant /\ audit[j].says # "other"
    BY <1>6 DEF Outdone
  <2>2. j + k \in 1..(i - 1) /\ j + k \in 1..Len(audit') /\ audit'[j + k] = audit[j]
    <3>1. j \in Nat /\ j < i - k /\ j <= Len(audit) /\ (j + k) - k = j
      BY <1>1, <1>3, <2>1
    <3>2. j + k \in 1..(i - 1) /\ j + k \in 1..Len(audit') /\ ~ (j + k <= k)
      BY <1>1, <1>3, <2>1, <3>1
    <3> QED  BY <1>1, <3>1, <3>2
  <2> QED  BY <1>3, <1>4, <1>5, <2>1, <2>2 DEF Outdone
<1>7. CASE ~ Outdone(i - k)
  BY <1>1, <1>2, <1>3, <1>4, <1>5, <1>7 DEF Trail, TrailIsTrue
<1> QED  BY <1>6, <1>7

\* What leaves the trail alone, too.
LEMMA SilenceKeepsTrail ==
    ASSUME TypeOK, Trail, StatusesStay, UNCHANGED audit
    PROVE  Trail'
<1>1. DOMAIN audit = 1..Len(audit) /\ \A i \in 1..Len(audit) : audit[i].tenant \in Tenants
  <2>1. DOMAIN audit = 1..Len(audit) /\ \A i \in 1..Len(audit) : audit[i] \in Entry
    BY ElementOfSeq, LenProperties DEF TypeOK
  <2> QED  BY <2>1 DEF Entry
<1>2. ASSUME NEW i \in DOMAIN audit, audit[i].says # "other"
      PROVE  cp'.status[audit[i].tenant] = cp.status[audit[i].tenant]
  BY <1>1, <1>2 DEF Trail, NamesKnown, StatusesStay
<1>3. NamesKnown'
  BY <1>2 DEF Trail, NamesKnown
<1>4. TrailIsTrue'
  BY <1>2 DEF Trail, TrailIsTrue, Outdone
<1> QED  BY <1>3, <1>4 DEF Trail

\* A change of one tenant's status that the newest entry names outdoes whatever
\* was said of that tenant before.
LEMMA NamingKeepsTrail ==
    ASSUME TypeOK, Trail, NEW t \in Tenants, NEW s \in Statuses \ {"absent"},
           NEW entries \in Seq(Entry), Log(entries),
           Len(entries) >= 1, entries[1] = Says(t, s),
           \A i \in 2..Len(entries) : entries[i].says = "other",
           cp'.status[t] = s,
           \A u \in Tenants \ {t} : cp.status[u] # "absent" => cp'.status[u] = cp.status[u]
    PROVE  Trail'
<1> DEFINE k == Len(entries)
<1>1. /\ DOMAIN audit' = 1..Len(audit') /\ DOMAIN audit = 1..Len(audit)
      /\ Len(audit') \in Nat /\ k \in Nat \ {0}
      /\ Len(audit') <= k + Len(audit) /\ Len(audit) \in Nat
      /\ \A i \in 1..Len(audit') :
            audit'[i] = IF i <= k THEN entries[i] ELSE audit[i - k]
      /\ \A i \in 1..Len(audit) : audit[i] \in Entry
  BY Logged, LenProperties, ElementOfSeq DEF TypeOK
<1> HIDE DEF k
<1>2. SUFFICES ASSUME NEW i \in 1..Len(audit'), audit'[i].says # "other"
               PROVE  /\ cp'.status[audit'[i].tenant] # "absent"
                      /\ \/ cp'.status[audit'[i].tenant] = audit'[i].says
                         \/ Outdone(i)'
  BY <1>1 DEF Trail, NamesKnown, TrailIsTrue
<1>3. audit'[1].tenant = t /\ audit'[1].says = s /\ s # "other"
  <2>1. 1 \in 1..Len(audit') /\ 1 <= k
    BY <1>1, <1>2
  <2>2. audit'[1] = Says(t, s)
    BY <1>1, <2>1
  <2>3. s # "other"
    BY DEF Statuses
  <2> QED  BY <2>2, <2>3 DEF Says
<1>4. CASE i <= k
  <2>1. i = 1
    BY <1>1, <1>2, <1>4 DEF k
  <2> QED  BY <1>3, <2>1
<1>5. CASE i > k /\ audit'[i].tenant = t
  <2>1. 1 \in 1..(i - 1)
    BY <1>1, <1>5
  <2> QED  BY <1>3, <1>5, <2>1 DEF Outdone
<1>6. CASE i > k /\ audit'[i].tenant # t
  <2>1. i - k \in 1..Len(audit) /\ audit'[i] = audit[i - k]
    BY <1>1, <1>6
  <2>2. /\ cp.status[audit[i - k].tenant] # "absent"
        /\ audit[i - k].tenant \in Tenants
    BY <1>1, <1>2, <2>1 DEF Trail, NamesKnown, Entry
  <2>3. cp'.status[audit'[i].tenant] = cp.status[audit[i - k].tenant]
    BY <1>6, <2>1, <2>2
  <2>4. CASE Outdone(i - k)
    <3>1. PICK j \in 1..(i - k - 1) : audit[j].tenant = audit[i - k].tenant /\ audit[j].says # "other"
      BY <2>4 DEF Outdone
    <3>2. j + k \in 1..(i - 1) /\ j + k \in 1..Len(audit') /\ audit'[j + k] = audit[j]
      BY <1>1, <2>1, <3>1
    <3> QED  BY <2>1, <2>2, <2>3, <3>1, <3>2 DEF Outdone
  <2>5. CASE ~ Outdone(i - k)
    BY <1>1, <1>2, <2>1, <2>2, <2>3, <2>5 DEF Trail, TrailIsTrue
  <2> QED  BY <2>4, <2>5
<1> QED  BY <1>1, <1>4, <1>5, <1>6

-----------------------------------------------------------------------------
(* Two kinds of step.                                                      *)

Mere(entries) == entries \in Seq(Entry) /\ \A i \in 1..Len(entries) : entries[i].says = "other"

Naming(entries, t, s) == /\ entries \in Seq(Entry) /\ Len(entries) >= 1 /\ entries[1] = Says(t, s)
                         /\ \A i \in 2..Len(entries) : entries[i].says = "other"

LEMMA MereEntries ==
    ASSUME NEW t \in Tenants
    PROVE  /\ Mere(<<Mentions(t)>>) /\ Mere(<<Mentions(t), Mentions(t)>>)
           /\ Mere(<<Mentions(t), Mentions(t), Mentions(t)>>)
  BY EntryTypes DEF Mere

LEMMA NamingEntries ==
    ASSUME NEW t \in Tenants, NEW s \in Statuses
    PROVE  Naming(<<Says(t, s)>>, t, s) /\ Naming(<<Says(t, s), Mentions(t)>>, t, s)
  BY EntryTypes DEF Naming

LEMMA AskedTypes ==
    ASSUME IInv, Asked
    PROVE  /\ admitted' = NoTenant /\ spent' \in 0..MaxRequests /\ crashes' \in 0..MaxCrashes
           /\ SuspendedTenantsAreQuiet'
  BY DEF IInv, TypeOK, Asked, SuspendedTenantsAreQuiet

\* A request that decides no status.
LEMMA OrdinaryStep ==
    ASSUME IInv, Asked, UNCHANGED decision, cp' \in ControlPlane, StatusesStay,
           rows' \subseteq Rows, backups' \in Seq(Backup),
           UNCHANGED audit \/ \E entries : Mere(entries) /\ Log(entries)
    PROVE  IInv'
<1>1. Decided'
  BY DEF IInv, Decided, StatusesStay
<1>2. /\ audit' \in Seq(Entry) /\ Len(audit') <= AuditCap
      /\ Trail'
  <2>1. CASE UNCHANGED audit
    BY <2>1, SilenceKeepsTrail DEF IInv, TypeOK, Trail
  <2>2. ASSUME NEW entries, Mere(entries), Log(entries)
        PROVE  audit' \in Seq(Entry) /\ Len(audit') <= AuditCap /\ Trail'
    BY <2>2, Logged, MentionsKeepTrail DEF Mere, IInv, Trail
  <2> QED  BY <2>1, <2>2
<1>3. TypeOK'
  BY <1>2, AskedTypes DEF IInv, TypeOK
<1> QED  BY <1>1, <1>2, <1>3, AskedTypes DEF IInv, Trail

\* A request that decides the status of one tenant.
LEMMA DecidingStep ==
    ASSUME IInv, Asked, DataKept, NEW t \in Tenants, NEW s \in Statuses \ {"absent"},
           cp' \in ControlPlane, cp'.status[t] = s,
           \A u \in Tenants \ {t} : cp.status[u] # "absent" => cp'.status[u] = cp.status[u],
           decision' = [decision EXCEPT ![t] = s],
           \E entries : Naming(entries, t, s) /\ Log(entries)
    PROVE  IInv'
<1>1. Decided'
  BY DEF IInv, Decided, TypeOK
<1>2. audit' \in Seq(Entry) /\ Len(audit') <= AuditCap /\ Trail'
  <2>1. PICK entries : Naming(entries, t, s) /\ Log(entries)
    OBVIOUS
  <2> QED  BY <2>1, Logged, NamingKeepsTrail DEF Naming, IInv, Trail
<1>3. TypeOK'
  BY <1>2, AskedTypes DEF IInv, TypeOK, DataKept
<1> QED  BY <1>1, <1>2, <1>3, AskedTypes DEF IInv, Trail

-----------------------------------------------------------------------------
(* The handlers.                                                           *)

LEMMA BootingStays ==
    ASSUME TypeOK, cp'.status = Booted.status
    PROVE  StatusesStay
  BY BootedTypes DEF StatusesStay

LEMMA TenantStep ==
    ASSUME IInv, NEW t \in Tenants,
           \/ \E homes \in SUBSET Homes : Provision(t, homes)
           \/ \E verb \in Verbs : Lifecycle(t, verb)
           \/ \E status \in {"active", "suspended", "archived"} : SetStatus(t, status)
    PROVE  IInv'
<1> USE DEF IInv
<1>0. /\ Booted \in ControlPlane
      /\ \A u \in Tenants : cp.status[u] # "absent" => Booted.status[u] = cp.status[u]
  BY BootedTypes
<1>1. ASSUME NEW homes \in SUBSET Homes, Provision(t, homes)
      PROVE  IInv'
  <2>1. cp' \in ControlPlane
    BY <1>0, <1>1 DEF Provision, ControlPlane, Statuses
  <2>2. cp'.status = [Booted.status EXCEPT ![t] = "provisioned"]
    BY <1>0, <1>1 DEF Provision, ControlPlane
  <2>3. /\ cp'.status[t] = "provisioned"
        /\ \A u \in Tenants \ {t} : cp.status[u] # "absent" => cp'.status[u] = cp.status[u]
    BY <1>0, <2>2 DEF ControlPlane
  <2>4. "provisioned" \in Statuses \ {"absent"}
    BY DEF Statuses
  <2> QED  BY <1>1, <2>1, <2>3, <2>4, DecidingStep, NamingEntries DEF Provision
<1>2. ASSUME NEW verb \in Verbs, Lifecycle(t, verb)
      PROVE  IInv'
  <2>1. Target(verb) \in Statuses \ {"absent"}
    BY DEF Verbs, Target, Statuses
  <2>2. /\ cp' \in ControlPlane
        /\ cp'.status = [Booted.status EXCEPT ![t] = Target(verb)]
    BY <1>0, <1>2, <2>1 DEF Lifecycle, ControlPlane, Subscribed
  <2>3. /\ cp'.status[t] = Target(verb)
        /\ \A u \in Tenants \ {t} : cp.status[u] # "absent" => cp'.status[u] = cp.status[u]
    BY <1>0, <2>2 DEF ControlPlane
  <2>4. \E entries : Naming(entries, t, Target(verb)) /\ Log(entries)
    BY <1>2, <2>1, NamingEntries DEF Lifecycle, Target
  <2> QED  BY <1>2, <2>1, <2>2, <2>3, <2>4, DecidingStep DEF Lifecycle
<1>3. ASSUME NEW status \in {"active", "suspended", "archived"}, SetStatus(t, status)
      PROVE  IInv'
  <2>1. status \in Statuses \ {"absent"}
    BY DEF Statuses
  <2>2. /\ cp' \in ControlPlane
        /\ cp'.status = [Booted.status EXCEPT ![t] = status]
    BY <1>0, <1>3, <2>1 DEF SetStatus, ControlPlane
  <2>3. /\ cp'.status[t] = status
        /\ \A u \in Tenants \ {t} : cp.status[u] # "absent" => cp'.status[u] = cp.status[u]
    BY <1>0, <2>2 DEF ControlPlane
  <2> QED  BY <1>3, <2>1, <2>2, <2>3, DecidingStep, NamingEntries DEF SetStatus
<1> QED  BY <1>1, <1>2, <1>3

\* Choosing features, adding territories, and what only leaves a trace.
LEMMA FeatureStep ==
    ASSUME IInv, NEW t \in Tenants,
           \/ Refuse(t) \/ Annotate(t)
           \/ \E home \in Homes : AddTerritory(t, home)
           \/ \E on \in SUBSET Features : \E off \in SUBSET (Features \ on) : SetFeatures(t, on, off)
    PROVE  IInv'
<1> USE DEF IInv
<1>0. /\ Booted \in ControlPlane
      /\ \A f \in SUBSET Features : \A on \in SUBSET Features : \A off \in SUBSET Features :
            Patched(f, on, off) \in SUBSET Features
  BY BootedTypes DEF Patched
<1>a. \A on \in SUBSET Features : \A off \in SUBSET Features :
         /\ WithFeatures(t, on, off) \in ControlPlane
         /\ WithFeatures(t, on, off).status = Booted.status
  BY <1>0 DEF WithFeatures, ControlPlane
<1>b. ASSUME Asked, DataKept, UNCHANGED decision, cp' \in ControlPlane,
             cp'.status = Booted.status,
             UNCHANGED audit \/ \E entries : Mere(entries) /\ Log(entries)
      PROVE  IInv'
  BY <1>b, BootingStays, OrdinaryStep DEF DataKept, TypeOK
<1>1. CASE Refuse(t) \/ Annotate(t)
  BY <1>0, <1>1, <1>b, MereEntries DEF Refuse, Annotate
<1>2. ASSUME NEW home \in Homes, AddTerritory(t, home)
      PROVE  IInv'
  <2>1. cp' \in ControlPlane /\ cp'.status = Booted.status
    BY <1>0, <1>2 DEF AddTerritory, ControlPlane
  <2> QED  BY <1>2, <1>b, <2>1, MereEntries DEF AddTerritory
<1>3. ASSUME NEW on \in SUBSET Features, NEW off \in SUBSET (Features \ on), SetFeatures(t, on, off)
      PROVE  IInv'
  BY <1>3, <1>a, <1>b, MereEntries DEF SetFeatures
<1> QED  BY <1>1, <1>2, <1>3

\* A tenant's backups, when it has any, have a newest one: of the finite initial
\* intervals that end in a backup of the tenant one includes no other.
LEMMA NewestExists ==
    ASSUME TypeOK, NEW t \in Tenants, BackupsOf(t) # {}
    PROVE  Newest(t) \in BackupsOf(t)
<1> DEFINE all == 1..Len(backups)
           ends == {1..i : i \in BackupsOf(t)}
<1>1. BackupsOf(t) \subseteq all /\ Len(backups) \in Nat
  BY LenProperties DEF TypeOK, BackupsOf
<1>2. FiniteSubsetsOf(all) = SUBSET all
  <2>1. IsFiniteSet(1..Len(backups))
    BY <1>1, FS_Interval
  <2> QED  BY <2>1, FS_FiniteSubsetsOfFinite
<1>3. ends \subseteq FiniteSubsetsOf(all) /\ ends # {}
  BY <1>1, <1>2
<1>4. PICK e \in ends : \A d \in ends : <<d, e>> \notin StrictSubsetOrdering(all)
  BY <1>3, WFMin, FS_StrictSubsetOrderingWellFounded
<1>5. PICK i \in BackupsOf(t) : e = 1..i
  OBVIOUS
<1>6. ASSUME NEW j \in BackupsOf(t), j < i PROVE FALSE
  <2>1. (1..j) \in ends /\ (1..j) \subseteq (1..i) /\ i \in 1..i /\ i \notin 1..j
    BY <1>1, <1>6
  <2>2. (1..j) \subseteq all /\ (1..i) \subseteq all
    BY <1>1
  <2>3. <<1..j, 1..i>> \in StrictSubsetOrdering(all)
    BY <2>1, <2>2 DEF StrictSubsetOrdering
  <2> QED  BY <1>4, <1>5, <2>1, <2>3
<1>7. \A j \in BackupsOf(t) : i <= j
  BY <1>1, <1>6
<1> QED  BY <1>7 DEF Newest

\* Reading, seeding, exporting, and taking and restoring backups.
LEMMA DataStep ==
    ASSUME IInv,
           \/ LookUp
           \/ \E some \in SUBSET Rows : Seed(some)
           \/ \E t \in Tenants : Export(t) \/ CreateBackup(t)
           \/ \E t \in Tenants : \E confirmed \in BOOLEAN : RestoreData(t, confirmed)
    PROVE  IInv'
<1> USE DEF IInv
<1>0. Booted \in ControlPlane
  BY BootedTypes
<1>1. CASE LookUp
  <2>1. StatusesStay
    BY <1>1, BootingStays DEF LookUp
  <2> QED  BY <1>0, <1>1, <2>1, OrdinaryStep DEF LookUp, DataKept, TypeOK
<1>2. ASSUME NEW some \in SUBSET Rows, Seed(some)
      PROVE  IInv'
  <2>1. StatusesStay
    BY <1>2 DEF Seed, StatusesStay
  <2> QED  BY <1>2, <2>1, OrdinaryStep DEF Seed, TypeOK
<1>3. ASSUME NEW t \in Tenants, Export(t)
      PROVE  IInv'
  <2>1. StatusesStay
    BY <1>3, BootingStays DEF Export
  <2>2. \E entries : Mere(entries) /\ Log(entries)
    BY <1>3, MereEntries DEF Export
  <2> QED  BY <1>0, <1>3, <2>1, <2>2, OrdinaryStep DEF Export, DataKept, TypeOK
<1>4. ASSUME NEW t \in Tenants, CreateBackup(t)
      PROVE  IInv'
  <2>1. StatusesStay
    BY <1>4, BootingStays DEF CreateBackup
  <2>2. Slice(t) \in Backup
    BY <1>0 DEF Slice, Backup, RowsOf, ControlPlane, TypeOK
  <2>3. <<Slice(t)>> \in Seq(Backup) /\ backups \in Seq(Backup)
    BY <2>2 DEF TypeOK
  <2>4. backups' \in Seq(Backup)
    BY <1>4, <2>3, ConcatProperties DEF CreateBackup
  <2> QED
    BY <1>0, <1>4, <2>1, <2>4, MereEntries, OrdinaryStep DEF CreateBackup, TypeOK
<1>5. ASSUME NEW t \in Tenants, NEW confirmed \in BOOLEAN, RestoreData(t, confirmed)
      PROVE  IInv'
  <2>1. StatusesStay
    BY <1>5, BootingStays DEF RestoreData
  <2>2. ASSUME BackupsOf(t) # {}
        PROVE  backups[Newest(t)].rows \subseteq Rows
    <3>1. Newest(t) \in DOMAIN backups
      BY <2>2, NewestExists DEF BackupsOf
    <3>2. backups[Newest(t)] \in Backup
      BY <3>1, ElementOfSeq, LenProperties DEF TypeOK
    <3> QED  BY <3>2 DEF Backup
  <2>3. rows' \subseteq Rows
    BY <1>5, <2>2 DEF RestoreData, TypeOK
  <2> QED
    BY <1>0, <1>5, <2>1, <2>3, MereEntries, OrdinaryStep DEF RestoreData, TypeOK
<1> QED  BY <1>1, <1>2, <1>3, <1>4, <1>5

\* A member writes, or the process dies and everything is forgotten with it.
LEMMA OutsideStep ==
    ASSUME IInv, Crash \/ \E t \in Tenants : Write(t)
    PROVE  IInv'
<1> USE DEF IInv
<1>1. CASE Crash
  <2>1. /\ audit' = <<>> /\ Len(audit') = 0 /\ audit' \in Seq(Entry)
        /\ DOMAIN audit' = {} /\ backups' \in Seq(Backup)
    BY <1>1 DEF Crash
  <2>2. NoControlPlane \in ControlPlane
    BY DEF NoControlPlane, ControlPlane, Statuses
  <2>3. TypeOK'
    BY <1>1, <2>1, <2>2 DEF Crash, TypeOK
  <2>4. Decided' /\ SuspendedTenantsAreQuiet'
    BY <1>1 DEF Crash, Decided, SuspendedTenantsAreQuiet
  <2>5. NamesKnown' /\ TrailIsTrue'
    BY <2>1 DEF NamesKnown, TrailIsTrue
  <2> QED  BY <2>3, <2>4, <2>5
<1>2. ASSUME NEW t \in Tenants, Write(t)
      PROVE  IInv'
  <2>1. TypeOK' /\ Decided' /\ NamesKnown'
    BY <1>2 DEF Write, TypeOK, Decided, NamesKnown
  <2>2. TrailIsTrue'
    BY <1>2 DEF Write, TrailIsTrue, Outdone
  <2>3. SuspendedTenantsAreQuiet'
    BY <1>2 DEF Write, Blocks, Decided, SuspendedTenantsAreQuiet
  <2> QED  BY <2>1, <2>2, <2>3
<1> QED  BY <1>1, <1>2

-----------------------------------------------------------------------------
(* The theorems.                                                           *)

\* The invariant of the control plane holds however requests, members' writes
\* and crashes follow one another.
THEOREM PlatformInvariant == Spec => []IInv
<1>1. Init => IInv
  <2> SUFFICES ASSUME Init PROVE IInv
    OBVIOUS
  <2>1. /\ Len(audit) = 0 /\ audit \in Seq(Entry)
        /\ DOMAIN audit = {} /\ backups \in Seq(Backup)
    BY DEF Init
  <2>2. NoControlPlane \in ControlPlane
    BY DEF NoControlPlane, ControlPlane, Statuses
  <2>3. TypeOK
    BY <2>1, <2>2 DEF Init, TypeOK
  <2> QED  BY <2>1, <2>3 DEF Init, IInv, Decided, NamesKnown, TrailIsTrue, SuspendedTenantsAreQuiet
<1>2. IInv /\ [Next]_vars => IInv'
  <2> SUFFICES ASSUME IInv, [Next]_vars PROVE IInv'
    OBVIOUS
  <2>1. CASE LookUp \/ \E some \in SUBSET Rows : Seed(some)
    BY <2>1, DataStep
  <2>2. CASE Crash \/ \E t \in Tenants : Write(t)
    BY <2>2, OutsideStep
  <2>3. ASSUME NEW t \in Tenants, Operate(t)
        PROVE  IInv'
    BY <2>3, DataStep, TenantStep, FeatureStep DEF Operate
  <2>4. CASE UNCHANGED vars
    BY <2>4 DEF vars, IInv, TypeOK, Decided, NamesKnown, TrailIsTrue, Outdone,
                SuspendedTenantsAreQuiet
  <2> QED  BY <2>1, <2>2, <2>3, <2>4 DEF Next
<1> QED  BY <1>1, <1>2, PTL DEF Spec

\* The control plane, the trail, the data plane and the backups hold what their
\* types declare, and the trail never more than AUDIT_CAP entries.
THEOREM PlatformTypes == Spec => []TypeOK
<1>1. IInv => TypeOK
  BY DEF IInv
<1> QED  BY <1>1, PlatformInvariant, PTL

\* The newest entry that names a status of a tenant is the truth, whichever of
\* the two routes wrote it and whatever the cap pushed out.
THEOREM PlatformTrail == Spec => []TrailAgreesWithStatus
<1>1. ASSUME IInv, NEW i \in DOMAIN audit, audit[i].says # "other",
             \A j \in 1..(i - 1) : audit[j] = Mentions(audit[i].tenant)
                                     \/ audit[j].tenant # audit[i].tenant
      PROVE  cp.status[audit[i].tenant] = audit[i].says
  <2>1. ~ Outdone(i)
    BY <1>1 DEF Outdone, Mentions, Says
  <2> QED  BY <1>1, <2>1 DEF IInv, TrailIsTrue
<1>2. IInv => TrailAgreesWithStatus
  BY <1>1 DEF TrailAgreesWithStatus
<1> QED  BY <1>2, PlatformInvariant, PTL

\* While the process lives, no member's write that passes requireMutationActor reaches
\* a tenant an operator suspended or archived last, whatever else was asked of the
\* platform in between.
THEOREM PlatformQuiet == Spec => []SuspendedTenantsAreQuiet
<1>1. IInv => SuspendedTenantsAreQuiet
  BY DEF IInv
<1> QED  BY <1>1, PlatformInvariant, PTL
=============================================================================
