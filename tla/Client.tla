------------------------------- MODULE Client -------------------------------
(***************************************************************************)
(* A member's tab: React providers that keep the session, the territory    *)
(* and three lists (bookings, the feed, notifications), load them when     *)
(* what they depend on has changed, and refill or patch them when the      *)
(* member acts.  Answers arrive in any order.                              *)
(*                                                                         *)
(* A state update is rendered later, and the effects it triggers run then; *)
(* several updates may be rendered at once.  An effect that runs again     *)
(* cancels what it was loading, so that a list has one load at most; a     *)
(* refill, a session and a territory are never cancelled.  A call carries  *)
(* the account whose cookie the browser holds when it is sent.  One        *)
(* tenant, with one territory, and sign-in enforced, as in production;     *)
(* people without a membership are Nobody.                                 *)
(***************************************************************************)
EXTENDS Naturals, SequencesExt

CONSTANTS People,
          Nobody,
          MaxActs,      \* bound: what the member does
          MaxDrops      \* bound: calls the network fails

ASSUME ClientConstants == Nobody \notin People /\ MaxActs \in Nat /\ MaxDrops \in Nat

Accounts == People \cup {Nobody}
Paths == {"home", "login", "list"}
Lists == {"reservations", "feed", "notifications"}
Effects == Lists \cup {"session", "territory"}
Posts == {"book", "cancel", "comment", "react", "read"}

\* For whom a list was requested, and whose rows came; whose booking is active in
\* it, whose reaction it shows, or who has read theirs.
EmptyList == [by |-> Nobody, of |-> Nobody, marks |-> {}]

\* A load that nothing can answer, since there is none.
NotLoading == [by |-> Nobody, who |-> Nobody, found |-> {}]

VARIABLES saved,       \* the server's rows, as the marks of each list
          account,     \* whose cookie the browser holds
          path,        \* the page the router shows
          session, sessionReady, territory,
          shown, ready,         \* the lists, and whether the bookings are there
          rendered,    \* what the effects of the last rendering depended on
          loading,     \* the load of each list that was not cancelled
          calls,       \* the others on their way, in the order they were sent
          acts, drops,
          steady,      \* history: the member always waited until all was still
          asked,       \* history: the account of the last session call
          overtaken,   \* history: an old session was taken for the new one
          displaced,   \* history: an account signed in over another one's screen
          dropped      \* history: the operations and lists that lost a call

screen == <<session, sessionReady, territory, shown, ready>>
history == <<steady, asked, overtaken, displaced, dropped>>
tab == <<saved, account, path, screen, rendered, loading, calls, acts, drops, history>>

\* What effects depend on, now.
Now == [path |-> path, ready |-> sessionReady, person |-> session,
        member |-> session # Nobody, territory |-> territory]

\* Everybody's reactions are returned, and the caller's own other rows.
RowsFor(list, who, rows) == IF who = Nobody THEN {} ELSE IF list = "feed" THEN rows.feed
                            ELSE rows[list] \cap {who}

\* The session on the screen, the cookie, and what it may be answered with: a read
\* finds what was there at any moment until then.
Load(list) == [by |-> session, who |-> account, found |-> {RowsFor(list, account, saved)}]

\* What is called for which list; the cookie it carries, the session on the
\* screen, and whose row a post is about; whether the effect that made it has not
\* run again since, and whether a later session was answered first; what it may
\* be answered with, a post once the server has treated it.
NewCall(op, list, who, owner) ==
    [op |-> op, list |-> list, who |-> who, by |-> session, owner |-> owner,
     live |-> op \in {"session", "territory"}, old |-> FALSE,
     found |-> IF op \in Posts THEN {}
               ELSE IF op = "refill" THEN {RowsFor(list, who, saved)} ELSE {{}}]

TabInit ==
    /\ \E some \in {{}, People} : saved = [l \in Lists |-> some]
    /\ account \in Accounts
    /\ path \in IF account = Nobody THEN {"login"} ELSE {"login", "home"}
    /\ session = Nobody /\ sessionReady = FALSE /\ territory = "unset"
    /\ shown = [l \in Lists |-> EmptyList]
    /\ ready = FALSE
    /\ rendered = Now
    /\ loading = [l \in Lists |-> NotLoading]
    /\ calls = <<NewCall("session", "none", account, Nobody)>>
    /\ acts = 0 /\ drops = 0
    /\ steady = TRUE /\ asked = account /\ overtaken = FALSE
    /\ displaced = FALSE /\ dropped = {}

Idle(list) == loading[list].found = {}

Quiet == calls = <<>> /\ (\A l \in Lists : Idle(l)) /\ rendered = Now

-----------------------------------------------------------------------------
(* Rendering.                                                              *)

\* Only the notifications depend on who the member is.
Watches(effect) ==
    CASE effect = "session"       -> {"path"}
      [] effect = "territory"     -> {"ready", "member"}
      [] effect = "reservations"  -> {"ready", "member", "territory"}
      [] effect = "feed"          -> {"member", "territory"}
      [] effect = "notifications" -> {"member", "person"}

\* The effects that run; two of them wait for the first session.
Run == {e \in Effects : /\ \E d \in Watches(e) : rendered[d] # Now[d]
                        /\ e \in {"territory", "reservations"} => sessionReady}

KeptLoads == [l \in Lists |->                                                \* mutant
    IF l \in Run /\ session # Nobody /\ Idle(l) THEN Load(l) ELSE loading[l]]

\* What was loading is cancelled; guests have nothing to load.
Loads == [l \in Lists |-> IF l \notin Run THEN loading[l]
                          ELSE IF session = Nobody THEN NotLoading ELSE Load(l)]

\* A session or a territory whose effect has run again is answered all the same.
Stale == [i \in DOMAIN calls |-> [calls[i] EXCEPT !.live = @ /\ calls[i].op \notin Run]]

Asks(op) == IF op \in Run THEN <<NewCall(op, "none", account, Nobody)>> ELSE <<>>

GuestsWait == "reservations" \notin Run /\ ready                             \* mutant

\* Members wait for their bookings again; guests have nothing to wait for.
ReadyAfter == IF "reservations" \in Run THEN session = Nobody ELSE ready

Render ==
    /\ rendered # Now
    /\ rendered' = Now
    /\ loading' = Loads
    /\ calls' = Stale \o Asks("territory") \o Asks("session")
    /\ shown' = [l \in Lists |-> IF l \in Run /\ session = Nobody THEN EmptyList ELSE shown[l]]
    /\ ready' = ReadyAfter
    /\ asked' = IF "session" \in Run THEN account ELSE asked
    /\ UNCHANGED <<saved, account, path, session, sessionReady, territory,
                   acts, drops, steady, overtaken, displaced, dropped>>

-----------------------------------------------------------------------------
(* The server, and the answers.                                            *)

\* A reaction that is taken back stays stored: rows are only ever upserted.
Applied(c) ==
    CASE c.op = "book"                       -> saved.reservations \cup {c.who}
      [] c.op = "cancel" /\ c.owner = c.who  -> saved.reservations \ {c.who}
      [] c.op = "react"                      -> saved.feed \cup {c.who}
      [] c.op = "read" /\ c.owner = c.who    -> saved.notifications \cup {c.who}
      [] OTHER                               -> saved[c.list]

Allowed(c) == c.who # Nobody /\ (c.op \in {"cancel", "read"} => c.owner = c.who)

Serve(i) ==
    LET c == calls[i]
        answered == IF Allowed(c) THEN {c.who} ELSE {}
    IN /\ c.op \in Posts /\ c.found = {}
       /\ saved' = IF Allowed(c) THEN [saved EXCEPT ![c.list] = Applied(c)] ELSE saved
       /\ calls' = [j \in DOMAIN calls |-> [calls[j] EXCEPT !.found =
                        IF j = i THEN {answered}
                        ELSE IF calls[j].op = "refill"
                        THEN @ \cup {RowsFor(calls[j].list, calls[j].who, saved')} ELSE @]]
       /\ loading' = [l \in Lists |-> IF Idle(l) THEN loading[l]
                        ELSE [loading[l] EXCEPT !.found =
                                  @ \cup {RowsFor(l, loading[l].who, saved')}]]
       /\ UNCHANGED <<account, path, screen, rendered, acts, drops, history>>

RefillsForBookings(op, answer) == op = "comment" \/ (op = "book" /\ answer # {})     \* mutant

\* A booking and a cancellation that were accepted reload the bookings, a
\* comment the feed; what was patched in advance is left as it is.
Refills(op, answer) == op = "comment" \/ (op \in {"book", "cancel"} /\ answer # {})

Outdated(s, i) ==
    [j \in DOMAIN s |-> [s[j] EXCEPT !.old = @ \/ (j < i /\ s[j].op = "session")]]

Fill(list, read, answer) ==
    /\ shown' = [shown EXCEPT ![list] = [by |-> read.by, of |-> read.who, marks |-> answer]]
    /\ ready' = (ready \/ list = "reservations")

\* Signing out ends with a refresh of the page; to those without an account the
\* middleware gives the sign-in page in its place.
After(c, answer) ==
    IF c.list = "page" /\ c.op = "session" THEN <<NewCall("refresh", "page", account, Nobody)>>
    ELSE IF Refills(c.op, answer) THEN <<NewCall("refill", c.list, account, Nobody)>>
    ELSE <<>>

Deliver(i, answer) ==
    LET c == calls[i]
    IN /\ calls' = RemoveAt(IF c.op = "session" THEN Outdated(calls, i) ELSE calls, i)
                       \o After(c, answer)
       /\ path' = IF c.op = "refresh" /\ account = Nobody THEN "login" ELSE path
       /\ session' = IF c.op = "session" THEN c.who ELSE session
       /\ sessionReady' = (sessionReady \/ (c.op = "session" /\ c.live))
       /\ overtaken' = (overtaken \/ c.old)
       /\ territory' = IF c.op # "territory" THEN territory
                       ELSE IF c.who = Nobody THEN "unset" ELSE "home"
       /\ IF c.op = "refill" THEN Fill(c.list, c, answer) ELSE UNCHANGED <<shown, ready>>
       /\ UNCHANGED <<saved, account, rendered, loading, acts, drops, steady,
                      asked, displaced, dropped>>

Arrive(list, answer) ==
    /\ Fill(list, loading[list], answer)
    /\ loading' = [loading EXCEPT ![list] = NotLoading]
    /\ UNCHANGED <<saved, account, path, session, sessionReady, territory, rendered,
                   calls, acts, drops, history>>

Lose(lost) ==
    /\ drops < MaxDrops /\ drops' = drops + 1
    /\ dropped' = dropped \cup lost
    /\ UNCHANGED <<saved, account, path, shown, ready, rendered, acts,
                   steady, asked, overtaken, displaced>>

\* A call, or its answer, is lost.
Drop(i) ==
    LET c == calls[i]
    IN /\ Lose({c.op, c.list})
       /\ calls' = RemoveAt(calls, i)
       /\ session' = IF c.op = "session" /\ c.live THEN Nobody ELSE session
       /\ sessionReady' = (sessionReady \/ (c.op = "session" /\ c.live))
       /\ territory' = IF c.op = "territory" /\ c.live THEN "unset" ELSE territory
       /\ UNCHANGED loading

\* A list whose load is lost stays as it is, and so does whoever waits for it.
Fail(list) ==
    /\ ~Idle(list)
    /\ Lose({"load", list})
    /\ loading' = [loading EXCEPT ![list] = NotLoading]
    /\ UNCHANGED <<session, sessionReady, territory, calls>>

-----------------------------------------------------------------------------
(* The member.                                                             *)

Acts == /\ acts < MaxActs /\ acts' = acts + 1
        /\ steady' = (steady /\ Quiet)
        /\ UNCHANGED <<drops, overtaken, dropped>>

Stay == UNCHANGED <<saved, session, sessionReady, territory, ready, rendered, loading>>

\* The sign-in page is open to everybody, members as well; without an account
\* the other pages lead to it.
Navigate(to) ==
    /\ Acts /\ rendered.path = path /\ to # path
    /\ path' = IF account = Nobody THEN "login" ELSE to
    /\ UNCHANGED <<account, shown, calls, asked, displaced>> /\ Stay

\* Nobody is asked to sign out first.
Login(p) ==
    /\ Acts /\ rendered.path = "login" /\ path = "login"
    /\ account' = p /\ path' = "home"
    /\ displaced' = (session # Nobody /\ (displaced \/ session # p))
    /\ UNCHANGED <<shown, calls, asked>> /\ Stay

\* onLogout refreshes the session itself, and gives up if that fails.
Logout ==
    /\ Acts /\ session # Nobody /\ path # "login"
    /\ account' = Nobody /\ asked' = Nobody
    /\ calls' = Append(calls, [NewCall("session", "page", Nobody, Nobody) EXCEPT !.live = FALSE])
    /\ UNCHANGED <<path, shown, displaced>> /\ Stay

\* The access token is not renewed.
Expire == /\ Acts /\ account # Nobody /\ account' = Nobody
          /\ UNCHANGED <<path, shown, calls, asked, displaced>> /\ Stay

Post(op, list) ==
    calls' = Append(calls, NewCall(op, list, account, shown[list].of))

Patch(list, marks) == shown' = [shown EXCEPT ![list].marks = marks]

Book == /\ session # Nobody /\ ready /\ shown.reservations.marks = {}
        /\ Post("book", "reservations") /\ UNCHANGED shown

Cancel == /\ session # Nobody /\ shown.reservations.marks # {}
          /\ Post("cancel", "reservations") /\ UNCHANGED shown

Comment == /\ session # Nobody /\ shown.feed.of # Nobody
           /\ Post("comment", "feed") /\ UNCHANGED shown

\* Shown before it is stored, whatever becomes of it.
React == /\ session # Nobody /\ shown.feed.of # Nobody
         /\ Post("react", "feed")
         /\ Patch("feed", IF session \in shown.feed.marks THEN shown.feed.marks \ {session}
                          ELSE shown.feed.marks \cup {session})

MarkRead == LET of == shown.notifications.of
            IN /\ of \notin {Nobody} \cup shown.notifications.marks
               /\ Post("read", "notifications") /\ Patch("notifications", {of})

\* There is only the form on the sign-in page.
Click == /\ Acts /\ path # "login"
         /\ (Book \/ Cancel \/ Comment \/ React \/ MarkRead)
         /\ UNCHANGED <<account, path, asked, displaced>> /\ Stay

-----------------------------------------------------------------------------
Progress == \/ Render
            \/ \E i \in DOMAIN calls : Serve(i) \/ \E answer \in calls[i].found : Deliver(i, answer)
            \/ \E l \in Lists : \E answer \in loading[l].found : Arrive(l, answer)

TabNext == \/ Progress
           \/ \E i \in DOMAIN calls : Drop(i)
           \/ \E l \in Lists : Fail(l)
           \/ \E to \in Paths : Navigate(to)
           \/ \E p \in People : Login(p)
           \/ Logout \/ Expire \/ Click

\* Calls are answered or fail, and React renders what has been updated.
TabSpec == TabInit /\ [][TabNext]_tab /\ WF_tab(Progress)

-----------------------------------------------------------------------------
(* Properties.                                                             *)

\* Whoever lets every answer come before doing anything else comes to rest with
\* the session and the notifications of the browser's account, and with lists that
\* are stored, reactions taken back aside, for the person they are shown as.
\* That person is the account, and nobody for a guest, except where an account
\* signed in over the screen of another: the effects of bookings and feed only
\* see that there still is a member, and what the first one had stays.
CalmScreenAgrees ==
    steady /\ dropped = {} /\ Quiet /\ asked = account =>
        /\ session = account /\ sessionReady /\ ready
        /\ shown.notifications.of = account
        /\ \A l \in Lists : \/ shown[l].of = account
                            \/ displaced /\ Nobody \notin {account, shown[l].of}
        /\ \A l \in {"reservations", "notifications"} :
              shown[l].marks = saved[l] \cap {shown[l].of}
        /\ shown.feed.marks \subseteq saved.feed

\* However hastily accounts, pages and clicks follow each other: if no session
\* was lost or answered out of order, the screen comes to rest with the account
\* of the browser, and its notifications were requested for no one else.
NotificationsFollowTheAccount ==
    Quiet /\ asked = account /\ ~overtaken /\ "session" \notin dropped =>
        /\ session = account
        /\ "notifications" \notin dropped => shown.notifications.by = account

\* Effects that trigger one another come to an end, and unless the bookings were
\* lost on the way nobody waits for them for ever.
ScreenSettles == <>[](Quiet /\ (ready \/ "reservations" \in dropped))
=============================================================================
