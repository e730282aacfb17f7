---------------------------- MODULE TimesketchClient ----------------------------
(***************************************************************************)
(* The Timesketch client all requests share (pkg/timesketch/client.go) and *)
(* what uses it: the upload module, the event import, the case form.       *)
(*                                                                         *)
(* A session is a cookie in the client's jar and a CSRF token that belongs *)
(* to it.  Logins are serialized by a mutex; everything else is not: the   *)
(* token is read under the mutex, but sent, with whatever cookie the jar   *)
(* holds by then, after it was released.  A request that is refused logs   *)
(* in once and is sent again, which takes the session of all others away.  *)
(*                                                                         *)
(* The server is external: the newest login holds the only session, as in  *)
(* the fake server of client_test.go, and a POST needs the session's token.*)
(***************************************************************************)
EXTENDS Naturals, Sequences, FiniteSets, SequencesExt

CONSTANTS
    Requests,      \* calls of the client, each made once
    NoReq,
    NoResult,
    Events,        \* the events of the sketch, numbers in ascending order
    PageSize,      \* events in a page of an explore query
    Sizes,         \* sizes of files to upload
    ChunkSize,     \* uploadChunkSize
    MaxExpiries,   \* bound on sessions the server drops
    MaxStars,      \* bound on events an analyst stars or unstars
    MaxFails,      \* bound on failing or unanswered calls
    MaxMishaps     \* bound on all of these together

Kinds   == {"list", "import", "upload", "validate"}
Calls   == {"list", "sketch", "explore", "upload", "login"}
Posts   == {"explore", "upload"}
Results == {"ok", "login", "refused", "error"}

ASSUME ClientAssumption ==
    /\ NoReq \notin Requests /\ NoResult \notin Results
    /\ Events \subseteq Nat /\ IsFiniteSet(Events) /\ Sizes \subseteq Nat
    /\ PageSize \in Nat \ {0} /\ ChunkSize \in Nat \ {0}
    /\ MaxExpiries \in Nat /\ MaxStars \in Nat /\ MaxFails \in Nat
    /\ MaxMishaps \in Nat

VARIABLES
    mu,         \* who holds the mutex
    loggedIn,
    csrfToken,  \* the session the token belongs to, 0: nobody's
    jar,        \* the session of the cookie, 0: none
    req,        \* the requests
    \* the server
    accepts,    \* whether the configured credentials are right
    session,    \* the live session, 0: none
    issued,     \* sessions so far
    starred,    \* starred events of the sketch
    stored,     \* chunks it took of each upload
    \* history
    disturbed,  \* requests that lost their session to another since they logged in
    moved,      \* requests during which the result set changed
    expiries, stars, fails

client == <<mu, loggedIn, csrfToken, jar>>
server == <<accepts, session, issued, starred, stored>>
hist   == <<disturbed, moved, expiries, stars, fails>>
vars   == <<client, req, server, hist>>

\* The elements of s after the first n, at most k of them.
Slice(s, n, k) == SubSeq(s, n + 1, IF n + k < Len(s) THEN n + k ELSE Len(s))

Idle == [kind |-> "list", pc |-> "idle", call |-> "list", retried |-> FALSE, tok |-> 0,
         cookie |-> 0, size |-> 0, index |-> 0, body |-> <<>>, got |-> <<>>, result |-> NoResult]

TypeOK ==
    /\ mu \in Requests \cup {NoReq}
    /\ loggedIn \in BOOLEAN /\ accepts \in BOOLEAN
    /\ {csrfToken, jar, session} \subseteq 0..issued
    /\ \A r \in Requests :
        /\ req[r].kind \in Kinds /\ req[r].call \in Calls
        /\ req[r].pc \in {"idle", "build", "ensure", "relogin", "post", "probe",
                          "rotate", "token", "send", "sent", "done"}
        /\ req[r].result \in Results \cup {NoResult}
        /\ (req[r].pc = "done") = (req[r].result # NoResult)
        /\ (req[r].pc \in {"post", "probe", "rotate"}) = (mu = r)
        /\ Range(req[r].got) \subseteq Events
        /\ req[r].index \in Nat
    /\ starred \subseteq Events
    /\ disturbed \subseteq Requests /\ moved \subseteq Requests

Init ==
    /\ mu = NoReq /\ loggedIn = FALSE /\ csrfToken = 0 /\ jar = 0
    /\ req = [r \in Requests |-> Idle]
    /\ accepts \in BOOLEAN /\ session = 0 /\ issued = 0
    /\ starred \in SUBSET Events
    /\ stored = [r \in Requests |-> <<>>]
    /\ disturbed = {} /\ moved = {} /\ expiries = 0 /\ stars = 0 /\ fails = 0

\* What a call remembers only until it ends is gone.
Over(q) == [q EXCEPT !.retried = FALSE, !.tok = 0, !.cookie = 0, !.body = <<>>]

At(r, pc)     == req[r].pc = pc
Running(r)    == req[r].pc \notin {"idle", "done"}
Underway(r)   == Running(r) /\ ~At(r, "build")   \* in a round trip
Become(r, q)  == req' = [req EXCEPT ![r] = q]
Go(r, pc)     == Become(r, [req[r] EXCEPT !.pc = pc])
End(r, res)   == Become(r, [Over(req[r]) EXCEPT !.pc = "done", !.result = res])

\* A new round trip: the session it finds is the one it relies on.
RoundTrip(r, q) ==
    /\ Become(r, [q EXCEPT !.pc = "ensure", !.retried = FALSE, !.tok = 0, !.cookie = 0])
    /\ disturbed' = disturbed \ {r}

-----------------------------------------------------------------------------
(* What callers ask for *)

\* fetchSketches: the sketches of the case form.
List(r) ==
    /\ At(r, "idle")
    /\ RoundTrip(r, [req[r] EXCEPT !.kind = "list", !.call = "list"])
    /\ UNCHANGED <<client, server, moved, expiries, stars, fails>>

\* EventImportTimesketch: GetSketch, then ExploreAll of its starred events.
Import(r) ==
    /\ At(r, "idle")
    /\ RoundTrip(r, [req[r] EXCEPT !.kind = "import", !.call = "sketch"])
    /\ UNCHANGED <<client, server, moved, expiries, stars, fails>>

\* Module.Run: uploads the evidence of a case that has a sketch.
Upload(r) ==
    \E size \in Sizes :
        /\ At(r, "idle")
        /\ RoundTrip(r, [req[r] EXCEPT !.kind = "upload", !.call = "login", !.size = size])
        /\ UNCHANGED <<client, server, moved, expiries, stars, fails>>

\* Module.Validate: only the login of a round trip.
Validate(r) ==
    /\ At(r, "idle")
    /\ RoundTrip(r, [req[r] EXCEPT !.kind = "validate", !.call = "login"])
    /\ UNCHANGED <<client, server, moved, expiries, stars, fails>>

-----------------------------------------------------------------------------
(* Sessions *)

\* Once there is a session, a call is made of it; opening the file follows Upload's login.
LoggedIn(r) ==
    \/ req[r].call # "login" /\ Go(r, "token")
    \/ /\ req[r].call = "login" /\ req[r].kind = "validate"
       /\ End(r, "ok")
    \/ /\ req[r].call = "login" /\ req[r].kind # "validate"
       /\ Become(r, [req[r] EXCEPT !.pc = "build", !.call = "upload"])

ensureSession(r) ==
    /\ At(r, "ensure") /\ mu = NoReq
    /\ \/ loggedIn /\ LoggedIn(r) /\ UNCHANGED mu
       \/ ~loggedIn /\ mu' = r /\ Go(r, "post")
    /\ UNCHANGED <<loggedIn, csrfToken, jar, server, hist>>

\* Wrong variant: logging in again without the mutex.
reloginUnlocked(r) ==
    /\ At(r, "relogin") /\ mu = NoReq
    /\ loggedIn' = FALSE
    /\ Go(r, "post")
    /\ UNCHANGED <<mu, csrfToken, jar, server, hist>>

relogin(r) ==
    /\ At(r, "relogin") /\ mu = NoReq
    /\ mu' = r /\ loggedIn' = FALSE
    /\ Go(r, "post")
    /\ UNCHANGED <<csrfToken, jar, server, hist>>

\* The server starts a new session: every other request loses its own.
NewSession(r) ==
    /\ issued' = issued + 1 /\ session' = issued + 1
    /\ disturbed' = (disturbed \cup {o \in Requests : Underway(o)}) \ {r}

login(r) ==
    /\ At(r, "post") /\ Go(r, "probe")
    /\ \/ accepts /\ NewSession(r) /\ jar' = issued + 1
       \/ ~accepts /\ UNCHANGED <<jar, issued, session, disturbed>>
    /\ UNCHANGED <<mu, loggedIn, csrfToken, accepts, starred, stored, moved, expiries, stars, fails>>

Live == jar # 0 /\ jar = session

\* Wrong variant: a failing login keeps the mutex.
probeKeepsLock(r) ==
    /\ At(r, "probe")
    /\ \/ Live /\ Go(r, "rotate")
       \/ ~Live /\ End(r, "login")
    /\ UNCHANGED <<client, server, hist>>

\* Bad credentials are answered like good ones, so the session is tried out.
probe(r) ==
    /\ At(r, "probe")
    /\ \/ Live /\ Go(r, "rotate") /\ UNCHANGED mu
       \/ ~Live /\ End(r, "login") /\ mu' = NoReq
    /\ UNCHANGED <<loggedIn, csrfToken, jar, server, hist>>

\* Wrong variant: the token of before the login is kept.
PageBefore == csrfToken

\* The page shows the token of the session the cookie names, if it is live.
Page == IF Live THEN jar ELSE 0

rotate(r) ==
    /\ At(r, "rotate")
    /\ csrfToken' = Page /\ loggedIn' = TRUE /\ mu' = NoReq
    /\ LoggedIn(r)
    /\ UNCHANGED <<jar, server, hist>>

-----------------------------------------------------------------------------
(* A call *)

token(r) ==
    /\ At(r, "token") /\ mu = NoReq
    /\ Become(r, [req[r] EXCEPT !.pc = "send", !.tok = csrfToken])
    /\ UNCHANGED <<client, server, hist>>

\* The request leaves with the cookie the jar holds now.
send(r) ==
    /\ At(r, "send")
    /\ Become(r, [req[r] EXCEPT !.pc = "sent", !.cookie = jar])
    /\ UNCHANGED <<client, server, hist>>

\* What the server sees when it arrives.
Known(r)      == req[r].cookie # 0 /\ req[r].cookie = session
Authorized(r) == Known(r) /\ (req[r].call \in Posts => req[r].tok = req[r].cookie)

\* 401 and 403 are tried again once; a stale token may also be a bad request.
Refused(r) ==
    /\ At(r, "sent") /\ ~Authorized(r)
    /\ \/ ~req[r].retried /\ Become(r, [req[r] EXCEPT !.pc = "relogin", !.retried = TRUE,
                                                             !.tok = 0, !.cookie = 0])
       \/ (req[r].retried \/ Known(r)) /\ End(r, "refused")
    /\ UNCHANGED <<client, server, hist>>

Ascending(s) == \A i, j \in DOMAIN s : i < j => s[i] < s[j]
Sorted(events) == CHOOSE s \in [1..Cardinality(events) -> events] : Ascending(s)

\* One page of the result set the server sees now.
Result == Sorted(starred)
PageAt(from) == Slice(Result, from, PageSize)
HasNext(from) == from + PageSize < Len(Result)

\* ListSketches and GetSketch; the import goes on to its first page.
Answered(r) ==
    /\ At(r, "sent") /\ Authorized(r)
    /\ \/ req[r].call = "list" /\ End(r, "ok") /\ UNCHANGED <<disturbed, moved>>
       \/ req[r].call = "sketch" /\ RoundTrip(r, [req[r] EXCEPT !.call = "explore"]) /\ moved' = moved \ {r}
    /\ UNCHANGED <<client, server, expiries, stars, fails>>

\* ExploreAll: the next page starts where the events received so far end.
NextFrom(r, page) == req[r].index + Len(page)

explore(r) ==
    /\ At(r, "sent") /\ req[r].call = "explore" /\ Authorized(r)
    /\ LET page == PageAt(req[r].index)
           got  == req[r].got \o page
       IN \/ /\ HasNext(req[r].index) /\ page # <<>>
             /\ RoundTrip(r, [req[r] EXCEPT !.got = got, !.index = NextFrom(r, page)])
          \/ /\ ~HasNext(req[r].index) \/ page = <<>>
             /\ Become(r, [Over(req[r]) EXCEPT !.pc = "done", !.result = "ok", !.got = got])
             /\ UNCHANGED disturbed
    /\ UNCHANGED <<client, server, moved, expiries, stars, fails>>

-----------------------------------------------------------------------------
(* Upload *)

File(size)   == [i \in 1..size |-> i]
\* Wrong variant: the last, shorter chunk is not counted.
ChunksFloor(size) == LET n == size \div ChunkSize IN IF n = 0 THEN 1 ELSE n

Chunks(size) == LET n == (size + ChunkSize - 1) \div ChunkSize IN IF n = 0 THEN 1 ELSE n

\* The next bytes of the file; a chunk that is sent again is not read again.
Build(r) ==
    LET q == req[r]
    IN /\ At(r, "build")
       /\ RoundTrip(r, [q EXCEPT !.body = Slice(File(q.size), q.index * ChunkSize, ChunkSize)])
       /\ UNCHANGED <<client, server, moved, expiries, stars, fails>>

Chunk(r) == [index |-> req[r].index, offset |-> req[r].index * ChunkSize,
             chunks |-> Chunks(req[r].size), total |-> req[r].size, data |-> req[r].body]
Take(r)  == stored' = [stored EXCEPT ![r] = Append(@, Chunk(r))]

Uploaded(r) ==
    /\ At(r, "sent") /\ req[r].call = "upload" /\ Authorized(r)
    /\ Take(r)
    /\ \/ req[r].index + 1 < Chunks(req[r].size)
          /\ Become(r, [Over(req[r]) EXCEPT !.pc = "build", !.index = @ + 1])
       \/ req[r].index + 1 = Chunks(req[r].size) /\ End(r, "ok")
    /\ disturbed' = disturbed \ {r}
    /\ UNCHANGED <<client, accepts, session, issued, starred, moved, expiries, stars, fails>>

-----------------------------------------------------------------------------
(* What goes wrong *)

Mishap == expiries + stars + fails < MaxMishaps

\* A call fails, is answered with another status, or times out.  What the server
\* was asked it may have done: the login, or the chunk.  Opening the file or reading
\* its next chunk may fail as well.
Lost(r) ==
    /\ fails < MaxFails /\ Mishap /\ fails' = fails + 1
    /\ \/ /\ At(r, "post") /\ accepts /\ NewSession(r)
          /\ UNCHANGED stored
       \/ /\ At(r, "sent") /\ req[r].call = "upload" /\ Authorized(r) /\ Take(r)
          /\ UNCHANGED <<issued, session, disturbed>>
       \/ /\ req[r].pc \in {"build", "post", "probe", "rotate", "sent"}
          /\ UNCHANGED <<issued, session, stored, disturbed>>
    /\ End(r, "error")
    /\ mu' = IF mu = r THEN NoReq ELSE mu
    /\ UNCHANGED <<loggedIn, csrfToken, jar, accepts, starred, moved, expiries, stars>>

\* The server drops the session.
Expire ==
    /\ session # 0 /\ expiries < MaxExpiries /\ Mishap
    /\ session' = 0 /\ expiries' = expiries + 1
    /\ disturbed' = disturbed \cup {r \in Requests : Underway(r)}
    /\ UNCHANGED <<client, req, accepts, issued, starred, stored, moved, stars, fails>>

\* Somebody stars or unstars an event in Timesketch.
Star ==
    \E e \in Events :
        /\ stars < MaxStars /\ Mishap /\ stars' = stars + 1
        /\ starred' = IF e \in starred THEN starred \ {e} ELSE starred \cup {e}
        /\ moved' = moved \cup {r \in Requests : req[r].call = "explore"}
        /\ UNCHANGED <<client, req, accepts, session, issued, stored, disturbed, expiries, fails>>

-----------------------------------------------------------------------------

Step(r) ==
    \/ ensureSession(r) \/ relogin(r) \/ login(r) \/ probe(r) \/ rotate(r)
    \/ token(r) \/ send(r) \/ Refused(r) \/ Answered(r) \/ explore(r)
    \/ Build(r) \/ Uploaded(r) \/ Lost(r)

Call(r) == List(r) \/ Import(r) \/ Upload(r) \/ Validate(r)

Next == Expire \/ Star \/ \E r \in Requests : Call(r) \/ Step(r)

\* A call ends: the HTTP client gives up after its timeout, and the mutex is handed
\* over in order.  Nobody has to call, and nothing has to go wrong.
Fairness == \A r \in Requests : WF_vars(Step(r))

Spec == Init /\ [][Next]_vars /\ Fairness

-----------------------------------------------------------------------------
(* Properties *)

\* With the right credentials a call is refused only to those whose session was taken
\* from them, by another's login or by the server, after their own last login: whoever
\* is alone outlives an expired session (roundtrip's one retry is enough).
LoneRequestsAreServed ==
    \A r \in Requests :
        accepts /\ req[r].result \in {"refused", "login"} => r \in disturbed

Joined(chunks) == FoldLeft(LAMBDA s, c : s \o c.data, <<>>, chunks)
Positions(r) == [i \in DOMAIN stored[r] |-> stored[r][i].index]

\* What arrives is whole: the last chunk of an upload, which starts the indexing, comes
\* after all others and each of them once, although a call is repeated after a login,
\* and an upload that succeeded has sent it; an import that succeeded has every starred
\* event once, in order, unless the starred events changed under it.
TransfersAreWhole ==
    \A r \in Requests :
        LET q == req[r]
            last == \E i \in DOMAIN stored[r] : stored[r][i].index + 1 = Chunks(q.size)
        IN /\ last => /\ Joined(stored[r]) = File(q.size)
                      /\ Positions(r) = [i \in 1..Chunks(q.size) |-> i - 1]
                      /\ \A i \in DOMAIN stored[r] :
                            stored[r][i].offset = Len(Joined(SubSeq(stored[r], 1, i - 1)))
           /\ q.kind = "upload" /\ q.result = "ok" => last
           /\ q.kind = "import" /\ q.result = "ok" /\ r \notin moved => q.got = Result

\* Every call ends, whatever the server does and whoever holds the mutex: each way out
\* of login gives it back.
RequestsEnd == \A r \in Requests : Running(r) ~> At(r, "done")
=============================================================================
