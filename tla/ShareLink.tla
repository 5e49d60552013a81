------------------------------ MODULE ShareLink ------------------------------
(***************************************************************************)
(* Short links: the CLI's upload with its fallback (cmd/melisai/share.go,  *)
(* internal/share/client.go), the HTTP handlers and the SQLite store of    *)
(* the share API (internal/shareapi), and the server process around them   *)
(* (cmd/melisai-share-api/main.go): startup deletion, retention sweeps,    *)
(* graceful shutdown.  The process may also crash at any time; rows it     *)
(* committed stay.  A client stands for the payload it uploads.  Time is   *)
(* counted in ticks, the store's created_at in whole seconds.              *)
(***************************************************************************)
EXTENDS Integers, Sequences, FiniteSets

CONSTANTS
    Clients,           \* runs of melisai share, one payload each
    Codes,             \* what GenerateCode can return
    BadCode,           \* a code ValidCode rejects
    NoCode,
    Bodies,            \* the kinds of body a client may send
    DeleteLists,       \* values of --delete-on-startup
    retryOnCollision,
    Retention,         \* --retention in ticks, 0 for never
    TicksPerSecond,
    MaxNow,            \* bound on the clock
    MaxBoots           \* bound on starts of the server

ASSUME CodesAssumption ==
    /\ BadCode \notin Codes
    /\ NoCode \notin Codes
    /\ \A list \in DeleteLists : list \in Seq(Codes \cup {BadCode})

ASSUME NumbersAssumption ==
    /\ retryOnCollision \in Nat
    /\ Retention \in Nat
    /\ TicksPerSecond \in Nat \ {0}
    /\ MaxNow \in Nat
    /\ MaxBoots \in Nat

ASSUME BodiesAssumption ==
    Bodies \subseteq {"good", "large", "broken", "empty", "notgzip", "invalid"}

VARIABLES
    srv,      \* the process: "down", "deleting", "serving", "draining"
    boot,     \* how often it was started
    list,     \* --delete-on-startup of this start
    left,     \* the part of it that startupDelete has left
    rows,     \* the reports table: code -> row
    client,   \* per client: "idle", "waiting", "short", "fragment", "failed"
    link,     \* per client: the code in the URL it printed
    handler,  \* per client: where handleCreate is
    body,     \* per client: the kind of body that reaches it
    attempt,  \* per client: the attempt of putWithRetry
    code,     \* per client: the code generated for it
    stamp,    \* per client: the time of the insert
    aborted,  \* clients that closed the connection: r.Context() is done
    sweep,    \* runRetention: "off", "wait", "delete"
    cutoff,   \* its cutoff during a sweep, in ticks
    now,
    gone      \* clients whose row was deleted

clients == <<client, link>>
handlers == <<handler, body, attempt, code, stamp>>
process == <<srv, boot, list, left>>
retention == <<sweep, cutoff>>
vars == <<process, rows, clients, handlers, aborted, retention, now, gone>>

NoRows == [k \in {} |-> 0]

Init ==
    /\ srv = "down" /\ boot = 0 /\ list = << >> /\ left = << >>
    /\ rows = NoRows
    /\ client = [c \in Clients |-> "idle"]
    /\ link = [c \in Clients |-> NoCode]
    /\ body = [c \in Clients |-> "none"]
    /\ handler = [c \in Clients |-> "none"]
    /\ attempt = [c \in Clients |-> 0]
    /\ code = [c \in Clients |-> NoCode]
    /\ stamp = [c \in Clients |-> 0]
    /\ aborted = {}
    /\ sweep = "off" /\ cutoff = 0
    /\ now = 0
    /\ gone = {}
-----------------------------------------------------------------------------
(* The store. *)

\* time.Time.Unix() of a tick.
Unix(tick) == tick \div TicksPerSecond

Insert(k, row) == [j \in DOMAIN rows \cup {k} |-> IF j = k THEN row ELSE rows[j]]

Delete(ks) ==
    /\ rows' = [j \in DOMAIN rows \ ks |-> rows[j]]
    /\ gone' = gone \cup {rows[k].owner : k \in ks \cap DOMAIN rows}

\* Faulty variant: created_at <= cutoff.
OlderOrEqual(t) == {k \in DOMAIN rows : rows[k].created_at <= Unix(t)}

Older(t) == {k \in DOMAIN rows : rows[k].created_at < Unix(t)}
-----------------------------------------------------------------------------
(* The CLI. *)

\* Upload posts the payload; the server accepts connections only when it serves.
Post(c, b) ==
    /\ client[c] = "idle"
    /\ client' = [client EXCEPT ![c] = "waiting"]
    /\ IF srv = "serving"
       THEN /\ handler' = [handler EXCEPT ![c] = "receive"]
            /\ body' = [body EXCEPT ![c] = b]
       ELSE UNCHANGED <<handler, body>>
    /\ UNCHANGED <<process, rows, link, attempt, code, stamp, aborted, retention, now, gone>>

\* Without a short link the command prints a fragment URL, or fails: --base-url is no
\* http URL with a host, or the payload does not encode.
BuildURL(c) == \E end \in {"fragment", "failed"} : client' = [client EXCEPT ![c] = end]

\* --offline, or Upload fails without an answer: the refused or broken connection,
\* the timeout.  The request's context is done on the server.
UploadFails(c) ==
    /\ client[c] \in {"idle", "waiting"}
    /\ BuildURL(c)
    /\ aborted' = aborted \cup {c}
    /\ UNCHANGED <<process, rows, link, handlers, retention, now, gone>>
-----------------------------------------------------------------------------
(* handleCreate *)

\* A handler that returns, or ends with the process, has no variables any more.
Forget(cs) ==
    /\ body' = [c \in Clients |-> IF c \in cs THEN "none" ELSE body[c]]
    /\ attempt' = [c \in Clients |-> IF c \in cs THEN 0 ELSE attempt[c]]
    /\ code' = [c \in Clients |-> IF c \in cs THEN NoCode ELSE code[c]]
    /\ stamp' = [c \in Clients |-> IF c \in cs THEN 0 ELSE stamp[c]]

\* The body is too large, cannot be read, is empty, is no gzip or no payload.
Reject(c) ==
    /\ handler[c] = "receive"
    /\ body[c] # "good" \/ c \in aborted
    /\ handler' = [handler EXCEPT ![c] = "error"]
    /\ UNCHANGED <<process, rows, clients, body, attempt, code, stamp, aborted, retention, now, gone>>

Accept(c) ==
    /\ handler[c] = "receive"
    /\ body[c] = "good"
    /\ handler' = [handler EXCEPT ![c] = "generate"]
    /\ attempt' = [attempt EXCEPT ![c] = 0]
    /\ UNCHANGED <<process, rows, clients, body, code, stamp, aborted, retention, now, gone>>

\* The head of the loop of putWithRetry: a fresh code and the time of the insert.
GenerateCode(c, k) ==
    /\ handler[c] = "generate"
    /\ attempt[c] < retryOnCollision
    /\ c \notin aborted
    /\ code' = [code EXCEPT ![c] = k]
    /\ stamp' = [stamp EXCEPT ![c] = now]
    /\ handler' = [handler EXCEPT ![c] = "put"]
    /\ UNCHANGED <<process, rows, clients, body, attempt, aborted, retention, now, gone>>

\* The retries are exhausted, the context is done, or there is no randomness.
GiveUp(c) ==
    /\ handler[c] = "generate"
    /\ handler' = [handler EXCEPT ![c] = "error"]
    /\ UNCHANGED <<process, rows, clients, body, attempt, code, stamp, aborted, retention, now, gone>>

\* Faulty variant: INSERT OR REPLACE.
PutReplaces(c) ==
    /\ handler[c] = "put"
    /\ rows' = Insert(code[c], [owner |-> c, created_at |-> Unix(stamp[c]),
                                tick |-> stamp[c], boot |-> boot])
    /\ handler' = [handler EXCEPT ![c] = "created"]
    /\ UNCHANGED <<process, clients, body, attempt, code, stamp, aborted, retention, now, gone>>

\* Faulty variant: the loop of putWithRetry goes on after a successful insert.
PutGoesOn(c) ==
    /\ handler[c] = "put"
    /\ code[c] \notin DOMAIN rows
    /\ rows' = Insert(code[c], [owner |-> c, created_at |-> Unix(stamp[c]),
                                tick |-> stamp[c], boot |-> boot])
    /\ attempt' = [attempt EXCEPT ![c] = @ + 1]
    /\ handler' = [handler EXCEPT ![c] = "generate"]
    /\ UNCHANGED <<process, clients, body, code, stamp, aborted, retention, now, gone>>

\* INSERT; the single writer connection makes inserts and deletes atomic.
Put(c) ==
    /\ handler[c] = "put"
    /\ code[c] \notin DOMAIN rows
    /\ rows' = Insert(code[c], [owner |-> c, created_at |-> Unix(stamp[c]),
                                tick |-> stamp[c], boot |-> boot])
    /\ handler' = [handler EXCEPT ![c] = "created"]
    /\ UNCHANGED <<process, clients, body, attempt, code, stamp, aborted, retention, now, gone>>

\* ErrCodeExists: try the next code.
Collide(c) ==
    /\ handler[c] = "put"
    /\ code[c] \in DOMAIN rows
    /\ attempt' = [attempt EXCEPT ![c] = @ + 1]
    /\ handler' = [handler EXCEPT ![c] = "generate"]
    /\ UNCHANGED <<process, rows, clients, body, code, stamp, aborted, retention, now, gone>>

\* Any other error of the insert: nothing is stored and nothing is retried.  (An
\* insert that commits while its context ends is Put: nobody reads the answer.)
PutFails(c) ==
    /\ handler[c] = "put"
    /\ handler' = [handler EXCEPT ![c] = "error"]
    /\ UNCHANGED <<process, rows, clients, body, attempt, code, stamp, aborted, retention, now, gone>>

\* The response reaches a client that still waits: 201 with the URL, or an error
\* after which it falls back.
Respond(c) ==
    /\ handler[c] \in {"created", "error"}
    /\ handler' = [handler EXCEPT ![c] = "none"]
    /\ Forget({c})
    /\ IF client[c] # "waiting" THEN UNCHANGED <<client, link>>
       ELSE IF handler[c] = "created"
       THEN /\ client' = [client EXCEPT ![c] = "short"]
            /\ link' = [link EXCEPT ![c] = code[c]]
       ELSE BuildURL(c) /\ UNCHANGED link
    /\ UNCHANGED <<process, rows, aborted, retention, now, gone>>

\* handleFetch: the client whose payload is returned, or the error.
handleFetch(k) ==
    IF k \notin Codes THEN "invalid code format"
    ELSE IF k \notin DOMAIN rows THEN "share code not found"
    ELSE rows[k].owner
-----------------------------------------------------------------------------
(* The server process. *)

Boot(codes) ==
    /\ srv = "down"
    /\ boot < MaxBoots
    /\ boot' = boot + 1
    /\ srv' = "deleting"
    /\ list' = codes
    /\ left' = codes
    /\ UNCHANGED <<rows, clients, handlers, aborted, retention, now, gone>>

\* One turn of the loop of startupDelete.
DeleteNext ==
    /\ srv = "deleting"
    /\ left # << >>
    /\ Head(left) # BadCode
    /\ Delete({Head(left)})
    /\ left' = Tail(left)
    /\ UNCHANGED <<srv, boot, list, clients, handlers, aborted, retention, now>>

\* The process ends: an invalid code in the list, a store that does not open, a
\* listen error, a shutdown that takes more than 10s, or a crash.  Handlers and the
\* retention goroutine end with it.
Stop ==
    /\ srv # "down"
    /\ srv' = "down"
    /\ handler' = [c \in Clients |-> "none"]
    /\ Forget(Clients)
    /\ left' = << >>
    /\ cutoff' = 0
    /\ sweep' = "off"
    /\ UNCHANGED <<boot, list, rows, clients, aborted, now, gone>>

\* Faulty variant: the server listens while startupDelete is still at work.
ServeEarly ==
    /\ srv = "deleting"
    /\ srv' = "serving"
    /\ sweep' = IF Retention > 0 THEN "delete" ELSE "off"
    /\ cutoff' = now - Retention
    /\ UNCHANGED <<boot, list, left, rows, clients, handlers, aborted, now, gone>>

\* ListenAndServe, and runRetention with its first sweep.
Serve ==
    /\ srv = "deleting"
    /\ left = << >>
    /\ srv' = "serving"
    /\ sweep' = IF Retention > 0 THEN "delete" ELSE "off"
    /\ cutoff' = now - Retention
    /\ UNCHANGED <<boot, list, left, rows, clients, handlers, aborted, now, gone>>

\* SIGTERM: httpSrv.Shutdown accepts nothing new and waits for the handlers.
Shutdown ==
    /\ srv = "serving"
    /\ srv' = "draining"
    /\ UNCHANGED <<boot, list, left, rows, clients, handlers, aborted, retention, now, gone>>

ShutdownReturns ==
    /\ srv = "draining"
    /\ \A c \in Clients : handler[c] = "none"
    /\ Stop
-----------------------------------------------------------------------------
(* runRetention *)

\* The ticker fires: compute the cutoff.  The clock may move before the DELETE.
StartSweep ==
    /\ sweep = "wait"
    /\ srv = "serving"
    /\ cutoff' = now - Retention
    /\ sweep' = "delete"
    /\ UNCHANGED <<process, rows, clients, handlers, aborted, now, gone>>

\* Faulty variant: one sweep at startup and no ticker loop.
DeleteOlderThanOnce ==
    /\ sweep = "delete"
    /\ Delete(Older(cutoff))
    /\ sweep' = "off"
    /\ UNCHANGED <<process, clients, handlers, aborted, cutoff, now>>

DeleteOlderThan ==
    /\ sweep = "delete"
    /\ Delete(Older(cutoff))
    /\ sweep' = "wait"
    /\ cutoff' = 0
    /\ UNCHANGED <<process, clients, handlers, aborted, now>>

\* The DELETE fails, as it does when the context ends: log and wait.
SweepFails ==
    /\ sweep = "delete"
    /\ sweep' = "wait"
    /\ cutoff' = 0
    /\ UNCHANGED <<process, rows, clients, handlers, aborted, now, gone>>

Tick ==
    /\ now < MaxNow
    /\ now' = now + 1
    /\ UNCHANGED <<process, rows, clients, handlers, aborted, retention, gone>>
-----------------------------------------------------------------------------
Next ==
    \/ \E c \in Clients :
          \/ \E b \in Bodies : Post(c, b)
          \/ UploadFails(c)
          \/ Reject(c)
          \/ Accept(c)
          \/ \E k \in Codes : GenerateCode(c, k)
          \/ GiveUp(c)
          \/ Put(c)
          \/ Collide(c)
          \/ PutFails(c)
          \/ Respond(c)
    \/ \E codes \in DeleteLists : Boot(codes)
    \/ DeleteNext
    \/ Stop
    \/ Serve
    \/ Shutdown
    \/ ShutdownReturns
    \/ StartSweep
    \/ DeleteOlderThan
    \/ SweepFails
    \/ Tick

\* The retention goroutine: its ticker fires, and a DELETE that is tried again and
\* again succeeds once.
Fairness ==
    /\ WF_vars(StartSweep)
    /\ WF_vars(DeleteOlderThan \/ SweepFails)
    /\ SF_vars(DeleteOlderThan)

Spec == Init /\ [][Next]_vars /\ Fairness
-----------------------------------------------------------------------------
(* Properties. *)

\* A short link that was printed leads to the payload it was printed for, until
\* that row is swept or taken down; no crash, collision or concurrent upload may
\* lead it elsewhere.
LinkResolves ==
    \A c \in Clients : client[c] = "short" /\ c \notin gone => handleFetch(link[c]) = c

\* Retries never store a payload twice.
StoredOnce ==
    \A k, j \in DOMAIN rows : rows[k].owner = rows[j].owner => k = j

\* While the server answers requests, nothing that was stored before its start is
\* left under a code of its --delete-on-startup list.
TakedownEffective ==
    srv \in {"serving", "draining"} =>
        \A i \in 1..Len(list) : list[i] \in DOMAIN rows => rows[list[i]].boot = boot

\* Apart from takedowns a row disappears only when its age exceeds the retention,
\* although created_at and the cutoff are cut to whole seconds.
NoEarlyExpiry ==
    [][\A k \in DOMAIN rows \ DOMAIN rows' :
          srv = "deleting" \/ now - rows[k].tick > Retention]_vars

\* The server answered the upload with an error.
Refused(c) == client[c] \in {"fragment", "failed"} /\ c \notin aborted

\* A client that was refused has nothing in the table, then or later: no error is
\* answered once the insert has committed, and no handler goes on after its answer.
\* (After a timeout the payload may well be stored, and no link leads to it.)
RefusedNotStored ==
    \A c \in Clients : Refused(c) =>
        c \notin gone /\ \A k \in DOMAIN rows : rows[k].owner # c

Expired(c) ==
    \E k \in DOMAIN rows : /\ rows[k].owner = c
                           /\ rows[k].created_at < Unix(now - Retention)

\* A server that stays up drops every expired row, also the ones no link was ever
\* printed for because the client gave up first.
ExpiredSwept ==
    \A c \in Clients : Retention > 0 /\ srv = "serving" /\ Expired(c)
                          ~> ~Expired(c) \/ srv # "serving"
=============================================================================
