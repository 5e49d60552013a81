--------------------------- MODULE ShareLinkProofs ---------------------------
(* Proofs about ShareLink for any clients, codes, takedown lists, retention and *)
(* resolution of the store's timestamps.                                        *)
EXTENDS ShareLink, TLAPS

Row == [owner : Clients, created_at : Int, tick : Int, boot : Int]

TypeInv ==
    /\ srv \in {"down", "deleting", "serving", "draining"}
    /\ boot \in Nat
    /\ list \in Seq(Codes \cup {BadCode})
    /\ left \in Seq(Codes \cup {BadCode})
    /\ DOMAIN rows \subseteq Codes
    /\ rows \in [DOMAIN rows -> Row]
    /\ client \in [Clients -> {"idle", "waiting", "short", "fragment", "failed"}]
    /\ link \in [Clients -> Codes \cup {NoCode}]
    /\ handler \in [Clients -> {"none", "receive", "generate", "put", "created", "error"}]
    /\ code \in [Clients -> Codes \cup {NoCode}]
    /\ stamp \in [Clients -> Nat]
    /\ sweep \in {"off", "wait", "delete"}
    /\ cutoff \in Int
    /\ now \in Nat

\* Only a serving or draining server has handlers, and only for a client that has
\* posted.
HandlersSound ==
    /\ srv \in {"down", "deleting"} => \A c \in Clients : handler[c] = "none"
    /\ \A c \in Clients : handler[c] # "none" => client[c] # "idle"

\* putWithRetry inserts a code it has generated.
CodeReady == \A c \in Clients : handler[c] = "put" => code[c] \in Codes

\* A client whose payload is or was in the table has a handler that is past the
\* insert, or none any more.
InsertedOnce ==
    \A c \in Clients :
        (\E k \in DOMAIN rows : rows[k].owner = c) \/ c \in gone =>
            handler[c] \in {"none", "created"} /\ client[c] # "idle"

\* The code in a 201 response leads to the payload it answers.
CreatedResolves ==
    \A c \in Clients : handler[c] = "created" /\ c \notin gone =>
        code[c] \in DOMAIN rows /\ rows[code[c]].owner = c

PrintedResolves ==
    \A c \in Clients : client[c] = "short" /\ c \notin gone =>
        link[c] \in DOMAIN rows /\ rows[link[c]].owner = c

LInv ==
    /\ TypeInv
    /\ HandlersSound
    /\ CodeReady
    /\ InsertedOnce
    /\ StoredOnce
    /\ CreatedResolves
    /\ PrintedResolves
-----------------------------------------------------------------------------
(* The table. *)

\* An insert under a free code adds one row and leaves the others alone.
LEMMA InsertRow ==
    ASSUME TypeInv, NEW c \in Clients, Put(c), CodeReady
    PROVE  /\ code[c] \in Codes \ DOMAIN rows
           /\ DOMAIN rows' = DOMAIN rows \cup {code[c]}
           /\ rows'[code[c]] = [owner |-> c, created_at |-> Unix(stamp[c]),
                                tick |-> stamp[c], boot |-> boot]
           /\ \A k \in DOMAIN rows : rows'[k] = rows[k]
           /\ rows' \in [DOMAIN rows' -> Row]
<1>1. code[c] \in Codes \ DOMAIN rows
  BY DEF Put, CodeReady, TypeInv
<1>2. Unix(stamp[c]) \in Int /\ stamp[c] \in Int /\ boot \in Int
  BY NumbersAssumption DEF Unix, TypeInv
<1>3. rows' = Insert(code[c], [owner |-> c, created_at |-> Unix(stamp[c]),
                               tick |-> stamp[c], boot |-> boot])
  BY DEF Put
<1>4. QED
  BY <1>1, <1>2, <1>3 DEF Insert, TypeInv, Row

\* A delete takes rows away, leaves the others alone and remembers their owners.
LEMMA DeleteRows ==
    ASSUME TypeInv, NEW ks, Delete(ks)
    PROVE  /\ DOMAIN rows' = DOMAIN rows \ ks
           /\ \A k \in DOMAIN rows' : rows'[k] = rows[k]
           /\ rows' \in [DOMAIN rows' -> Row]
           /\ gone \subseteq gone'
           /\ \A k \in DOMAIN rows : k \in ks => rows[k].owner \in gone'
           /\ \A c \in gone' : c \in gone \/ \E k \in DOMAIN rows : rows[k].owner = c
  BY DEF Delete, TypeInv
-----------------------------------------------------------------------------
(* Links. *)

\* An empty table, nobody served: nothing to break.
LEMMA InitLInv == Init => LInv
<1> SUFFICES ASSUME Init PROVE LInv
  OBVIOUS
<1>1. DOMAIN rows = {} /\ rows \in [DOMAIN rows -> Row]
  BY DEF Init, NoRows
<1>2. TypeInv
  BY <1>1 DEF Init, TypeInv
<1>3. QED
  BY <1>1, <1>2 DEF Init, LInv, HandlersSound, CodeReady, InsertedOnce, StoredOnce,
                    CreatedResolves, PrintedResolves

\* The steps of the command line.
LEMMA ClientStep ==
    ASSUME LInv, NEW c \in Clients,
           (\E b \in Bodies : Post(c, b)) \/ UploadFails(c)
    PROVE  LInv'
<1> USE DEF LInv, handlers, process, retention
<1>1. ASSUME NEW b \in Bodies, Post(c, b)
      PROVE  LInv'
  <2>1. TypeInv'
    BY <1>1 DEF Post, TypeInv
  <2>2. HandlersSound' /\ CodeReady'
    BY <1>1 DEF Post, TypeInv, HandlersSound, CodeReady
  <2>3. InsertedOnce' /\ StoredOnce'
    BY <1>1 DEF Post, TypeInv, InsertedOnce, StoredOnce
  <2>4. CreatedResolves' /\ PrintedResolves'
    BY <1>1 DEF Post, TypeInv, CreatedResolves, PrintedResolves
  <2>5. QED
    BY <2>1, <2>2, <2>3, <2>4
<1>2. CASE UploadFails(c)
  <2>1. TypeInv'
    BY <1>2 DEF UploadFails, BuildURL, TypeInv
  <2>2. HandlersSound' /\ CodeReady'
    BY <1>2 DEF UploadFails, BuildURL, TypeInv, HandlersSound, CodeReady
  <2>3. InsertedOnce' /\ StoredOnce'
    BY <1>2 DEF UploadFails, BuildURL, TypeInv, InsertedOnce, StoredOnce
  <2>4. CreatedResolves' /\ PrintedResolves'
    BY <1>2 DEF UploadFails, BuildURL, TypeInv, CreatedResolves, PrintedResolves
  <2>5. QED
    BY <2>1, <2>2, <2>3, <2>4
<1>3. QED
  BY <1>1, <1>2

\* A handler on its way to the insert or to an error, which writes no row.
LEMMA HandlerStep ==
    ASSUME LInv, NEW c \in Clients,
           \/ Reject(c) \/ Accept(c) \/ (\E k \in Codes : GenerateCode(c, k))
           \/ GiveUp(c) \/ Collide(c) \/ PutFails(c)
    PROVE  LInv'
<1> USE DEF LInv, clients, process, retention
<1>1. /\ handler[c] \in {"receive", "generate", "put"}
      /\ \E h \in {"generate", "put", "error"} : handler' = [handler EXCEPT ![c] = h]
      /\ UNCHANGED <<process, rows, clients, retention, now, gone>>
  BY DEF Reject, Accept, GenerateCode, GiveUp, Collide, PutFails
<1>2. /\ code' = code /\ stamp' = stamp /\ handler'[c] # "put"
      \/ \E k \in Codes : /\ code' = [code EXCEPT ![c] = k]
                           /\ stamp' = [stamp EXCEPT ![c] = now]
  BY DEF Reject, Accept, GenerateCode, GiveUp, Collide, PutFails, TypeInv
<1>3. TypeInv'
  <2>1. handler' \in [Clients -> {"none", "receive", "generate", "put", "created", "error"}]
    BY <1>1 DEF TypeInv
  <2>2. code' \in [Clients -> Codes \cup {NoCode}] /\ stamp' \in [Clients -> Nat]
    BY <1>2 DEF TypeInv
  <2>3. QED
    BY <1>1, <2>1, <2>2 DEF TypeInv
<1>4. HandlersSound' /\ CodeReady'
  BY <1>1, <1>2 DEF TypeInv, HandlersSound, CodeReady
<1>5. InsertedOnce' /\ StoredOnce'
  BY <1>1 DEF TypeInv, InsertedOnce, StoredOnce
<1>6. CreatedResolves' /\ PrintedResolves'
  BY <1>1, <1>2 DEF TypeInv, CreatedResolves, PrintedResolves
<1>7. QED
  BY <1>3, <1>4, <1>5, <1>6

\* The insert: the one place where a row comes from.
LEMMA PutStep ==
    ASSUME LInv, NEW c \in Clients, Put(c)
    PROVE  LInv'
<1> USE DEF LInv, clients, process, retention
<1>1. /\ handler[c] = "put"
      /\ handler' = [handler EXCEPT ![c] = "created"]
      /\ UNCHANGED <<process, clients, code, stamp, retention, now, gone>>
  BY DEF Put
<1>2. /\ code[c] \in Codes \ DOMAIN rows
      /\ DOMAIN rows' = DOMAIN rows \cup {code[c]}
      /\ rows'[code[c]].owner = c
      /\ \A k \in DOMAIN rows : rows'[k] = rows[k]
      /\ rows' \in [DOMAIN rows' -> Row]
  <2>1. TypeInv /\ CodeReady
    OBVIOUS
  <2>2. rows'[code[c]] = [owner |-> c, created_at |-> Unix(stamp[c]),
                          tick |-> stamp[c], boot |-> boot]
    BY <2>1, InsertRow
  <2>3. QED
    BY <2>1, <2>2, InsertRow
<1>3. TypeInv'
  BY <1>1, <1>2 DEF TypeInv
<1>4. HandlersSound' /\ CodeReady'
  BY <1>1 DEF TypeInv, HandlersSound, CodeReady
<1>5. c \notin gone /\ \A k \in DOMAIN rows : rows[k].owner # c
  BY <1>1 DEF InsertedOnce
<1>6. InsertedOnce'
  <2>1. handler'[c] = "created" /\ \A d \in Clients \ {c} : handler'[d] = handler[d]
    BY <1>1 DEF TypeInv
  <2>2. client[c] # "idle" /\ client' = client
    BY <1>1 DEF HandlersSound
  <2>3. \A d \in Clients \ {c} : (\E k \in DOMAIN rows' : rows'[k].owner = d)
                                  => \E k \in DOMAIN rows : rows[k].owner = d
    BY <1>2
  <2>4. QED
    BY <1>1, <2>1, <2>2, <2>3 DEF InsertedOnce
<1>7. StoredOnce'
  BY <1>2, <1>5 DEF StoredOnce
<1>8. CreatedResolves' /\ PrintedResolves'
  BY <1>1, <1>2 DEF TypeInv, CreatedResolves, PrintedResolves
<1>9. QED
  BY <1>4, <1>6, <1>7, <1>8, <1>3

\* The response: the link that is printed is the code that was inserted.
LEMMA RespondStep ==
    ASSUME LInv, NEW c \in Clients, Respond(c)
    PROVE  LInv'
<1> USE DEF LInv, process, retention
<1>1. TypeInv'
  BY DEF Respond, Forget, BuildURL, TypeInv
<1>2. HandlersSound' /\ CodeReady'
  BY DEF Respond, Forget, BuildURL, TypeInv, HandlersSound, CodeReady
<1>3. InsertedOnce' /\ StoredOnce'
  BY DEF Respond, Forget, BuildURL, TypeInv, InsertedOnce, StoredOnce
<1>4. CreatedResolves'
  BY DEF Respond, Forget, BuildURL, TypeInv, CreatedResolves
<1>5. PrintedResolves'
  <2>1. \A d \in Clients \ {c} : client'[d] = client[d] /\ link'[d] = link[d]
    BY DEF Respond, BuildURL, TypeInv
  <2>2. client'[c] = "short" =>
           \/ client[c] = "short" /\ link'[c] = link[c]
           \/ handler[c] = "created" /\ link'[c] = code[c]
    BY DEF Respond, Forget, BuildURL, TypeInv
  <2>3. UNCHANGED <<rows, gone>>
    BY DEF Respond
  <2>4. QED
    BY <2>1, <2>2, <2>3 DEF CreatedResolves, PrintedResolves
<1>6. QED
  BY <1>1, <1>2, <1>3, <1>4, <1>5

\* A takedown or a sweep: the owners of what it removes are gone.
LEMMA DeleteStep ==
    ASSUME LInv, NEW ks, Delete(ks), TypeInv', UNCHANGED <<srv, clients, handlers>>
    PROVE  LInv'
<1> USE DEF LInv, clients, handlers
<1>1. HandlersSound' /\ CodeReady'
  BY DEF HandlersSound, CodeReady
<1>2. InsertedOnce'
  BY DeleteRows DEF InsertedOnce
<1>3. /\ DOMAIN rows' = DOMAIN rows \ ks
      /\ \A k \in DOMAIN rows' : rows'[k] = rows[k]
      /\ gone \subseteq gone'
      /\ \A k \in DOMAIN rows : k \in ks => rows[k].owner \in gone'
  BY DeleteRows
<1>4. StoredOnce'
  BY <1>3 DEF StoredOnce
<1>5. CreatedResolves' /\ PrintedResolves'
  BY <1>3 DEF CreatedResolves, PrintedResolves
<1>6. QED
  BY <1>1, <1>2, <1>4, <1>5

\* Nobody's request and nobody's row: the handlers stay, or all of them end.
LEMMA ProcessStep ==
    ASSUME LInv, TypeInv', UNCHANGED <<rows, clients, gone>>,
           \/ UNCHANGED <<handler, code>> /\ (srv' \in {"down", "deleting"} => srv \in {"down", "deleting"})
           \/ handler' = [c \in Clients |-> "none"]
    PROVE  LInv'
<1> USE DEF LInv, clients
<1>1. HandlersSound' /\ CodeReady'
  BY DEF HandlersSound, CodeReady, TypeInv
<1>2. InsertedOnce' /\ StoredOnce'
  BY DEF InsertedOnce, StoredOnce
<1>3. CreatedResolves' /\ PrintedResolves'
  BY DEF CreatedResolves, PrintedResolves
<1>4. QED
  BY <1>1, <1>2, <1>3

\* Every step keeps the links.
LEMMA StepLInv == LInv /\ [Next]_vars => LInv'
<1> SUFFICES ASSUME LInv, [Next]_vars PROVE LInv'
  OBVIOUS
<1> USE DEF clients, handlers, process, retention
<1>1. ASSUME NEW c \in Clients,
             \/ \E b \in Bodies : Post(c, b)
             \/ UploadFails(c) \/ Reject(c) \/ Accept(c)
             \/ \E k \in Codes : GenerateCode(c, k)
             \/ GiveUp(c) \/ Put(c) \/ Collide(c) \/ PutFails(c) \/ Respond(c)
      PROVE  LInv'
  BY <1>1, ClientStep, HandlerStep, PutStep, RespondStep
<1>2. ASSUME NEW codes \in DeleteLists, Boot(codes)
      PROVE  LInv'
  <2>1. TypeInv'
    BY <1>2, CodesAssumption DEF Boot, TypeInv, LInv
  <2>2. QED
    BY <1>2, <2>1, ProcessStep DEF Boot
<1>3. CASE DeleteNext
  <2>1. Delete({Head(left)})
    BY <1>3 DEF DeleteNext
  <2>2. TypeInv'
    <3>1. left' \in Seq(Codes \cup {BadCode})
      BY <1>3 DEF DeleteNext, TypeInv, LInv
    <3>2. DOMAIN rows' \subseteq Codes /\ rows' \in [DOMAIN rows' -> Row]
      BY <2>1, DeleteRows DEF LInv, TypeInv
    <3>3. QED
      BY <1>3, <3>1, <3>2 DEF DeleteNext, TypeInv, LInv
  <2>3. QED
    BY <1>3, <2>1, <2>2, DeleteStep DEF DeleteNext
<1>4. CASE Stop \/ ShutdownReturns
  <2>1. Stop
    BY <1>4 DEF ShutdownReturns
  <2>2. TypeInv'
    BY <2>1 DEF Stop, Forget, TypeInv, LInv
  <2>3. QED
    BY <2>1, <2>2, ProcessStep DEF Stop
<1>5. CASE Serve
  <2>1. TypeInv'
    BY <1>5, NumbersAssumption DEF Serve, TypeInv, LInv
  <2>2. QED
    BY <1>5, <2>1, ProcessStep DEF Serve
<1>6. CASE Shutdown
  <2>1. TypeInv'
    BY <1>6 DEF Shutdown, TypeInv, LInv
  <2>2. QED
    BY <1>6, <2>1, ProcessStep DEF Shutdown
<1>7. CASE StartSweep
  <2>1. TypeInv'
    BY <1>7, NumbersAssumption DEF StartSweep, TypeInv, LInv
  <2>2. QED
    BY <1>7, <2>1, ProcessStep DEF StartSweep
<1>8. CASE DeleteOlderThan
  <2>1. Delete(Older(cutoff))
    BY <1>8 DEF DeleteOlderThan
  <2>2. DOMAIN rows' \subseteq Codes /\ rows' \in [DOMAIN rows' -> Row]
    BY <2>1, DeleteRows DEF LInv, TypeInv
  <2>3. TypeInv'
    BY <1>8, <2>2 DEF DeleteOlderThan, TypeInv, LInv
  <2>4. QED
    BY <1>8, <2>1, <2>3, DeleteStep DEF DeleteOlderThan
<1>9. CASE SweepFails
  <2>1. TypeInv'
    BY <1>9 DEF SweepFails, TypeInv, LInv
  <2>2. QED
    BY <1>9, <2>1, ProcessStep DEF SweepFails
<1>10. CASE Tick
  <2>1. TypeInv'
    BY <1>10 DEF Tick, TypeInv, LInv
  <2>2. QED
    BY <1>10, <2>1, ProcessStep DEF Tick
<1>11. CASE UNCHANGED vars
  <2>1. TypeInv'
    BY <1>11 DEF vars, TypeInv, LInv
  <2>2. QED
    BY <1>11, <2>1, ProcessStep DEF vars
<1>12. QED
  BY <1>1, <1>2, <1>3, <1>4, <1>5, <1>6, <1>7, <1>8, <1>9, <1>10, <1>11 DEF Next

\* The invariant about handlers, rows and links holds of every reachable state.
THEOREM LinksInvariant == Spec => []LInv
<1>1. QED
  BY InitLInv, StepLInv, PTL DEF Spec

\* However many clients upload, collide, time out and are swept, and whenever the
\* server crashes: a printed link leads to its own payload or the row was deleted.
THEOREM LinksResolve == Spec => []LinkResolves
<1>1. LInv => LinkResolves
  BY DEF LInv, TypeInv, PrintedResolves, LinkResolves, handleFetch
<1>2. QED
  BY <1>1, LinksInvariant, PTL

\* No retry, crash or collision of codes stores a payload under two codes.
THEOREM PayloadsStoredOnce == Spec => []StoredOnce
<1>1. LInv => StoredOnce
  BY DEF LInv
<1>2. QED
  BY <1>1, LinksInvariant, PTL
-----------------------------------------------------------------------------
(* Refusals. *)

\* A refused client has no handler either that could still store its payload.
RefusedDone ==
    \A c \in Clients : Refused(c) =>
        /\ handler[c] = "none"
        /\ c \notin gone
        /\ \A k \in DOMAIN rows : rows[k].owner # c

RInv == LInv /\ RefusedDone

\* A step after which every refused client was refused before, or was answered with
\* the error just now, and that stores nothing for a client without a handler.
LEMMA RefusedStays ==
    ASSUME RInv,
           \A c \in Clients : Refused(c)' =>
               (Refused(c) \/ handler[c] = "error") /\ handler'[c] = "none",
           \A k \in DOMAIN rows' :
               \/ k \in DOMAIN rows /\ rows'[k].owner = rows[k].owner
               \/ handler[rows'[k].owner] = "put",
           \A c \in gone' : c \in gone \/ \E k \in DOMAIN rows : rows[k].owner = c
    PROVE  RefusedDone'
<1> SUFFICES ASSUME NEW c \in Clients, Refused(c)'
             PROVE  /\ handler'[c] = "none"
                    /\ c \notin gone'
                    /\ \A k \in DOMAIN rows' : rows'[k].owner # c
  BY DEF RefusedDone
<1>1. handler[c] \in {"none", "error"} /\ handler'[c] = "none"
  BY DEF RInv, RefusedDone
<1>2. c \notin gone /\ \A k \in DOMAIN rows : rows[k].owner # c
  BY DEF RInv, RefusedDone, LInv, InsertedOnce
<1>3. QED
  BY <1>1, <1>2

\* Every step keeps the refusals.
LEMMA StepRInv == RInv /\ [Next]_vars => RInv'
<1> SUFFICES ASSUME RInv, [Next]_vars PROVE RefusedDone'
  BY StepLInv DEF RInv
<1>0. LInv /\ TypeInv /\ \A c \in Clients : Refused(c) => handler[c] = "none"
  BY DEF RInv, LInv, RefusedDone
<1>1. CASE \/ UNCHANGED vars
           \/ StartSweep \/ SweepFails \/ Tick \/ Serve \/ Shutdown
           \/ \E codes \in DeleteLists : Boot(codes)
  <2>1. UNCHANGED <<rows, client, handler, aborted, gone>>
    BY <1>1 DEF vars, StartSweep, SweepFails, Tick, Serve, Shutdown, Boot, clients, handlers
  <2>2. QED
    BY <2>1 DEF RInv, RefusedDone, Refused
<1>2. CASE Stop \/ ShutdownReturns
  <2>1. UNCHANGED <<rows, client, aborted, gone>> /\ handler' = [c \in Clients |-> "none"]
    BY <1>2 DEF Stop, ShutdownReturns, clients
  <2>2. QED
    BY <2>1 DEF RInv, RefusedDone, Refused
<1>3. CASE DeleteNext \/ DeleteOlderThan
  <2>1. /\ DOMAIN rows' \subseteq DOMAIN rows
        /\ \A k \in DOMAIN rows' : rows'[k] = rows[k]
        /\ \A c \in gone' : c \in gone \/ \E k \in DOMAIN rows : rows[k].owner = c
    BY <1>0, <1>3, DeleteRows DEF DeleteNext, DeleteOlderThan
  <2>2. UNCHANGED <<client, handler, aborted>>
    BY <1>3 DEF DeleteNext, DeleteOlderThan, clients, handlers
  <2>3. \A c \in Clients : Refused(c)' => Refused(c) /\ handler'[c] = "none"
    BY <1>0, <2>2 DEF Refused
  <2>4. QED
    BY <2>1, <2>3, RefusedStays
<1>4. ASSUME NEW c \in Clients, \E b \in Bodies : Post(c, b)
      PROVE  RefusedDone'
  <2>1. /\ UNCHANGED <<rows, aborted, gone>> /\ client' = [client EXCEPT ![c] = "waiting"]
        /\ handler' = handler \/ handler' = [handler EXCEPT ![c] = "receive"]
    BY <1>4 DEF Post
  <2>2. \A d \in Clients : Refused(d)' => Refused(d) /\ handler'[d] = "none"
    BY <1>0, <2>1 DEF Refused, TypeInv
  <2>3. QED
    BY <2>1, <2>2, RefusedStays
<1>5. ASSUME NEW c \in Clients, UploadFails(c)
      PROVE  RefusedDone'
  <2>1. UNCHANGED <<rows, handler, gone>>
    BY <1>5 DEF UploadFails, BuildURL, handlers
  <2>2. \A d \in Clients : Refused(d)' => Refused(d)
    BY <1>0, <1>5 DEF UploadFails, BuildURL, Refused, TypeInv
  <2>3. QED
    BY <1>0, <2>1, <2>2, RefusedStays
<1>6. ASSUME NEW c \in Clients,
             \/ Reject(c) \/ Accept(c) \/ (\E k \in Codes : GenerateCode(c, k))
             \/ GiveUp(c) \/ Collide(c) \/ PutFails(c)
      PROVE  RefusedDone'
  <2>1. /\ handler[c] \in {"receive", "generate", "put"}
        /\ \E h \in {"generate", "put", "error"} : handler' = [handler EXCEPT ![c] = h]
        /\ UNCHANGED <<rows, client, aborted, gone>>
    BY <1>6 DEF Reject, Accept, GenerateCode, GiveUp, Collide, PutFails, clients
  <2>2. \A d \in Clients : Refused(d)' => Refused(d) /\ handler'[d] = "none"
    BY <1>0, <2>1 DEF Refused, TypeInv
  <2>3. QED
    BY <2>1, <2>2, RefusedStays
<1>7. ASSUME NEW c \in Clients, Put(c)
      PROVE  RefusedDone'
  <2>1. /\ handler[c] = "put" /\ handler' = [handler EXCEPT ![c] = "created"]
        /\ UNCHANGED <<client, aborted, gone>>
    BY <1>7 DEF Put, clients
  <2>2. /\ DOMAIN rows' = DOMAIN rows \cup {code[c]}
        /\ rows'[code[c]] = [owner |-> c, created_at |-> Unix(stamp[c]),
                             tick |-> stamp[c], boot |-> boot]
        /\ \A k \in DOMAIN rows : rows'[k] = rows[k]
    BY <1>0, <1>7, InsertRow DEF LInv
  <2>3. rows'[code[c]].owner = c
    BY <2>2
  <2>4. \A d \in Clients : Refused(d)' => Refused(d) /\ handler'[d] = "none"
    BY <1>0, <2>1 DEF Refused, TypeInv
  <2>5. QED
    BY <2>1, <2>2, <2>3, <2>4, RefusedStays
<1>8. ASSUME NEW c \in Clients, Respond(c)
      PROVE  RefusedDone'
  <2>1. /\ handler[c] \in {"created", "error"} /\ handler' = [handler EXCEPT ![c] = "none"]
        /\ UNCHANGED <<rows, aborted, gone>>
    BY <1>8 DEF Respond
  <2>2. \A d \in Clients : Refused(d)' =>
           (Refused(d) \/ handler[d] = "error") /\ handler'[d] = "none"
    BY <1>0, <1>8, <2>1 DEF Respond, BuildURL, Refused, TypeInv
  <2>3. QED
    BY <2>1, <2>2, RefusedStays
<1>9. QED
  BY <1>1, <1>2, <1>3, <1>4, <1>5, <1>6, <1>7, <1>8 DEF Next

\* An upload that was answered with an error left nothing behind, for any number of
\* clients, retries and crashes.
THEOREM RefusedStoresNothing == Spec => []RefusedNotStored
<1>1. Init => RInv
  <2>1. Init => RefusedDone
    BY DEF Init, RefusedDone, Refused
  <2>2. QED
    BY <2>1, InitLInv DEF RInv
<1>2. RInv => RefusedNotStored
  BY DEF RInv, RefusedDone, RefusedNotStored
<1>3. QED
  BY <1>1, <1>2, StepRInv, PTL DEF Spec
-----------------------------------------------------------------------------
(* Takedowns. *)

\* startupDelete has left the end of its list; what it has done with is not in the
\* table, until the server serves and stores under the code anew.
TakedownProgress ==
    /\ Len(left) <= Len(list)
    /\ \A j \in 1..Len(left) : left[j] = list[Len(list) - Len(left) + j]
    /\ srv = "deleting" =>
          \A i \in 1..(Len(list) - Len(left)) : list[i] \notin DOMAIN rows

TInv == LInv /\ TakedownProgress /\ TakedownEffective

\* One turn of startupDelete moves one code from what is left to what is done.
LEMMA TakedownTurn ==
    ASSUME TInv, DeleteNext
    PROVE  TakedownProgress'
<1> DEFINE n == Len(list) - Len(left)
<1>1. /\ left \in Seq(Codes \cup {BadCode}) /\ left # << >>
      /\ list \in Seq(Codes \cup {BadCode})
      /\ left' = Tail(left) /\ list' = list
      /\ Len(left) <= Len(list)
      /\ \A j \in 1..Len(left) : left[j] = list[n + j]
      /\ \A i \in 1..n : list[i] \notin DOMAIN rows
  BY DEF TInv, LInv, TypeInv, TakedownProgress, DeleteNext
<1>2. DOMAIN rows' = DOMAIN rows \ {Head(left)}
  BY DeleteRows DEF DeleteNext, TInv, LInv
<1>3. /\ Len(left') = Len(left) - 1
      /\ \A j \in 1..Len(left') : left'[j] = left[j + 1]
      /\ Head(left) = left[1]
      /\ Len(left) \in Nat \ {0} /\ Len(list) \in Nat
  BY <1>1
<1>4. Len(left') <= Len(list')
  BY <1>1, <1>3
<1>5. \A j \in 1..Len(left') : left'[j] = list'[Len(list') - Len(left') + j]
  <2> SUFFICES ASSUME NEW j \in 1..Len(left')
               PROVE  left'[j] = list'[Len(list') - Len(left') + j]
    OBVIOUS
  <2>1. j + 1 \in 1..Len(left) /\ n + (j + 1) = Len(list') - Len(left') + j
    BY <1>1, <1>3
  <2>2. QED
    BY <1>1, <1>3, <2>1
<1>6. \A i \in 1..(Len(list') - Len(left')) : list'[i] \notin DOMAIN rows'
  <2> SUFFICES ASSUME NEW i \in 1..(Len(list') - Len(left'))
               PROVE  list[i] \notin DOMAIN rows'
    BY <1>1
  <2>1. CASE i \in 1..n
    BY <1>1, <1>2, <2>1
  <2>2. CASE i = n + 1
    <3>1. list[i] = left[1]
      BY <1>1, <1>3, <2>2
    <3>2. QED
      BY <1>2, <1>3, <3>1
  <2>3. i \in 1..n \/ i = n + 1
    <3>1. Len(list') - Len(left') = n + 1 /\ n \in Int
      BY <1>1, <1>3
    <3>2. i \in 1..(n + 1)
      BY <3>1
    <3> HIDE DEF n
    <3>3. QED
      BY <3>1, <3>2
  <2>4. QED
    BY <2>1, <2>2, <2>3
<1>7. QED
  BY <1>4, <1>5, <1>6 DEF TakedownProgress

\* A step that leaves the process alone adds no row, or adds one of this start
\* while the server is up.
LEMMA TakedownStays ==
    ASSUME TInv, UNCHANGED process,
           \A k \in DOMAIN rows' :
               \/ k \in DOMAIN rows /\ rows'[k] = rows[k]
               \/ srv # "deleting" /\ rows'[k].boot = boot
    PROVE  TakedownProgress' /\ TakedownEffective'
<1>1. TakedownProgress'
  BY DEF TInv, TakedownProgress, process
<1>2. TakedownEffective'
  BY DEF TInv, TakedownEffective, process
<1>3. QED
  BY <1>1, <1>2

\* Every step keeps the takedowns.
LEMMA StepTInv == TInv /\ [Next]_vars => TInv'
<1> SUFFICES ASSUME TInv, [Next]_vars PROVE TakedownProgress' /\ TakedownEffective'
  BY StepLInv DEF TInv
<1>0. LInv /\ TypeInv
  BY DEF TInv, LInv
<1>1. CASE \/ UNCHANGED vars
           \/ StartSweep \/ SweepFails \/ Tick
           \/ \E c \in Clients :
                 \/ \E b \in Bodies : Post(c, b)
                 \/ UploadFails(c) \/ Reject(c) \/ Accept(c)
                 \/ \E k \in Codes : GenerateCode(c, k)
                 \/ GiveUp(c) \/ Collide(c) \/ PutFails(c) \/ Respond(c)
  <2>1. UNCHANGED <<process, rows>>
    BY <1>1 DEF vars, StartSweep, SweepFails, Tick, Post, UploadFails, Reject, Accept,
                GenerateCode, GiveUp, Collide, PutFails, Respond
  <2>2. QED
    BY <2>1, TakedownStays
<1>2. ASSUME NEW c \in Clients, Put(c)
      PROVE  TakedownProgress' /\ TakedownEffective'
  <2>1. CodeReady /\ HandlersSound /\ handler[c] = "put"
    BY <1>0, <1>2 DEF LInv, Put
  <2>2. /\ DOMAIN rows' = DOMAIN rows \cup {code[c]}
        /\ rows'[code[c]] = [owner |-> c, created_at |-> Unix(stamp[c]),
                             tick |-> stamp[c], boot |-> boot]
        /\ \A k \in DOMAIN rows : rows'[k] = rows[k]
    BY <1>0, <1>2, <2>1, InsertRow
  <2>3. srv # "deleting"
    BY <2>1 DEF HandlersSound
  <2>4. rows'[code[c]].boot = boot
    BY <2>2
  <2>5. QED
    BY <1>2, <2>2, <2>3, <2>4, TakedownStays DEF Put
<1>3. CASE DeleteOlderThan
  <2>1. /\ DOMAIN rows' \subseteq DOMAIN rows
        /\ \A k \in DOMAIN rows' : rows'[k] = rows[k]
    BY <1>0, <1>3, DeleteRows DEF DeleteOlderThan
  <2>2. QED
    BY <1>3, <2>1, TakedownStays DEF DeleteOlderThan
<1>4. CASE DeleteNext
  BY <1>4, TakedownTurn DEF TakedownEffective, DeleteNext
<1>5. ASSUME NEW codes \in DeleteLists, Boot(codes)
      PROVE  TakedownProgress' /\ TakedownEffective'
  <2>1. codes \in Seq(Codes \cup {BadCode})
    BY CodesAssumption
  <2>2. Len(codes) \in Nat
    BY <2>1
  <2>3. TakedownProgress'
    BY <1>5, <2>2 DEF Boot, TakedownProgress
  <2>4. QED
    BY <1>5, <2>3 DEF Boot, TakedownEffective
<1>6. CASE Serve
  <2>1. Len(left) = 0 /\ Len(list) \in Nat
    BY <1>0, <1>6 DEF Serve, TypeInv
  <2>2. \A i \in 1..Len(list) : list[i] \notin DOMAIN rows
    BY <1>6, <2>1 DEF Serve, TInv, TakedownProgress
  <2>3. QED
    BY <1>6, <2>2 DEF Serve, TInv, TakedownProgress, TakedownEffective
<1>7. CASE Shutdown
  BY <1>7 DEF Shutdown, TInv, TakedownProgress, TakedownEffective
<1>8. CASE Stop \/ ShutdownReturns
  BY <1>8 DEF ShutdownReturns, Stop, TInv, TakedownProgress, TakedownEffective
<1>9. QED
  BY <1>1, <1>2, <1>3, <1>4, <1>5, <1>6, <1>7, <1>8 DEF Next

\* While the server answers, no code of its --delete-on-startup list leads to a row
\* of an earlier start, for any list and any number of crashes.
THEOREM TakedownsEffective == Spec => []TakedownEffective
<1>1. Init => TInv
  <2>1. Init => TakedownProgress /\ TakedownEffective
    BY DEF Init, TakedownProgress, TakedownEffective
  <2>2. QED
    BY <2>1, InitLInv DEF TInv
<1>2. TInv => TakedownEffective
  BY DEF TInv
<1>3. QED
  BY <1>1, <1>2, StepTInv, PTL DEF Spec
-----------------------------------------------------------------------------
(* Expiry. *)

\* The later of two moments is not in an earlier second.
LEMMA UnixOrder ==
    ASSUME NEW s \in Int, NEW t \in Int, Unix(s) < Unix(t)
    PROVE  s < t
<1> DEFINE T == TicksPerSecond
           p == s \div T
           q == t \div T
<1>1. T \in Nat \ {0}
  BY NumbersAssumption
<1>2. p \in Int /\ q \in Int /\ p < q
  BY <1>1 DEF Unix
<1>3. s < T * (p + 1) /\ T * q <= t
  BY <1>1
<1> HIDE DEF p, q, T
<1>4. T * (p + 1) <= T * q
  BY <1>1, <1>2
<1>5. T * (p + 1) \in Int /\ T * q \in Int
  BY <1>1, <1>2
<1>6. QED
  BY <1>3, <1>4, <1>5

\* created_at is the second of the insert, and a sweep's cutoff lies at least the
\* retention in the past.
ClocksSound ==
    /\ \A k \in DOMAIN rows : rows[k].created_at = Unix(rows[k].tick)
    /\ sweep = "delete" => cutoff <= now - Retention

EInv == LInv /\ ClocksSound

\* A step that writes no row and leaves the sweep alone; the clock may advance.
LEMMA ClocksStay ==
    ASSUME EInv, rows' = rows, sweep' = sweep, cutoff' = cutoff,
           now' = now \/ now' = now + 1
    PROVE  ClocksSound'
<1>1. now \in Nat /\ cutoff \in Int
  BY DEF EInv, LInv, TypeInv
<1>2. sweep' = "delete" => cutoff' <= now' - Retention
  <2>1. sweep = "delete" => cutoff <= now - Retention
    BY DEF EInv, ClocksSound
  <2>2. cutoff <= now - Retention => cutoff <= now' - Retention
    BY <1>1, NumbersAssumption
  <2>3. QED
    BY <2>1, <2>2
<1>3. QED
  BY <1>2 DEF EInv, ClocksSound, Unix

\* Every step keeps the timestamps of rows and the cutoff of the sweep sound.
LEMMA StepEInv == EInv /\ [Next]_vars => EInv'
<1> SUFFICES ASSUME EInv, [Next]_vars PROVE ClocksSound'
  BY StepLInv DEF EInv
<1>0. LInv /\ TypeInv /\ now \in Nat
  BY DEF EInv, LInv, TypeInv
<1>1. CASE \/ UNCHANGED vars
           \/ Shutdown \/ Tick \/ \E codes \in DeleteLists : Boot(codes)
           \/ \E c \in Clients :
                 \/ \E b \in Bodies : Post(c, b)
                 \/ UploadFails(c) \/ Reject(c) \/ Accept(c)
                 \/ \E k \in Codes : GenerateCode(c, k)
                 \/ GiveUp(c) \/ Collide(c) \/ PutFails(c) \/ Respond(c)
  <2>1. UNCHANGED <<rows, sweep, cutoff>> /\ (now' = now \/ now' = now + 1)
    BY <1>1 DEF retention, vars, Shutdown, Tick, Boot, Post, UploadFails, Reject, Accept,
                GenerateCode, GiveUp, Collide, PutFails, Respond
  <2>2. QED
    BY <2>1, ClocksStay
<1>2. ASSUME NEW c \in Clients, Put(c)
      PROVE  ClocksSound'
  <2>1. /\ DOMAIN rows' = DOMAIN rows \cup {code[c]}
        /\ rows'[code[c]] = [owner |-> c, created_at |-> Unix(stamp[c]),
                             tick |-> stamp[c], boot |-> boot]
        /\ \A k \in DOMAIN rows : rows'[k] = rows[k]
    BY <1>0, <1>2, InsertRow DEF LInv
  <2>2. rows'[code[c]].created_at = Unix(rows'[code[c]].tick)
    BY <2>1
  <2>3. UNCHANGED <<sweep, cutoff, now>>
    BY <1>2 DEF Put, retention
  <2>4. \A k \in DOMAIN rows' : rows'[k].created_at = Unix(rows'[k].tick)
    BY <2>1, <2>2 DEF EInv, ClocksSound
  <2>5. QED
    BY <2>3, <2>4 DEF EInv, ClocksSound, Unix
<1>3. CASE DeleteNext \/ DeleteOlderThan
  <2>1. /\ DOMAIN rows' \subseteq DOMAIN rows
        /\ \A k \in DOMAIN rows' : rows'[k] = rows[k]
    BY <1>0, <1>3, DeleteRows DEF DeleteNext, DeleteOlderThan
  <2>2. /\ now' = now
        /\ UNCHANGED <<sweep, cutoff>> \/ sweep' # "delete"
    BY <1>3 DEF DeleteNext, DeleteOlderThan, retention
  <2>3. QED
    BY <2>1, <2>2 DEF EInv, ClocksSound, Unix
<1>4. CASE Stop \/ ShutdownReturns \/ SweepFails
  BY <1>4 DEF Stop, ShutdownReturns, SweepFails, EInv, ClocksSound, Unix
<1>5. CASE Serve \/ StartSweep
  <2>1. rows' = rows /\ cutoff' = now - Retention /\ now' = now
    BY <1>5 DEF Serve, StartSweep
  <2>2. cutoff' <= now' - Retention
    BY <1>0, <2>1, NumbersAssumption
  <2>3. QED
    BY <2>1, <2>2 DEF EInv, ClocksSound, Unix
<1>6. QED
  BY <1>1, <1>2, <1>3, <1>4, <1>5 DEF Next

\* What a step takes from the table without a takedown has outlived the retention.
LEMMA StepExpires ==
    ASSUME EInv, [Next]_vars, NEW k \in DOMAIN rows \ DOMAIN rows'
    PROVE  srv = "deleting" \/ now - rows[k].tick > Retention
<1>0. LInv /\ TypeInv
  BY DEF EInv, LInv
<1>1. CASE DeleteOlderThan
  <2>1. k \in Older(cutoff) /\ sweep = "delete"
    BY <1>0, <1>1, DeleteRows DEF DeleteOlderThan
  <2>2. rows[k] \in Row
    BY <1>0 DEF TypeInv
  <2>3. rows[k].tick \in Int /\ cutoff \in Int /\ now \in Int
    BY <1>0, <2>2 DEF TypeInv, Row
  <2>4. Unix(rows[k].tick) < Unix(cutoff) /\ cutoff <= now - Retention
    BY <2>1 DEF Older, EInv, ClocksSound
  <2>5. rows[k].tick < cutoff
    BY <2>3, <2>4, UnixOrder
  <2>6. QED
    BY <2>3, <2>4, <2>5, NumbersAssumption
<1>2. CASE DeleteNext
  BY <1>2 DEF DeleteNext
<1>3. CASE \E c \in Clients : Put(c)
  <2>1. PICK c \in Clients : Put(c)
    BY <1>3
  <2>2. DOMAIN rows \subseteq DOMAIN rows'
    BY <1>0, <2>1, InsertRow DEF LInv
  <2>3. QED
    BY <2>2
<1>4. CASE rows' = rows
  BY <1>4
<1>5. QED
  BY <1>1, <1>2, <1>3, <1>4
     DEF Next, vars, Shutdown, Tick, Boot, Post, UploadFails, Reject, Accept, GenerateCode,
         GiveUp, Collide, PutFails, Respond, Stop, ShutdownReturns, Serve, StartSweep,
         SweepFails

\* No sweep removes a row before its retention is over, for any retention and any
\* resolution of the store's timestamps, however late the DELETE follows its cutoff.
THEOREM NothingExpiresEarly == Spec => NoEarlyExpiry
<1>1. Init => EInv
  <2>1. Init => ClocksSound
    BY DEF Init, NoRows, ClocksSound
  <2>2. QED
    BY <2>1, InitLInv DEF EInv
<1>2. EInv /\ [Next]_vars =>
          [\A k \in DOMAIN rows \ DOMAIN rows' :
              srv = "deleting" \/ now - rows[k].tick > Retention]_vars
  BY StepExpires
<1>3. QED
  BY <1>1, <1>2, StepEInv, PTL DEF Spec, NoEarlyExpiry
=============================================================================
