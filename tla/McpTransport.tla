----------------------------- MODULE McpTransport -----------------------------
(***************************************************************************)
(* The transports of the MCP gate around its router: the stdio runner in   *)
(* front of several servers (proxy.rs, run_servers_io), the HTTP listener  *)
(* in front of several servers or of one (http.rs, serve_with), and the    *)
(* HTTP client of an upstream server (http.rs, HttpClient).  `mode`:       *)
(*   "stdio"   stdio agent, routed stdio servers                           *)
(*   "listen"  HTTP agents, routed stdio servers                           *)
(*   "single"  HTTP agents, one stdio server                               *)
(*   "relay"   HTTP agents, one HTTP server                                *)
(*                                                                         *)
(* A thread is an agent message (a POST, or a line of the egress thread)   *)
(* or a server's ingress.  It performs the actions the router returned one *)
(* by one, after the router's lock is released (todo), having first        *)
(* finished the listings it completed (fin).  The servers, the agents and  *)
(* the operator who stops the gate are external.                           *)
(***************************************************************************)
EXTENDS Router

CONSTANTS Posts,        \* the agent's messages, in the order a stdio agent sends them
          Sessions,     \* the sessions issued before
          Messages,     \* message -> what it may be: [method, tool, ref, headers, session]
          Modes,        \* the transports explored
          Listed,       \* server -> the tools it lists at start-up
          Changed,      \* server -> the tools it lists after a change
          Surprises,    \* <<server, what>> a server may send unasked
          MaxFaults,    \* bound on surprises, deaths and disconnections together
          Pages,        \* server -> how it may answer tools/list
          Fickle,       \* the messages whose HTTP client may disconnect
          Mortal        \* the servers that may die by themselves

Methods == {"initialize", "ping", "list", "call", "other", "cancelled", "notification"}
ASSUME TransportAssumption ==
    /\ Modes \subseteq {"stdio", "listen", "single", "relay"}
    /\ \A p \in Posts : \A m \in Messages[p] : m.method \in Methods \cup {"delete"}
    /\ \A s \in ToSet(Servers) :
        /\ Listed[s] \in Seq(ToSet(Listed[s])) /\ Changed[s] \in Seq(ToSet(Changed[s]))
        /\ Pages[s] \subseteq {"error", "last", "more"}

VARIABLES mode,     \* the transport
          st, cat,  \* the router's and the catalog's state
          post,     \* each agent message, from its arrival to its answer
          thread,   \* what each thread has left to do
          srv,      \* the servers, their pipes and their ingress threads
          hub,      \* the listener: ids, waiters, live sessions, list requests
          client,   \* the HTTP client: queue, exchanges, session
          seen      \* what agents and servers have seen (for the properties)
vars == <<mode, st, cat, post, thread, srv, hub, client, seen>>

ServerSet == ToSet(Servers)
Only == Servers[1]
Threads == Posts \cup ServerSet
Used(m) == IF m \in {"stdio", "listen"} THEN ServerSet ELSE IF m = "single" THEN {Only} ELSE {}
Routed == mode \in {"stdio", "listen"}
None == [none |-> TRUE]
OriginalId == 1                          \* every agent numbers its only request the same
IsRequest(method) == method \notin {"cancelled", "notification"}

AtRest == [fin |-> <<>>, todo |-> <<>>]
Direct(acts) == [i \in DOMAIN acts |-> [to |-> acts[i].to, msg |-> acts[i].msg, direct |-> TRUE]]
Later(acts) == [i \in DOMAIN acts |-> [to |-> acts[i].to, msg |-> acts[i].msg, direct |-> FALSE]]
Finishing(fin, direct, front) ==
    [i \in DOMAIN fin |-> [agent |-> fin[i].agent, tools |-> fin[i].tools, visible |-> <<>>, direct |-> direct, front |-> front]]
StartListings == [i \in DOMAIN Servers |-> [name |-> Servers[i], tools |-> Listed[Servers[i]]]]

Init ==
    /\ mode \in Modes
    /\ st = RouterInit
    /\ cat = IF Routed THEN Start(StartListings, NoLock, {}).cat ELSE Passthrough
    /\ post = [p \in Posts |-> [phase |-> "new", session |-> 0, msg |-> None, n |-> NoId, direct |-> None, reply |-> None, cut |-> FALSE]]
    /\ thread = [t \in Threads |-> AtRest]
    /\ srv = [s \in ServerSet |-> [alive |-> s \in Used(mode), stdin |-> s \in Used(mode), inbox |-> {}, out |-> <<>>,
                                   tools |-> Listed[s], ingress |-> IF s \in Used(mode) THEN "reading" ELSE "ended"]]
    /\ hub = [nextId |-> 1, waiters |-> Empty, sessions |-> Sessions, listed |-> {}, stopping |-> FALSE]
    /\ client = [queue |-> <<>>, running |-> {}, session |-> 1, inits |-> 1, busy |-> 0, closed |-> FALSE]
    /\ seen = [answers |-> [p \in Posts |-> <<>>], shown |-> {}, sent |-> {}, posted |-> {}, granted |-> {1}, faults |-> 0]

Faults(n) ==
    /\ seen.faults + n <= MaxFaults
    /\ seen' = [seen EXCEPT !.faults = @ + n]

(***************************************************************************)
(* An agent message arrives and is decided.                                *)
(***************************************************************************)
\* admit, then session: the HTTP status of a message that goes no further.
Admission(m) ==
    FirstFailure(<< <<m.headers = "no_token", "401">>, <<m.headers = "foreign_origin", "403">>,
                    <<m.method # "initialize" /\ m.headers = "no_session", "400">>,
                    <<m.method # "initialize" /\ m.session \notin hub.sessions, "404">> >>)

\* Mutant: the waiters of every session are searched.
ForwardedAs_AnySession(session, original) == {n \in DOMAIN hub.waiters : original = OriginalId}

\* forwarded_as: the ids a session's requests in flight were forwarded under.
ForwardedAs(session, original) ==
    {n \in DOMAIN hub.waiters : post[hub.waiters[n]].session = session /\ original = OriginalId}

Closed(p) == [post[p] EXCEPT !.phase = "done", !.direct = None, !.reply = None]

Arrives(p) ==
    /\ post[p].phase = "new"
    /\ ~hub.stopping
    /\ mode = "stdio" => \A q \in Posts : q < p => post[q].phase = "done"
    /\ \E m \in Messages[p] :
        LET msg == [method |-> m.method, id |-> IF IsRequest(m.method) THEN OriginalId ELSE NoId,
                    tool |-> m.tool, ref |-> m.ref, origin |-> p]
            known == ForwardedAs(m.session, m.ref)
            forwarded == [msg EXCEPT !.id = IF @ = NoId THEN NoId ELSE hub.nextId,
                                     !.ref = IF m.method = "cancelled" THEN CHOOSE n \in known : TRUE ELSE @]
        IN  IF mode = "stdio"
            THEN /\ m.method # "delete" /\ m.headers = "ok"
                 /\ post' = [post EXCEPT ![p].phase = "decide", ![p].msg = [msg EXCEPT !.id = IF @ = NoId THEN NoId ELSE p]]
                 /\ UNCHANGED hub
            ELSE CASE Admission(m) # "ok" -> post' = [post EXCEPT ![p] = Closed(p)] /\ UNCHANGED hub
                   [] Admission(m) = "ok" /\ m.method = "delete" ->
                        /\ hub' = [hub EXCEPT !.sessions = @ \ {m.session}]
                        /\ post' = [post EXCEPT ![p] = Closed(p)]
                   [] Admission(m) = "ok" /\ m.method = "cancelled" /\ known = {} -> post' = [post EXCEPT ![p] = Closed(p)] /\ UNCHANGED hub
                   [] OTHER ->
                        /\ hub' = IF msg.id = NoId THEN hub
                                  ELSE [hub EXCEPT !.nextId = @ + 1, !.waiters = Insert(@, hub.nextId, p)]
                        /\ post' = [post EXCEPT ![p].phase = "decide", ![p].session = m.session, ![p].msg = forwarded,
                                                ![p].n = IF msg.id = NoId THEN NoId ELSE hub.nextId]
    /\ UNCHANGED <<mode, st, cat, thread, srv, client, seen>>

\* decide_agent, under the gate's lock: only the catalog's refusal matters here.
Decides(p) ==
    /\ post[p].phase = "decide"
    /\ LET msg == post[p].msg
           why == IF msg.method = "call" THEN Refuse(cat, Only, msg.tool) ELSE "ok"
       IN  IF why = "ok" THEN post' = [post EXCEPT ![p].phase = "dispatch"] /\ UNCHANGED thread
           ELSE /\ post' = [post EXCEPT ![p].phase = "perform"]
                /\ thread' = [thread EXCEPT ![p].todo = Direct(<<ToAgent(Reply(msg.id, why, p))>>)]
    /\ UNCHANGED <<mode, st, cat, srv, hub, client, seen>>

\* on_agent_line: dispatch (several servers) or note_list_request (one).  A POST whose
\* client went away is still decided; the actions returned are dropped.
Dispatches(p) ==
    /\ post[p].phase = "dispatch"
    /\ post' = [post EXCEPT ![p].phase = "perform"]
    /\ LET msg == post[p].msg
           routed == Dispatch(st, cat, msg)
           kept(acts) == IF post[p].cut THEN <<>> ELSE acts
       IN  IF Routed
           THEN /\ st' = routed.st
                /\ thread' = [thread EXCEPT ![p] = [fin |-> Finishing(routed.fin, TRUE, FALSE), todo |-> kept(Direct(routed.acts))]]
                /\ UNCHANGED hub
           ELSE /\ thread' = [thread EXCEPT ![p].todo = kept(Direct(<<ToUpstream(Only, msg)>>))]
                /\ hub' = IF msg.method = "list" THEN [hub EXCEPT !.listed = @ \cup {msg.id}] ELSE hub
                /\ UNCHANGED st
    /\ UNCHANGED <<mode, cat, srv, client, seen>>

\* The POST's client disconnects: the handler is dropped where it waits.
Disconnects(p) ==
    /\ mode # "stdio" /\ p \in Fickle
    /\ Faults(1)
    /\ \/ post[p].phase \in {"decide", "dispatch"} /\ ~post[p].cut /\ post' = [post EXCEPT ![p].cut = TRUE]
       \/ post[p].phase = "wait" /\ post' = [post EXCEPT ![p] = [Closed(p) EXCEPT !.cut = TRUE]]
    /\ UNCHANGED <<mode, st, cat, thread, srv, hub, client>>

(***************************************************************************)
(* A thread finishes listings and performs actions.                        *)
(***************************************************************************)
NextServer(tools) ==
    Servers[CHOOSE i \in DOMAIN Servers : Servers[i] \in DOMAIN tools /\ \A j \in 1..(i - 1) : Servers[j] \notin DOMAIN tools]

\* finish_listing: one server's tools are observed at a time, then the agent is answered.
Finishes(t) ==
    /\ thread[t].fin # <<>>
    /\ LET f == Head(thread[t].fin)
           s == NextServer(f.tools)
           o == IF DOMAIN f.tools = {} THEN Observe(cat, Only, <<>>) ELSE Observe(cat, s, f.tools[s])
           left == IF DOMAIN f.tools = {} THEN f.tools ELSE Forget(f.tools, {s})
           visible == f.visible \o o.visible
           answer == [to |-> "agent", direct |-> f.direct,
                      msg |-> [Reply(f.agent.id, "result", f.agent.origin) EXCEPT !.tools = visible]]
           rest == thread[t].todo
           answered == IF f.agent = NoAgent \/ (t \in Posts /\ post[t].cut) THEN rest
                       ELSE IF f.front THEN <<answer>> \o rest ELSE Append(rest, answer)
       IN  /\ cat' = o.cat
           /\ thread' = [thread EXCEPT ![t] =
                  IF DOMAIN left # {} THEN [@ EXCEPT !.fin[1].tools = left, !.fin[1].visible = visible]
                  ELSE [fin |-> Tail(@.fin), todo |-> answered]]
    /\ UNCHANGED <<mode, st, post, srv, hub, client, seen>>

Rest(t) == [thread EXCEPT ![t].todo = Tail(@)]
\* What the agent reads in a listing, with the server that served it then.
Shown(reply) == {<<reply.tools[i].name, IF Routed THEN cat.exposed[reply.tools[i].name][1] ELSE Only, reply.tools[i].def>> :
                    i \in DOMAIN reply.tools}
Answered(p, reply) == [seen EXCEPT !.answers[p] = Append(@, reply.origin), !.shown = @ \cup Shown(reply)]

\* Dispatch::route: a reply goes to the POST that waits for its id, if any still does.
GivesWaiter(reply) ==
    /\ post' = IF reply.id \in DOMAIN hub.waiters THEN [post EXCEPT ![hub.waiters[reply.id]].reply = reply] ELSE post
    /\ hub' = [hub EXCEPT !.waiters = Forget(@, {reply.id}), !.listed = IF mode = "relay" THEN @ \ {reply.id} ELSE @]

PerformsAnswer(t) ==
    /\ thread[t].fin = <<>> /\ thread[t].todo # <<>>
    /\ Head(thread[t].todo).to = "agent"
    /\ thread' = Rest(t)
    /\ LET a == Head(thread[t].todo)
       IN  CASE mode = "stdio" ->
                    /\ seen' = IF a.msg.id = NoId THEN seen ELSE Answered(a.msg.id, a.msg)
                    /\ UNCHANGED <<post, hub>>
             [] mode # "stdio" /\ a.direct ->
                    /\ post' = IF post[t].direct = None THEN [post EXCEPT ![t].direct = a.msg] ELSE post
                    /\ UNCHANGED <<hub, seen>>
             [] OTHER -> GivesWaiter(a.msg) /\ UNCHANGED seen
    /\ UNCHANGED <<mode, st, cat, srv, client>>

\* A server that cannot be written to: gone (stdio), or a transport error of that message.
FailsToSend(t, s, msg) ==
    LET rest == Tail(thread[t].todo)
        gone == ServerGone(st, s)
        failed == OnRoutedError(st, msg)
    IN  CASE mode = "stdio" ->
                /\ st' = gone.st
                /\ thread' = [thread EXCEPT ![t] = [fin |-> Finishing(gone.fin, FALSE, FALSE), todo |-> rest \o Later(gone.acts)]]
          [] mode = "listen" ->
                /\ st' = failed.st
                /\ thread' = [thread EXCEPT ![t] = [fin |-> Finishing(failed.fin, FALSE, TRUE), todo |-> Later(failed.acts) \o rest]]
          [] OTHER ->
                /\ thread' = [thread EXCEPT ![t].todo =
                        IF msg.id = NoId THEN rest
                        ELSE Later(<<ToAgent(Reply(msg.id, "upstream_unavailable", msg.origin))>>) \o rest]
                /\ UNCHANGED st

PerformsSend(t) ==
    /\ thread[t].fin = <<>> /\ thread[t].todo # <<>>
    /\ LET a == Head(thread[t].todo)
           s == a.to
       IN  /\ s # "agent"
           /\ CASE mode = "relay" ->
                    /\ client' = IF client.closed THEN client
                                 ELSE [client EXCEPT !.queue = Append(@, a.msg), !.busy = @ + 1]
                    /\ thread' = Rest(t)
                    /\ UNCHANGED <<st, srv, seen>>
                [] mode # "relay" /\ srv[s].alive /\ srv[s].stdin ->
                    /\ srv' = [srv EXCEPT ![s].inbox = IF a.msg.method \in {"notification", "refusal"} THEN @ ELSE @ \cup {a.msg}]
                    /\ seen' = [seen EXCEPT !.sent = @ \cup (IF a.msg.method \in {"call", "other", "cancelled"} THEN {<<a.msg.method, a.msg.origin, s, a.msg>>} ELSE {})]
                    /\ thread' = Rest(t)
                    /\ UNCHANGED <<st, client>>
                [] OTHER -> FailsToSend(t, s, a.msg) /\ UNCHANGED <<srv, client, seen>>
    /\ UNCHANGED <<mode, cat, post, hub>>

\* The handler's end: answered directly, accepted, or left waiting for its reply.
Initialized(p) == post[p].msg.method = "initialize"
Issue(p, reply) == IF Initialized(p) /\ reply.what = "result" THEN {p} ELSE {}
PostEnds(p) ==
    /\ post[p].phase = "perform" /\ thread[p] = AtRest
    /\ LET reply == post[p].direct
       IN  CASE mode = "stdio" \/ post[p].cut \/ (reply = None /\ post[p].n = NoId) ->
                    post' = [post EXCEPT ![p] = Closed(p)] /\ UNCHANGED <<hub, seen>>
             [] mode # "stdio" /\ ~post[p].cut /\ reply # None ->
                    /\ post' = [post EXCEPT ![p] = Closed(p)]
                    /\ hub' = [hub EXCEPT !.waiters = Forget(@, {post[p].n}), !.sessions = @ \cup Issue(p, reply)]
                    /\ seen' = Answered(p, reply)
             [] OTHER -> post' = [post EXCEPT ![p].phase = "wait"] /\ UNCHANGED <<hub, seen>>
    /\ UNCHANGED <<mode, st, cat, thread, srv, client>>

PostAnswered(p) ==
    /\ post[p].phase = "wait"
    /\ post[p].reply # None \/ post[p].n \notin DOMAIN hub.waiters
    /\ LET reply == IF post[p].reply # None THEN post[p].reply ELSE Reply(post[p].n, "upstream_unavailable", p)
       IN  /\ post' = [post EXCEPT ![p] = Closed(p)]
           /\ hub' = [hub EXCEPT !.sessions = @ \cup Issue(p, reply)]
           /\ seen' = Answered(p, reply)
    /\ UNCHANGED <<mode, st, cat, thread, srv, client>>

(***************************************************************************)
(* The servers' side.                                                      *)
(***************************************************************************)
\* Relaying what one upstream answered: a listing the agent asked for is checked first.
RelayOne(reply, page) ==
    LET o == Observe(cat, Only, page.tools)
        listing == reply.id \in hub.listed /\ page.kind = "tools"
    IN  [cat |-> IF listing THEN o.cat ELSE cat,
         reply |-> IF listing THEN [reply EXCEPT !.tools = o.visible] ELSE [reply EXCEPT !.tools = page.tools]]

\* One line of a server's output (on_upstream_line).
Reads(s) ==
    /\ srv[s].ingress = "reading" /\ thread[s] = AtRest /\ srv[s].out # <<>>
    /\ srv' = [srv EXCEPT ![s].out = Tail(@)]
    /\ LET line == Head(srv[s].out)
           routed == OnRoutedLine(st, s, line)
           one == RelayOne(Reply(line.id, "result", line.origin), line.page)
       IN  IF Routed
           THEN /\ st' = routed.st
                /\ thread' = [thread EXCEPT ![s] = [fin |-> Finishing(routed.fin, FALSE, FALSE), todo |-> Later(routed.acts)]]
                /\ UNCHANGED <<cat, hub>>
           ELSE /\ cat' = one.cat
                /\ hub' = [hub EXCEPT !.listed = @ \ {line.id}]
                /\ thread' = [thread EXCEPT ![s].todo = Later(<<ToAgent(one.reply)>>)]
                /\ UNCHANGED st
    /\ UNCHANGED <<mode, post, client, seen>>

\* A server's output ended: server_gone (several servers), finish (one).
OutputEnds(s) ==
    /\ srv[s].ingress = "reading" /\ thread[s] = AtRest /\ srv[s].out = <<>> /\ ~srv[s].alive
    /\ srv' = [srv EXCEPT ![s].ingress = "gone"]
    /\ IF Routed
       THEN LET gone == ServerGone(st, s)
            IN  /\ st' = gone.st
                /\ thread' = [thread EXCEPT ![s] = [fin |-> Finishing(gone.fin, FALSE, FALSE), todo |-> Later(gone.acts)]]
       ELSE UNCHANGED <<st, thread>>
    /\ UNCHANGED <<mode, cat, post, hub, client, seen>>

\* The last ingress to end fails every POST still waiting, and the listener stops.
IngressEnds(s) ==
    /\ srv[s].ingress = "gone" /\ thread[s] = AtRest
    /\ srv' = [srv EXCEPT ![s].ingress = "ended"]
    /\ hub' = IF mode # "stdio" /\ \A r \in ServerSet \ {s} : srv[r].ingress = "ended"
              THEN [hub EXCEPT !.waiters = Empty, !.stopping = TRUE] ELSE hub
    /\ UNCHANGED <<mode, st, cat, post, thread, client, seen>>

Line(what, id, page, origin) == [what |-> what, id |-> id, page |-> page, origin |-> origin]
\* A server may list all its tools, one and then the rest, or refuse to list.
PageOf(kind, tools) ==
    CASE kind = "error" -> ErrorPage [] kind = "last" -> Page(tools, FALSE)
      [] kind = "more" -> Page(IF tools = <<>> THEN <<>> ELSE <<Head(tools)>>, TRUE)
Answers(s, msg) ==
    CASE msg.method = "list" /\ msg.ref # NextPage -> {PageOf(kind, srv[s].tools) : kind \in Pages[s]}
      [] msg.method = "list" /\ msg.ref = NextPage -> {Page(IF srv[s].tools = <<>> THEN <<>> ELSE Tail(srv[s].tools), FALSE)}
      [] OTHER -> {NoPage}

ServerAnswers(s) ==
    /\ srv[s].alive
    /\ \E msg \in srv[s].inbox :
        /\ IsRequest(msg.method)
        /\ \E page \in Answers(s, msg) :
            srv' = [srv EXCEPT ![s].inbox = @ \ {msg}, ![s].out = Append(@, Line("reply", msg.id, page, msg.origin))]
    /\ UNCHANGED <<mode, st, cat, post, thread, hub, client, seen>>

\* A cancelled request need not be answered.
ServerObeys(s) ==
    /\ srv[s].alive
    /\ \E c, msg \in srv[s].inbox :
        /\ c.method = "cancelled" /\ c.ref = msg.id /\ IsRequest(msg.method)
        /\ srv' = [srv EXCEPT ![s].inbox = @ \ {c, msg}]
    /\ UNCHANGED <<mode, st, cat, post, thread, hub, client, seen>>

ServerSpeaks(s) ==
    /\ srv[s].alive /\ Routed
    /\ Faults(1)
    /\ \E what \in {"request", "list_changed", "notification"} :
        <<s, what>> \in Surprises /\ srv' = [srv EXCEPT ![s].out = Append(@, Line(what, NoId, NoPage, 0)),
                           ![s].tools = IF what = "list_changed" THEN Changed[s] ELSE @]
    /\ UNCHANGED <<mode, st, cat, post, thread, hub, client>>

ServerDies(s) ==
    /\ srv[s].alive
    /\ \/ ~srv[s].stdin /\ Faults(0)
       \/ srv[s].stdin /\ s \in Mortal /\ Faults(1)
    /\ srv' = [srv EXCEPT ![s].alive = FALSE, ![s].inbox = {}]
    /\ UNCHANGED <<mode, st, cat, post, thread, hub, client>>

(***************************************************************************)
(* The HTTP client: messages are taken in order; a request other than      *)
(* initialize is exchanged on a task of its own, anything else before the  *)
(* next message is taken.                                                  *)
(***************************************************************************)

Concurrent(msg) == IsRequest(msg.method) /\ msg.method # "initialize"
ClientTakes ==
    /\ client.queue # <<>> /\ \A x \in client.running : Concurrent(x.msg)
    /\ LET msg == Head(client.queue)
       IN  client' = [client EXCEPT !.queue = Tail(@), !.inits = IF msg.method = "initialize" THEN @ + 1 ELSE @,
                                    !.running = @ \cup {[msg |-> msg, after |-> client.inits, header |-> None]}]
    /\ UNCHANGED <<mode, st, cat, post, thread, srv, hub, seen>>

\* post: the session header is read when the request is made.
ExchangeSends(x) ==
    /\ x \in client.running /\ x.header = None
    /\ LET sent == [x EXCEPT !.header = [session |-> IF x.msg.method = "initialize" THEN 0 ELSE client.session]]
       IN  /\ client' = [client EXCEPT !.running = (@ \ {x}) \cup {sent}]
           /\ seen' = [seen EXCEPT !.posted = @ \cup {sent}]
    /\ UNCHANGED <<mode, st, cat, post, thread, srv, hub>>

\* exchange: the reply is relayed, or the message is reported undelivered; then it is settled.
ExchangeEnds(x) ==
    /\ x \in client.running /\ x.header # None
    /\ \E answered \in BOOLEAN : \E page \in Answers(Only, x.msg) :
        LET relayed == RelayOne(Reply(x.msg.id, "result", x.msg.origin), page)
        IN  /\ client' = [client EXCEPT !.running = @ \ {x}, !.busy = @ - 1,
                                        !.session = IF answered /\ x.msg.method = "initialize" THEN client.inits ELSE @]
            /\ CASE x.msg.id = NoId -> UNCHANGED <<cat, post, hub>>
                 [] x.msg.id # NoId /\ answered -> GivesWaiter(relayed.reply) /\ cat' = relayed.cat
                 [] OTHER -> GivesWaiter(Reply(x.msg.id, "upstream_unavailable", x.msg.origin)) /\ UNCHANGED cat
            /\ seen' = IF answered /\ x.msg.method = "initialize" THEN [seen EXCEPT !.granted = @ \cup {client.inits}] ELSE seen
    /\ UNCHANGED <<mode, st, thread, srv>>

(***************************************************************************)
(* Stopping: the agent closes its input, or the operator stops the         *)
(* listener, which lets the POSTs in flight end first.                     *)
(***************************************************************************)
Quiet == \A p \in Posts : post[p].phase = "done"
\* The servers' input is closed once idle, or after ten seconds (stdio); once no request
\* is in flight (HTTP).
ClosesServers ==
    /\ Quiet /\ \E s \in ServerSet : srv[s].stdin
    /\ srv' = [s \in ServerSet |-> [srv[s] EXCEPT !.stdin = FALSE]]
    /\ hub' = [hub EXCEPT !.stopping = TRUE]
    /\ UNCHANGED <<mode, st, cat, post, thread, client, seen>>

ClosesClient ==
    /\ mode = "relay" /\ Quiet
    /\ ~client.closed /\ client.busy = 0
    /\ client' = [client EXCEPT !.closed = TRUE]
    /\ hub' = [hub EXCEPT !.stopping = TRUE]
    /\ UNCHANGED <<mode, st, cat, post, thread, srv, seen>>

AgentStep(p) == Arrives(p) \/ Decides(p) \/ Dispatches(p) \/ PostEnds(p) \/ PostAnswered(p)
ThreadStep(t) == Finishes(t) \/ PerformsAnswer(t) \/ PerformsSend(t)
IngressStep(s) == Reads(s) \/ OutputEnds(s) \/ IngressEnds(s)
ServerStep(s) == ServerAnswers(s) \/ ServerObeys(s) \/ ServerSpeaks(s) \/ ServerDies(s)
ExchangeStep == \E x \in client.running : ExchangeSends(x) \/ ExchangeEnds(x)
ClientStep == ClientTakes \/ ExchangeStep \/ ClosesClient

Next ==
    \/ \E p \in Posts : AgentStep(p) \/ Disconnects(p)
    \/ \E t \in Threads : ThreadStep(t)
    \/ \E s \in ServerSet : IngressStep(s) \/ ServerStep(s)
    \/ ClientStep \/ ClosesServers

Spec == Init /\ [][Next]_vars

(***************************************************************************)
(* Properties.                                                             *)
(***************************************************************************)
TypeOK ==
    /\ mode \in Modes
    /\ DOMAIN st.waiting \subseteq 1..(st.nextId - 1) /\ DOMAIN st.jobs \subseteq 1..(st.nextJob - 1)
    /\ st.gone \subseteq ServerSet
    /\ DOMAIN hub.waiters \subseteq 1..(hub.nextId - 1)
    /\ client.busy = Len(client.queue) + Cardinality(client.running)
    /\ \A p \in Posts : post[p].phase \in {"new", "decide", "dispatch", "perform", "wait", "done"}

\* Each agent request is answered at most once and with the answer to that very request,
\* whichever thread took the reply off the waiting map and however ids were renumbered
\* on the way (send_routed, on_routed_line, post_mcp, Dispatch::route).
RepliesMatch == \A p \in Posts : seen.answers[p] \in {<<>>, <<p>>}

\* Every unfinished listing awaits exactly one page from each server that remains, none
\* from a server that is gone, and no page is awaited for a listing that is over: a
\* listing can neither hang on a dead server nor end early (start_listing, on_page,
\* server_gone).
JobsAwaitPages ==
    /\ \A job \in DOMAIN st.jobs :
        /\ st.jobs[job].remaining # {}
        /\ \A s \in st.jobs[job].remaining :
            Cardinality({n \in DOMAIN st.waiting : st.waiting[n].kind = "list" /\ st.waiting[n].job = job /\ st.waiting[n].server = s}) = 1
    /\ \A n \in DOMAIN st.waiting :
        /\ st.waiting[n].server \notin st.gone
        /\ st.waiting[n].kind = "list" => st.waiting[n].job \in DOMAIN st.jobs /\ st.waiting[n].server \in st.jobs[st.waiting[n].job].remaining

\* The agent never sees a second definition or a second server behind a tool name, and
\* its calls go to the server whose definition it saw, although listings are observed
\* outside the router's lock and in any order (Catalog::observe, Catalog::route).
OneToolPerName ==
    /\ \A x, y \in seen.shown : x[1] = y[1] => x = y
    /\ \A c \in seen.sent, x \in seen.shown : c[1] = "call" /\ post[c[2]].msg.tool = x[1] => c[3] = x[2]

\* A cancellation reaches a server only under the id of a request of the same session,
\* although sessions number their requests alike (post_mcp, Router cancel).
CancelsOwnRequest ==
    mode # "stdio" =>
        \A c, r \in seen.sent :
            c[1] = "cancelled" /\ IsRequest(r[1]) /\ r[3] = c[3] /\ r[4].id = c[4].ref => post[r[2]].session = post[c[2]].session

\* A message handed to the HTTP client after an initialize that succeeded carries that
\* session or a later one (HttpClient::start, post).
CarriesSession ==
    \A x \in seen.posted :
        x.msg.method # "initialize" => \A k \in seen.granted : k <= x.after => x.header.session >= k

\* Nothing is left to do: no thread has work, no server a request or unread output, no
\* exchange runs.
AllQuiet ==
    /\ \A t \in Threads : thread[t] = AtRest
    /\ \A p \in Posts : post[p].phase \in {"done", "wait"} /\ (post[p].phase = "wait" => post[p].reply = None /\ post[p].n \in DOMAIN hub.waiters)
    /\ \A s \in ServerSet : srv[s].out = <<>> /\ ~(\E m \in srv[s].inbox : IsRequest(m.method)) /\ (srv[s].alive \/ srv[s].ingress = "ended")
    /\ client.queue = <<>> /\ client.running = {}

\* No request is stranded: once nothing is left to do, every request whose client stayed
\* has been answered, though replies, write failures, transport errors, a server's exit
\* and the end of the last server race for it (a cancelled one a server need not answer).
NoneStranded ==
    AllQuiet => \A p \in Posts :
        \/ post[p].n = NoId /\ (mode = "stdio" => ~IsRequest(post[p].msg.method))
        \/ seen.answers[p] # <<>> \/ post[p].cut
        \/ \E c \in seen.sent : c[1] = "cancelled"

\* Through two renumberings of ids nothing reaches a stranger: a reply its own
\* request and no other, a cancellation a request of its own session
\* (post_mcp, send_routed, on_routed_line, cancel).
IdsStayPaired == RepliesMatch /\ CancelsOwnRequest

\* The tables of the router, the listener and the HTTP client agree with the
\* work under way: listings with the pages they await, sessions with the
\* initialize that granted them (Router, Hub, HttpClient).
TransportInv == TypeOK /\ JobsAwaitPages /\ CarriesSession
===============================================================================
