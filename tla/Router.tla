------------------------------- MODULE Router -------------------------------
(***************************************************************************)
(* The gate in front of several servers (proxy.rs, Router and the          *)
(* Interceptor's routing): the requests it sent under ids of its own and   *)
(* awaits, the tools/list it merges page by page, and the servers that     *)
(* went away.  Operators over the router's state                           *)
(*     st = [nextId, nextJob, waiting, jobs, gone]                         *)
(* each one critical section of its lock; they return the new state, the   *)
(* actions to perform (acts) and the listings to finish first, outside the *)
(* lock (fin).                                                             *)
(*                                                                         *)
(* A message is [method, id, tool, ref, origin]: id NoId is a notification,*)
(* ref the request a cancellation names, origin the agent message it       *)
(* stands for (not in the code; for the properties).  A reply is           *)
(* [id, page, origin], page what it lists: NoPage for any other result.    *)
(***************************************************************************)
EXTENDS ToolCatalog

CONSTANTS Servers,     \* the upstream servers' names, in flag order
          Default      \* {the server other requests go to}, or {}

ASSUME RouterAssumption ==
    /\ Servers \in Seq(ToSet(Servers)) /\ Servers # <<>> /\ IsInjective(Servers)
    /\ Default \subseteq ToSet(Servers) /\ Cardinality(Default) <= 1
    /\ "agent" \notin ToSet(Servers)      \* it stands for the agent in an action

NoId == 0
NextPage == 1
NoAgent == [none |-> TRUE]
NoPage == [kind |-> "none", tools |-> <<>>, more |-> FALSE]
Page(tools, more) == [kind |-> "tools", tools |-> tools, more |-> more]
ErrorPage == [kind |-> "error", tools |-> <<>>, more |-> FALSE]

ToAgent(reply) == [to |-> "agent", msg |-> reply]
ToUpstream(server, msg) == [to |-> server, msg |-> msg]
Reply(id, what, origin) == [id |-> id, what |-> what, tools |-> <<>>, origin |-> origin]
Notice == Reply(NoId, "notice", 0)

RouterInit == [nextId |-> 1, nextJob |-> 1, waiting |-> Empty, jobs |-> Empty, gone |-> {}]
Out(st, acts, fin) == [st |-> st, acts |-> acts, fin |-> fin]
Forget(f, keys) == Restrict(f, DOMAIN f \ keys)

\* idle: no listing page is awaited.
RouterIdle(st) == ~\E n \in DOMAIN st.waiting : st.waiting[n].kind = "list"

\* page_request for each of `servers` in turn; ref is the cursor (NoId: the first page).
PageRequests(st, job, servers, cursor) ==
    LET n(i) == st.nextId + i - 1
        page(server) == [kind |-> "list", job |-> job, id |-> NoId, origin |-> 0, server |-> server]
    IN  [st |-> [st EXCEPT !.nextId = @ + Len(servers),
                           !.waiting = [m \in DOMAIN @ \cup {n(i) : i \in DOMAIN servers} |->
                                           IF m < st.nextId THEN @[m] ELSE page(servers[m - st.nextId + 1])]],
         acts |-> [i \in DOMAIN servers |->
                     ToUpstream(servers[i], [method |-> "list", id |-> n(i), tool |-> <<>>, ref |-> cursor, origin |-> 0])]]

\* The servers that are not gone, in their order.
Live(servers, gone) ==
    LET upTo[i \in 0..Len(servers)] ==
            IF i = 0 THEN <<>> ELSE IF servers[i] \in gone THEN upTo[i - 1] ELSE Append(upTo[i - 1], servers[i])
    IN  upTo[Len(servers)]

StartListing(st, agent, servers) ==
    LET live == Live(servers, st.gone)
        numbered == [st EXCEPT !.nextJob = @ + 1]
        listing == [agent |-> agent, remaining |-> ToSet(live), tools |-> Empty, pages |-> 0]
        asked == PageRequests([numbered EXCEPT !.jobs = Insert(@, st.nextJob, listing)], st.nextJob, live, NoId)
    IN  IF live = <<>> THEN Out(numbered, <<>>, <<listing>>) ELSE Out(asked.st, asked.acts, <<>>)

SendRouted(st, server, msg) ==
    IF server \in st.gone
    THEN Out(st, IF msg.id = NoId THEN <<>> ELSE <<ToAgent(Reply(msg.id, "upstream_unavailable", msg.origin))>>, <<>>)
    ELSE IF msg.id = NoId THEN Out(st, <<ToUpstream(server, msg)>>, <<>>)
    ELSE Out([st EXCEPT !.nextId = @ + 1,
                        !.waiting = Insert(@, st.nextId, [kind |-> "agent", job |-> 0, id |-> msg.id,
                                                                 origin |-> msg.origin, server |-> server])],
             <<ToUpstream(server, [msg EXCEPT !.id = st.nextId])>>, <<>>)

\* The agent cancels: the first request found waiting under the id it names.
Cancel(st, msg) ==
    LET found == {n \in DOMAIN st.waiting : st.waiting[n].kind = "agent" /\ st.waiting[n].id = msg.ref}
        n == CHOOSE n \in found : TRUE
    IN  Out(st, IF found = {} THEN <<>> ELSE <<ToUpstream(st.waiting[n].server, [msg EXCEPT !.ref = n])>>, <<>>)

Broadcast(st, msg) ==
    LET live == Live(Servers, st.gone)
    IN  Out(st, [i \in DOMAIN live |-> ToUpstream(live[i], msg)], <<>>)

\* dispatch: a message the gate let through.
Dispatch(st, cat, msg) ==
    LET answer(what) == Out(st, <<ToAgent(Reply(msg.id, what, msg.origin))>>, <<>>)
    IN  CASE msg.method \in {"initialize", "ping"} -> answer("result")
          [] msg.method = "list" -> StartListing(st, [id |-> msg.id, origin |-> msg.origin], Servers)
          [] msg.method = "call" /\ RouteOf(cat, msg.tool) = {} -> answer("tool_unavailable")
          [] msg.method = "call" /\ RouteOf(cat, msg.tool) # {} ->
                LET owner == CHOOSE o \in RouteOf(cat, msg.tool) : TRUE
                IN  SendRouted(st, owner[1], [msg EXCEPT !.tool = owner[2]])
          [] msg.method = "cancelled" -> Cancel(st, msg)
          [] msg.method = "notification" -> Broadcast(st, msg)
          [] msg.method = "other" /\ Default = {} -> answer("method_not_found")
          [] msg.method = "other" /\ Default # {} -> SendRouted(st, CHOOSE s \in Default : TRUE, msg)

\* on_page: one page of `server` for a job that may have ended meanwhile.
OnPage(st, job, server, page) ==
    IF job \notin DOMAIN st.jobs THEN Out(st, <<>>, <<>>)
    ELSE LET old == st.jobs[job]
             so_far == IF server \in DOMAIN old.tools THEN old.tools[server] ELSE <<>>
             tools == IF page.kind = "error" THEN Forget(old.tools, {server})
                      ELSE Insert(old.tools, server, so_far \o page.tools)
             more == page.more /\ old.pages + 1 < MaxPages * Len(Servers)
             listing == [old EXCEPT !.pages = @ + 1, !.tools = tools,
                                    !.remaining = IF more THEN @ ELSE @ \ {server}]
             updated == [st EXCEPT !.jobs[job] = listing]
             asked == PageRequests(updated, job, <<server>>, NextPage)
         IN  CASE more -> Out(asked.st, asked.acts, <<>>)
               [] ~more /\ listing.remaining # {} -> Out(updated, <<>>, <<>>)
               [] OTHER -> Out([st EXCEPT !.jobs = Forget(@, {job})], <<>>, <<listing>>)

\* A reply under the gate's id n, or a message of it that was not delivered.
TakeReply(st, n, relayed, page) ==
    IF n \notin DOMAIN st.waiting THEN Out(st, <<>>, <<>>)
    ELSE LET w == st.waiting[n]
             rest == [st EXCEPT !.waiting = Forget(@, {n})]
         IN  IF w.kind = "agent" THEN Out(rest, <<ToAgent([relayed EXCEPT !.id = w.id])>>, <<>>)
             ELSE OnPage(rest, w.job, w.server, page)

\* on_routed_line: a line is [what, id, page, origin].
OnRoutedLine(st, server, line) ==
    CASE line.what = "request" -> Out(st, <<ToUpstream(server, [method |-> "refusal", id |-> NoId, tool |-> <<>>, ref |-> NoId, origin |-> 0])>>, <<>>)
      [] line.what = "list_changed" ->
            LET listing == StartListing(st, NoAgent, <<server>>)
            IN  [listing EXCEPT !.acts = Append(@, ToAgent(Notice))]
      [] line.what = "notification" -> Out(st, <<ToAgent(Notice)>>, <<>>)
      [] line.what = "reply" -> TakeReply(st, line.id, Reply(line.id, "result", line.origin), line.page)

\* on_upstream_error for a message the transport could not deliver.
OnRoutedError(st, msg) ==
    IF msg.id = NoId \/ msg.id \notin DOMAIN st.waiting THEN Out(st, <<>>, <<>>)
    ELSE TakeReply(st, msg.id, Reply(msg.id, "upstream_unavailable", st.waiting[msg.id].origin), ErrorPage)

\* Mutant: the server is marked gone; what it left unanswered is forgotten.
ServerGone_Unanswered(st, server) ==
    Out([st EXCEPT !.gone = @ \cup {server},
                   !.waiting = Forget(@, {n \in DOMAIN @ : @[n].server = server /\ @[n].kind = "agent"})], <<>>, <<>>)

\* Mutant: only what the agent awaits is given up, not the listing pages.
ServerGone_KeepsPages(st, server) ==
    LET ours == {n \in DOMAIN st.waiting : st.waiting[n].server = server /\ st.waiting[n].kind = "agent"}
        agents == SetToSeq(ours)
    IN  Out([st EXCEPT !.gone = @ \cup {server}, !.waiting = Forget(@, ours)],
            [i \in DOMAIN agents |->
                ToAgent(Reply(st.waiting[agents[i]].id, "upstream_unavailable", st.waiting[agents[i]].origin))], <<>>)

\* server_gone: what it left unanswered is answered, what only waited for it is finished.
ServerGone(st, server) ==
    LET ours == {n \in DOMAIN st.waiting : st.waiting[n].server = server}
        agents == SetToSeq({n \in ours : st.waiting[n].kind = "agent"})
        touched == {st.waiting[n].job : n \in {n \in ours : st.waiting[n].kind = "list"}} \cap DOMAIN st.jobs
        without(job) == [st.jobs[job] EXCEPT !.remaining = @ \ {server}, !.tools = Forget(@, {server})]
        over == {job \in touched : without(job).remaining = {}}
        ended == SetToSeq(over)
    IN  Out([st EXCEPT !.gone = @ \cup {server}, !.waiting = Forget(@, ours),
                       !.jobs = [job \in DOMAIN @ \ over |-> IF job \in touched THEN without(job) ELSE @[job]]],
            [i \in DOMAIN agents |->
                ToAgent(Reply(st.waiting[agents[i]].id, "upstream_unavailable", st.waiting[agents[i]].origin))],
            [i \in DOMAIN ended |-> without(ended[i])])
===============================================================================
