--------------------------------- MODULE Api ---------------------------------
(***************************************************************************)
(* The REST server: lumo/api.py over ThreadingHTTPServer, with the event   *)
(* bus (lumo/monitor/events.py) and the webhooks it feeds (webhooks.py).   *)
(* Its one LumoClient and its one dispatcher are attributes of the handler *)
(* class, built by whichever request needs them first and shared by all    *)
(* threads without a lock; building the client opens the database (module  *)
(* Startup).                                                               *)
(*                                                                         *)
(* A proposal is here what it publishes: one event, of which the guards    *)
(* and the database are in module Pipeline.  config.monitoring is on.      *)
(***************************************************************************)
EXTENDS Startup

CONSTANTS Threads,     \* threads that serve requests at the same time
          Urls,        \* webhook URLs that requests register
          ConfigUrls,  \* config.webhook_urls
          None,        \* no URL
          ATTEMPTS,    \* posts of an event to a URL before it is dropped
          Scenarios    \* the instances that are explored, see Scenario

(* Bounds: the version of the database at the start, the processes besides *)
(* the server, and how many proposals come at most.                        *)
Scenario == [version : 0..5, others : SUBSET (Openers \ Threads), events : Nat]

ASSUME ApiAssumption ==
  /\ Threads \subseteq Openers
  /\ ConfigUrls \in Seq(Range(ConfigUrls))
  /\ None \notin Urls
  /\ ATTEMPTS \in Nat \ {0}
  /\ Scenarios \subseteq Scenario

VARIABLES client,       \* ApiHandler.client, 0 for None
          dispatcher,   \* ApiHandler.dispatcher, 0 for None
          subscribers,  \* EventBus.subscribers of each client ever built
          urls,         \* WebhookDispatcher.urls of each one ever built
          thread,       \* what each thread is doing
          answered,     \* history: the URLs a request was told are registered
          events        \* bound: how many proposals may still come

serverVars == <<startupVars, client, dispatcher, subscribers, urls, thread,
                answered, events>>

AllUrls == Urls \cup Range(ConfigUrls)

(* A thread: its request, the client and the dispatcher it got hold of,    *)
(* its place among the subscribers and their URLs and the attempts there;  *)
(* as history, the URLs its event is due to, how often a post to each has  *)
(* failed, and the URLs that took it or were no longer allowed.            *)
Idle == [pc |-> "idle", request |-> "none", url |-> None, client |-> 0,
         dispatcher |-> 0, at |-> <<1, 1>>, tries |-> 0, due |-> {},
         failures |-> [u \in AllUrls |-> 0], settled |-> {}]

ServerTypeOK ==
  /\ StartupTypeOK
  /\ client \in 0..Len(subscribers) /\ dispatcher \in 0..Len(urls)
  /\ \A c \in DOMAIN subscribers : Range(subscribers[c]) \subseteq DOMAIN urls
  /\ \A d \in DOMAIN urls : Range(urls[d]) \subseteq AllUrls
  /\ answered \subseteq Urls
  /\ events \in Nat
  /\ \A t \in Threads :
       /\ thread[t].client \in 0..Len(subscribers)
       /\ thread[t].dispatcher \in 0..Len(urls)
       /\ thread[t].tries \in 0..ATTEMPTS - 1
       /\ thread[t].pc = "constructing" <=> opener[t].pc # "closed"
       /\ \A u \in AllUrls : thread[t].failures[u] \in Nat

ServerInit ==
  /\ \E s \in Scenarios :
       StartupInit(s.version, Threads \cup s.others) /\ events = s.events
  /\ client = 0 /\ dispatcher = 0
  /\ subscribers = << >> /\ urls = << >>
  /\ thread = [t \in Threads |-> Idle]
  /\ answered = {}

-----------------------------------------------------------------------------
In(t, pc) == thread[t].pc = pc
Continue(t, pc) == thread' = [thread EXCEPT ![t].pc = pc]
Respond(t) == thread' = [thread EXCEPT ![t] = Idle]

(* do_POST: a request arrives, with its body already found in order.       *)
post_intents(t) ==
  /\ In(t, "idle") /\ events > 0
  /\ thread' = [thread EXCEPT ![t] = [Idle EXCEPT !.pc = "client",
                                                  !.request = "propose"]]
  /\ events' = events - 1
  /\ UNCHANGED <<startupVars, client, dispatcher, subscribers, urls, answered>>

post_webhooks(t) ==
  /\ In(t, "idle")
  /\ \E url \in Urls :
       thread' = [thread EXCEPT ![t] = [Idle EXCEPT !.pc = "dispatcher",
                                          !.request = "register", !.url = url]]
  /\ UNCHANGED <<startupVars, client, dispatcher, subscribers, urls, answered, events>>

(***************************************************************************)
(* _client: without a client, construct one, assign it, and read again.    *)
(***************************************************************************)
GetClient(t) ==
  /\ In(t, "client") /\ client # 0
  /\ thread' = [thread EXCEPT ![t].client = client,
                  ![t].pc = IF thread[t].request = "propose"
                            THEN "propose" ELSE "subscribe"]
  /\ UNCHANGED <<startupVars, client, dispatcher, subscribers, urls, answered, events>>

Construct(t) ==
  /\ In(t, "client") /\ client = 0
  /\ connect(t, FALSE)
  /\ Continue(t, "constructing")
  /\ UNCHANGED <<client, dispatcher, subscribers, urls, answered, events>>

(* A constructor that raises answers the request with status 500.          *)
Constructing(t) ==
  /\ In(t, "constructing")
  /\ Opening(t)
  /\ IF opener'[t] = Closed THEN Respond(t) ELSE UNCHANGED thread
  /\ UNCHANGED <<client, dispatcher, subscribers, urls, answered, events>>

(* The end of the constructor, whose bus already has the configured URLs,  *)
(* and the assignment, whatever another thread assigned in between.        *)
Constructed(t) ==
  /\ In(t, "constructing") /\ At(t, "open")
  /\ Close(t)
  /\ urls' = Append(urls, ConfigUrls)
  /\ subscribers' =
       Append(subscribers, IF ConfigUrls = << >> THEN << >> ELSE <<Len(urls')>>)
  /\ client' = Len(subscribers')
  /\ Continue(t, "client")
  /\ UNCHANGED <<tables, applied, stored, dispatcher, answered, events>>

(***************************************************************************)
(* _dispatcher: without one, assign a new one, then get the client, and    *)
(* subscribe to its bus what is then the dispatcher.                       *)
(***************************************************************************)
CheckDispatcher(t) ==
  /\ In(t, "dispatcher")
  /\ Continue(t, IF dispatcher = 0 THEN "new_dispatcher" ELSE "lookup")
  /\ UNCHANGED <<startupVars, client, dispatcher, subscribers, urls, answered, events>>

NewDispatcher(t) ==
  /\ In(t, "new_dispatcher")
  /\ urls' = Append(urls, << >>)
  /\ dispatcher' = Len(urls')
  /\ Continue(t, "client")
  /\ UNCHANGED <<startupVars, client, subscribers, answered, events>>

on_event(t) ==
  /\ In(t, "subscribe")
  /\ subscribers' = [subscribers EXCEPT ![thread[t].client] = Append(@, dispatcher)]
  /\ Continue(t, "lookup")
  /\ UNCHANGED <<startupVars, client, dispatcher, urls, answered, events>>

(* "if url not in dispatcher.urls", of the dispatcher read just before.    *)
Lookup(t) ==
  /\ In(t, "lookup")
  /\ IF thread[t].url \in Range(urls[dispatcher])
     THEN Respond(t) /\ answered' = answered \cup {thread[t].url}
     ELSE /\ thread' = [thread EXCEPT ![t].pc = "register",
                                      ![t].dispatcher = dispatcher]
          /\ UNCHANGED answered
  /\ UNCHANGED <<startupVars, client, dispatcher, subscribers, urls, events>>

(* _validate_url, and if it agrees the append and the answer.              *)
register(t) ==
  /\ In(t, "register")
  /\ Respond(t)
  /\ \/ /\ urls' = [urls EXCEPT ![thread[t].dispatcher] = Append(@, thread[t].url)]
        /\ answered' = answered \cup {thread[t].url}
     \/ UNCHANGED <<urls, answered>>
  /\ UNCHANGED <<startupVars, client, dispatcher, subscribers, events>>

(***************************************************************************)
(* EventBus.publish and WebhookDispatcher.__call__.  Both lists are walked *)
(* while other threads append to them.                                     *)
(***************************************************************************)
Bus(t) == subscribers[thread[t].client]

publish(t) ==
  /\ In(t, "propose")
  /\ thread' = [thread EXCEPT ![t].pc = "publish",
                  ![t].due = UNION {Range(urls[d]) : d \in Range(Bus(t))}]
  /\ UNCHANGED <<startupVars, client, dispatcher, subscribers, urls, answered, events>>

(* The subscriber t has come to, its URLs, and the one of them.            *)
Subscriber(t) == Bus(t)[thread[t].at[1]]
HasSubscriber(t) == thread[t].at[1] <= Len(Bus(t))
HasUrl(t) == thread[t].at[2] <= Len(urls[Subscriber(t)])
Url(t) == urls[Subscriber(t)][thread[t].at[2]]

NextUrl(state) == [state EXCEPT !.pc = "publish", !.at[2] = @ + 1, !.tries = 0]

(* The URL is validated again; one that fails is passed over.              *)
Dispatch(t) ==
  LET self == thread[t] IN
  /\ In(t, "publish")
  /\ thread' \in {[thread EXCEPT ![t] = next] : next \in
       IF ~HasSubscriber(t) THEN {[self EXCEPT !.pc = "answer"]}
       ELSE IF ~HasUrl(t) THEN {[self EXCEPT !.at = <<self.at[1] + 1, 1>>]}
       ELSE {[self EXCEPT !.pc = "post"],
             NextUrl([self EXCEPT !.settled = @ \cup {Url(t)}])}}
  /\ UNCHANGED <<startupVars, client, dispatcher, subscribers, urls, answered, events>>

(* Broken: the exception of a post leaves the dispatcher.                  *)
Failed_raising(self, url) ==
  [self EXCEPT !.pc = "answer", !.failures[url] = @ + 1]

(* Broken: a URL is not left before it took the event.                     *)
Failed_retrying(self, url) == [self EXCEPT !.pc = "publish"]

(* Broken: one attempt too many.                                           *)
Failed_once_more(self, url) ==
  LET failed == [self EXCEPT !.tries = @ + 1, !.failures[url] = @ + 1] IN
  IF failed.tries <= ATTEMPTS THEN failed ELSE NextUrl(failed)

(* After a failed post: retry, then drop.                                  *)
Failed(self, url) ==
  LET failed == [self EXCEPT !.tries = @ + 1, !.failures[url] = @ + 1] IN
  IF failed.tries < ATTEMPTS THEN failed ELSE NextUrl(failed)

(* HttpSink.post: 2xx, or an exception, after which the event may have     *)
(* arrived all the same.                                                   *)
Post(t) ==
  LET self == thread[t]
      taken == [self EXCEPT !.settled = @ \cup {Url(t)}] IN
  /\ In(t, "post")
  /\ \/ thread' = [thread EXCEPT ![t] = NextUrl(taken)]
     \/ thread' = [thread EXCEPT ![t] = Failed(self, Url(t))]
  /\ UNCHANGED <<startupVars, client, dispatcher, subscribers, urls, answered, events>>

Answer(t) ==
  /\ In(t, "answer")
  /\ Respond(t)
  /\ UNCHANGED <<startupVars, client, dispatcher, subscribers, urls, answered, events>>

-----------------------------------------------------------------------------
(* The server process ends and is started again: its memory is gone.       *)
Restart ==
  /\ client' = 0 /\ dispatcher' = 0
  /\ subscribers' = << >> /\ urls' = << >>
  /\ thread' = [t \in Threads |-> Idle]
  /\ answered' = {}
  /\ opener' = [o \in Openers |-> IF o \in Threads THEN Closed ELSE opener[o]]
  /\ UNCHANGED <<tables, applied, stored, events>>

(* `lumo init', another process that embeds the SDK (lumo/mcp.py), or      *)
(* `lumo propose'.                                                         *)
Other(o) ==
  /\ \/ \E init \in BOOLEAN : connect(o, init)
     \/ Opening(o)
     \/ At(o, "open") /\ Close(o) /\ UNCHANGED <<tables, applied, stored>>
     \/ \E r \in Rows : Write(o, r)
  /\ UNCHANGED <<client, dispatcher, subscribers, urls, thread, answered, events>>

Serve(t) ==
  \/ GetClient(t) \/ Construct(t) \/ Constructing(t) \/ Constructed(t)
  \/ CheckDispatcher(t) \/ NewDispatcher(t) \/ on_event(t)
  \/ Lookup(t) \/ register(t)
  \/ publish(t) \/ Dispatch(t) \/ Post(t) \/ Answer(t)

ServerNext ==
  \/ \E t \in Threads : post_intents(t) \/ post_webhooks(t) \/ Serve(t)
  \/ \E o \in Openers \ Threads : Other(o)
  \/ Restart

(* A thread that serves a request is scheduled again and again; requests,  *)
(* other processes and restarts come as they like.                         *)
ServerSpec == ServerInit /\ [][ServerNext]_serverVars
                         /\ \A t \in Threads : WF_serverVars(Serve(t))

-----------------------------------------------------------------------------
(* "retry, then drop": when a proposal is answered, its event has been     *)
(* offered to every URL it was due to, the configured ones among them: it  *)
(* was taken, or the URL refused as unsafe, or ATTEMPTS posts failed;      *)
(* whatever failed before it, whoever registered meanwhile.                *)
DeliveryComplete ==
  \A t \in Threads : In(t, "answer") =>
    \A u \in thread[t].due \cup Range(ConfigUrls) :
      u \in thread[t].settled \/ thread[t].failures[u] >= ATTEMPTS

(* "delivery failure must never block the money path": every request is    *)
(* answered (with an error it may be), or the server is restarted first.   *)
EveryRequestAnswered ==
  \A t \in Threads : ~In(t, "idle") ~> In(t, "idle")

(* docs/integration.md: "each event is POSTed as JSON to every registered  *)
(* URL": an event is due to all the URLs that requests were told, before   *)
(* it was published and since the server started, are registered.          *)
RegisteredIsNotified ==
  [][\A t \in Threads : In(t, "propose") /\ (In(t, "publish"))'
                          => answered \subseteq thread'[t].due]_serverVars

=============================================================================
