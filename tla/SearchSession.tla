--------------------------- MODULE SearchSession ---------------------------
(***************************************************************************)
(* The summon window (frontend/src/App.vue) and the session behind it:     *)
(* SearchService.last (service/search_service.go, plugin_views.go) and the *)
(* one active plugin view of the manager (internal/plugin/views.go).       *)
(*                                                                         *)
(* The window runs one callback at a time; every backend call it makes is  *)
(* a goroutine of its own, whose answer comes back whenever it likes.      *)
(***************************************************************************)
EXTENDS Naturals, Sequences

CONSTANTS
  Blank,       \* the empty query
  Queries,     \* what the user may type, Blank among it
  Actions,     \* what activating a row does
  ViewActions, \* those of them that open a plugin view
  ListActions, \* those that call the plugin for a secondary list
  Ids,         \* result ids
  Found,       \* the rows Engine.Search finds for a query
  ListOf,      \* the rows a list action returns
  Nil,         \* no row, no action
  MaxInputs,   \* bound: things the user does
  MaxReloads   \* bound: times the plugin is reloaded

Rows == [id : Ids, act : Actions]

\* The rows of one list have distinct ids: SearchService.last is a map by id.
Keyed(rows) == \A r, s \in rows : r.id = s.id => r = s

ASSUME SessionAssumption ==
  /\ Blank \in Queries
  /\ ViewActions \cup ListActions \subseteq Actions
  /\ ViewActions \cap ListActions = {}
  /\ Found \in [Queries \ {Blank} -> SUBSET Rows] /\ \A q \in Queries \ {Blank} : Keyed(Found[q])
  /\ ListOf \in [ListActions -> SUBSET Rows] /\ \A a \in ListActions : Keyed(ListOf[a])
  /\ MaxInputs \in Nat /\ MaxReloads \in Nat

VARIABLES
  \* the window
  visible, query, results, viewStack, detail, seq,
  timer,      \* is the debounce timer armed
  \* backend calls in flight
  searches,   \* Search
  call,       \* the Execute or OpenPluginView of activate; actionPending
  event,      \* PluginViewEvent; detailBusy
  closes,     \* ClosePluginView
  \* the backend
  last,       \* SearchService.last
  activeView, \* Manager.activeView
  runtime,    \* generation of the plugin's runtime
  \* counters
  inputs, tokens

window == <<visible, query, results, viewStack, detail, seq, timer>>
calls == <<searches, call, event, closes>>
backend == <<last, activeView, runtime>>
vars == <<window, calls, backend, inputs, tokens>>

NoToken == 0
NoDetail == [token |-> NoToken, page |-> 0]
NoView == [token |-> NoToken, page |-> 0, rt |-> 0]
NoCall == [st |-> "none", mine |-> 0, row |-> Nil, replace |-> FALSE, act |-> Nil,
           rt |-> 0, rows |-> {}, token |-> NoToken]
NoEvent == [st |-> "none", mine |-> 0, rt |-> 0, token |-> NoToken, page |-> 0]

SearchCall == [mine : Nat, query : Queries \ {Blank}, st : {"sent", "stored"}]
ActionCall ==
  {c \in [st : {"none", "sent", "running", "error", "rows", "page"}, mine : Nat,
          row : Rows \cup {Nil}, replace : BOOLEAN, act : Actions \cup {Nil},
          rt : Nat, rows : SUBSET Rows, token : Nat] :
     /\ c.st # "none" => c.row \in Rows
     /\ c.st = "running" => c.act \in ViewActions \cup ListActions}
EventCall ==
  [st : {"none", "sent", "error", "page"}, mine : Nat, rt : Nat, token : Nat, page : Nat]

TypeOK ==
  /\ visible \in BOOLEAN /\ timer \in BOOLEAN
  /\ query \in Queries
  /\ results \subseteq Rows
  /\ viewStack \in Seq(SUBSET Rows)
  /\ detail \in [token : Nat, page : Nat]
  /\ seq \in Nat
  /\ searches \subseteq SearchCall /\ call \in ActionCall /\ event \in EventCall
  /\ closes \subseteq Nat
  /\ last \subseteq Rows /\ Keyed(last)
  /\ activeView \in [token : Nat, page : Nat, rt : Nat]
  /\ runtime \in 0..MaxReloads
  /\ inputs \in 0..MaxInputs /\ tokens \in Nat

Init ==
  /\ visible = TRUE /\ query = Blank /\ results = {} /\ viewStack = <<>>
  /\ detail = NoDetail /\ seq = 0 /\ timer = FALSE
  /\ searches = {} /\ call = NoCall /\ event = NoEvent /\ closes = {}
  /\ last = {} /\ activeView = NoView /\ runtime = 0
  /\ inputs = 0 /\ tokens = 0

----------------------------------------------------------------------------
(* Helpers.                                                                *)

Input == visible /\ inputs < MaxInputs /\ inputs' = inputs + 1

\* The list (with its input field) is on screen, not a detail page.
ListShown == detail = NoDetail

CloseDetail ==
  /\ detail' = NoDetail
  /\ closes' = IF ListShown THEN closes ELSE closes \cup {detail.token}

\* Faulty Reset: calls in flight are not invalidated.
ResetKeepsSeq ==
  /\ CloseDetail
  /\ query' = Blank /\ results' = {} /\ viewStack' = <<>>
  /\ UNCHANGED seq

\* The timer is not cleared: it will search the blank query.
Reset ==
  /\ CloseDetail
  /\ seq' = seq + 1
  /\ query' = Blank /\ results' = {} /\ viewStack' = <<>>

\* Every way to hide the window ends in reset, at the visibilitychange event.
HideWindow == visible' = FALSE /\ Reset

----------------------------------------------------------------------------
(* Searching.                                                              *)

OnInput(q) ==
  /\ Input /\ ListShown /\ q # query
  /\ query' = q
  /\ IF viewStack = <<>> THEN UNCHANGED <<results, viewStack>>
     ELSE results' = viewStack[Len(viewStack)] /\ viewStack' = <<>>
  /\ timer' = TRUE
  /\ UNCHANGED <<visible, detail, seq, calls, backend, tokens>>

RunSearch ==
  /\ timer
  /\ timer' = FALSE
  /\ seq' = seq + 1
  /\ IF query = Blank
       THEN results' = {} /\ UNCHANGED searches
       ELSE /\ searches' = searches \cup {[mine |-> seq', query |-> query, st |-> "sent"]}
            /\ UNCHANGED results
  /\ UNCHANGED <<visible, query, viewStack, detail, call, event, closes, backend,
                 inputs, tokens>>

\* SearchService.Search: engine, then s.last under the lock.
SearchStores(s) ==
  /\ s.st = "sent"
  /\ last' = Found[s.query]
  /\ searches' = (searches \ {s}) \cup {[s EXCEPT !.st = "stored"]}
  /\ UNCHANGED <<window, call, event, closes, activeView, runtime, inputs, tokens>>

SearchArrives(s) ==
  /\ s.st = "stored"
  /\ searches' = searches \ {s}
  /\ results' = IF s.mine = seq THEN Found[s.query] ELSE results
  /\ UNCHANGED <<visible, query, viewStack, detail, seq, timer, call, event, closes,
                 backend, inputs, tokens>>

----------------------------------------------------------------------------
(* Activating a row.                                                       *)

Activate(row, replace) ==
  /\ Input /\ ListShown /\ call.st = "none" /\ row \in results
  /\ replace => viewStack # <<>>
  /\ timer' = (timer /\ row.act \notin ViewActions)
  /\ call' = [NoCall EXCEPT !.st = "sent", !.mine = seq, !.row = row, !.replace = replace]
  /\ UNCHANGED <<visible, query, results, viewStack, detail, seq, searches, event,
                 closes, backend, tokens>>

\* Execute and OpenPluginView take the action from s.last, by id; each knows
\* its own kinds only. A row that ends the interaction does so at once, or fails.
CallLooksUp ==
  /\ call.st = "sent"
  /\ LET isView(act) == act \in ViewActions
         rows == {r \in last : r.id = call.row.id /\ isView(r.act) = isView(call.row.act)}
     IN  IF rows = {} THEN call' = [call EXCEPT !.st = "error"]
         ELSE \E r \in rows :
                \E st \in IF r.act \in ViewActions \cup ListActions
                            THEN {"running"} ELSE {"rows", "error"} :
                  call' = [call EXCEPT !.act = r.act, !.rt = runtime, !.st = st]
  /\ UNCHANGED <<window, searches, event, closes, backend, inputs, tokens>>

CallFails ==
  /\ call.st = "running"
  /\ call' = [call EXCEPT !.st = "error"]
  /\ UNCHANGED <<window, searches, event, closes, backend, inputs, tokens>>

\* Faulty CallLists: the new rows do not replace those with their ids.
CallListsAppending ==
  /\ call.st = "running" /\ call.act \in ListActions
  /\ last' = last \cup ListOf[call.act]
  /\ call' = [call EXCEPT !.st = "rows", !.rows = ListOf[call.act]]
  /\ UNCHANGED <<window, searches, event, closes, activeView, runtime, inputs, tokens>>

\* runPluginAction merges the secondary rows into s.last, by id.
CallLists ==
  /\ call.st = "running" /\ call.act \in ListActions
  /\ LET rows == ListOf[call.act]
     IN  /\ last' = {r \in last : \A n \in rows : n.id # r.id} \cup rows
         /\ call' = [call EXCEPT !.st = "rows", !.rows = rows]
  /\ UNCHANGED <<window, searches, event, closes, activeView, runtime, inputs, tokens>>

\* Manager.OpenView: a new session replaces the active one. It belongs to the
\* runtime that rendered the page, which a reload may have replaced since.
CallOpens ==
  /\ call.st = "running" /\ call.act \in ViewActions
  /\ tokens' = tokens + 1
  /\ \E rt \in call.rt..runtime :
       activeView' = [token |-> tokens', page |-> 0, rt |-> rt]
  /\ call' = [call EXCEPT !.st = "page", !.token = tokens']
  /\ UNCHANGED <<window, searches, event, closes, last, runtime, inputs>>

ErrorArrives ==
  /\ call.st = "error"
  /\ call' = NoCall
  /\ UNCHANGED <<window, searches, event, closes, backend, inputs, tokens>>

RowsArrive ==
  /\ call.st = "rows"
  /\ call' = NoCall
  /\ \/ call.mine # seq /\ UNCHANGED <<window, closes>>
     \/ /\ call.mine = seq /\ call.rows # {}
        /\ seq' = seq + 1
        /\ viewStack' = IF call.replace THEN viewStack ELSE Append(viewStack, results)
        /\ results' = call.rows
        /\ UNCHANGED <<visible, query, detail, timer, closes>>
     \/ /\ call.mine = seq /\ call.rows = {}
        /\ HideWindow
        /\ UNCHANGED timer
  /\ UNCHANGED <<searches, event, backend, inputs, tokens>>

\* Faulty PageArrives: the session of a page nobody waits for stays open.
PageArrivesUnclosed ==
  /\ call.st = "page"
  /\ call' = NoCall
  /\ IF call.mine = seq
       THEN seq' = seq + 1 /\ detail' = [token |-> call.token, page |-> 0]
       ELSE UNCHANGED <<seq, detail>>
  /\ UNCHANGED <<visible, query, results, viewStack, timer, searches, event, closes,
                 backend, inputs, tokens>>

PageArrives ==
  /\ call.st = "page"
  /\ call' = NoCall
  /\ IF call.mine = seq
       THEN /\ seq' = seq + 1
            /\ detail' = [token |-> call.token, page |-> 0]
            /\ UNCHANGED closes
       ELSE closes' = closes \cup {call.token} /\ UNCHANGED <<seq, detail>>
  /\ UNCHANGED <<visible, query, results, viewStack, timer, searches, event, backend,
                 inputs, tokens>>

----------------------------------------------------------------------------
(* The detail page.                                                        *)

RunViewEvent ==
  /\ Input /\ ~ListShown /\ event.st = "none"
  /\ event' = [NoEvent EXCEPT !.st = "sent", !.mine = seq, !.rt = runtime,
                                  !.token = detail.token]
  /\ UNCHANGED <<window, searches, call, closes, backend, tokens>>

\* Manager.ViewEvent, which finds the plugin's runtime of some moment since the
\* call: a session that outlived its runtime is dropped. An unknown session, a
\* disabled plugin or one that fails changes nothing here.
ViewEvent ==
  /\ event.st = "sent"
  /\ \/ /\ activeView.token = event.token
        /\ \E rt \in event.rt..runtime :
             IF activeView.rt = rt
               THEN /\ activeView' = [activeView EXCEPT !.page = @ + 1]
                    /\ event' = [event EXCEPT !.st = "page", !.page = activeView.page + 1]
               ELSE activeView' = NoView /\ event' = [event EXCEPT !.st = "error"]
     \/ UNCHANGED activeView /\ event' = [event EXCEPT !.st = "error"]
  /\ UNCHANGED <<window, searches, call, closes, last, runtime, inputs, tokens>>

ViewEventArrives ==
  /\ event.st \in {"page", "error"}
  /\ event' = NoEvent
  /\ detail' = IF event.st = "page" /\ event.mine = seq /\ detail.token = event.token
                 THEN [detail EXCEPT !.page = event.page] ELSE detail
  /\ UNCHANGED <<visible, query, results, viewStack, seq, timer, searches, call, closes,
                 backend, inputs, tokens>>

\* Faulty CloseView: whatever session is active.
CloseAnyView(t) ==
  /\ t \in closes
  /\ closes' = closes \ {t}
  /\ activeView' = NoView
  /\ UNCHANGED <<window, searches, call, event, last, runtime, inputs, tokens>>

\* Manager.CloseView: only the session it names.
CloseView(t) ==
  /\ t \in closes
  /\ closes' = closes \ {t}
  /\ activeView' = IF activeView.token = t THEN NoView ELSE activeView
  /\ UNCHANGED <<window, searches, call, event, last, runtime, inputs, tokens>>

BackFromDetail ==
  /\ Input /\ ~ListShown
  /\ seq' = seq + 1
  /\ CloseDetail
  /\ UNCHANGED <<visible, query, results, viewStack, timer, searches, call, event,
                 backend, tokens>>

----------------------------------------------------------------------------
(* Leaving the list, the window, and the plugin's reloads.                 *)

Escape ==
  /\ Input /\ ListShown
  /\ IF viewStack # <<>>
       THEN /\ seq' = seq + 1
            /\ results' = viewStack[Len(viewStack)]
            /\ viewStack' = SubSeq(viewStack, 1, Len(viewStack) - 1)
            /\ UNCHANGED <<visible, query, detail, closes>>
       ELSE HideWindow
  /\ UNCHANGED <<timer, searches, call, event, backend, tokens>>

LosesFocus ==
  /\ Input
  /\ HideWindow
  /\ UNCHANGED <<timer, searches, call, event, backend, tokens>>

Shown ==
  /\ ~visible
  /\ visible' = TRUE
  /\ Reset
  /\ UNCHANGED <<timer, searches, call, event, backend, inputs, tokens>>

PluginReloads ==
  /\ runtime < MaxReloads
  /\ runtime' = runtime + 1
  /\ UNCHANGED <<window, calls, last, activeView, inputs, tokens>>

----------------------------------------------------------------------------
UserActs ==
  \/ \E q \in Queries : OnInput(q)
  \/ \E row \in results, replace \in BOOLEAN : Activate(row, replace)
  \/ RunViewEvent \/ BackFromDetail \/ Escape \/ LosesFocus \/ Shown

SearchProceeds == RunSearch \/ \E s \in searches : SearchStores(s) \/ SearchArrives(s)
CallProceeds ==
  \/ CallLooksUp \/ CallFails \/ CallLists \/ CallOpens
  \/ ErrorArrives \/ RowsArrive \/ PageArrives
ViewProceeds == ViewEvent \/ ViewEventArrives \/ \E t \in closes : CloseView(t)

Next == UserActs \/ SearchProceeds \/ CallProceeds \/ ViewProceeds \/ PluginReloads

Spec == Init /\ [][Next]_vars

----------------------------------------------------------------------------
(* Properties.                                                             *)

\* The tag a call took from seq when it was made: none is from the future, and
\* a window that hides invalidates the tags of all calls in flight.
Stamped(mine) == mine <= seq /\ (~visible => mine # seq)

\* Nothing that was in flight when the window was hidden paints it again:
\* every summon starts from a clean slate.
HiddenIsBlank ==
  ~visible => query = Blank /\ results = {} /\ viewStack = <<>> /\ ListShown

\* The inductive invariant behind it: what may still arrive carries a tag that
\* the hidden window no longer accepts (the comparisons of mine with seq in
\* App.vue), and a search waiting for the debounce timer asks for nothing.
Tags ==
  /\ \A s \in searches : Stamped(s.mine)
  /\ call.st # "none" => Stamped(call.mine)
  /\ event.st # "none" => Stamped(event.mine)

HiddenInv == TypeOK /\ HiddenIsBlank /\ Tags

\* With no answer and no close on its way, a plugin view session is open only
\* while its page is on screen.
NoOrphanSession ==
  call.st \notin {"page"} /\ closes = {} /\ activeView # NoView
    => detail.token = activeView.token

\* The page on screen has its session, until a reload of the plugin ends it:
\* no late close, however delayed, takes it away.
ShownPageHasSession ==
  ~ListShown => \/ activeView.token = detail.token
                \/ activeView = NoView /\ runtime > 0

\* What search_service.go:47-49 says of Execute: it activates a result "from the
\* most recent Search". With every answer in and nothing else going on, the rows
\* on screen are the ones s.last knows. The code breaks it: an older Search that
\* finishes last overwrites s.last, while the window rightly drops its answer.
LastIsMostRecent ==
  (searches = {} /\ call.st = "none" /\ query # Blank /\ ~timer /\ viewStack = <<>>)
    => results \subseteq last

=============================================================================
