----------------------- MODULE SearchSession_proofs -----------------------
(***************************************************************************)
(* Proofs about SearchSession, for every set of queries, rows and actions  *)
(* and any number of inputs and reloads.                                   *)
(***************************************************************************)
EXTENDS SearchSession, TLAPS

\* A list of rows taken off the view stack is a list of rows.
LEMMA StackTypes ==
  ASSUME viewStack \in Seq(SUBSET Rows), viewStack # <<>>
  PROVE  /\ viewStack[Len(viewStack)] \subseteq Rows
         /\ SubSeq(viewStack, 1, Len(viewStack) - 1) \in Seq(SUBSET Rows)
<1>1. Len(viewStack) \in 1..Len(viewStack)
  OBVIOUS
<1>2. viewStack[Len(viewStack)] \in SUBSET Rows
  BY <1>1
<1>3. SubSeq(viewStack, 1, Len(viewStack) - 1) \in Seq(SUBSET Rows)
  BY <1>1
<1> QED
  BY <1>2, <1>3

\* What the engine and a list action find are lists of rows with distinct ids.
LEMMA FoundTypes ==
  /\ \A q \in Queries \ {Blank} : Found[q] \subseteq Rows /\ Keyed(Found[q])
  /\ \A a \in ListActions : ListOf[a] \subseteq Rows /\ Keyed(ListOf[a])
BY SessionAssumption

\* Merging secondary rows into SearchService.last replaces the rows with their
\* ids: last stays a map.
LEMMA MergeKeyed ==
  ASSUME NEW old, NEW rows, Keyed(old), Keyed(rows)
  PROVE  Keyed({r \in old : \A n \in rows : n.id # r.id} \cup rows)
BY DEF Keyed

\* Closing the detail page and resetting the window keep their types.
LEMMA ResetTypes ==
  ASSUME TypeOK, Reset
  PROVE  /\ detail' = NoDetail /\ detail' \in [token : Nat, page : Nat]
         /\ closes' \subseteq Nat
         /\ seq' = seq + 1 /\ seq' \in Nat
         /\ query' = Blank /\ query' \in Queries
         /\ results' = {} /\ results' \subseteq Rows
         /\ viewStack' = <<>> /\ viewStack' \in Seq(SUBSET Rows)
<1>1. detail' = NoDetail /\ closes' \subseteq Nat
  BY DEF TypeOK, Reset, CloseDetail
<1>2. NoDetail \in [token : Nat, page : Nat]
  BY DEF NoDetail, NoToken
<1>3. viewStack' \in Seq(SUBSET Rows)
  BY DEF Reset
<1> QED
  BY <1>1, <1>2, <1>3, SessionAssumption DEF TypeOK, Reset

\* An input is counted up to its bound.
LEMMA InputTypes == TypeOK /\ Input => inputs' \in 0..MaxInputs
BY SessionAssumption DEF TypeOK, Input

\* So is what closing the detail page leaves.
LEMMA CloseTypes ==
  ASSUME TypeOK, CloseDetail
  PROVE  detail' \in [token : Nat, page : Nat] /\ closes' \subseteq Nat
BY DEF TypeOK, CloseDetail, NoDetail, NoToken

\* SearchSession starts well typed.
LEMMA TypeInit == Init => TypeOK
<1> SUFFICES ASSUME Init PROVE TypeOK
  OBVIOUS
<1>1. NoCall \in ActionCall /\ NoEvent \in EventCall
  BY DEF NoCall, NoEvent, ActionCall, EventCall, NoToken
<1>2. viewStack \in Seq(SUBSET Rows)
  BY DEF Init
<1>3. detail \in [token : Nat, page : Nat] /\ activeView \in [token : Nat, page : Nat, rt : Nat]
  BY DEF Init, NoDetail, NoView, NoToken
<1>4. runtime \in 0..MaxReloads /\ inputs \in 0..MaxInputs /\ tokens \in Nat /\ seq \in Nat
  BY SessionAssumption DEF Init
<1>5. last \subseteq Rows /\ Keyed(last) /\ results \subseteq Rows /\ closes \subseteq Nat
  BY DEF Init, Keyed
<1>6. visible \in BOOLEAN /\ timer \in BOOLEAN /\ query \in Queries /\ searches \subseteq SearchCall
  BY SessionAssumption DEF Init
<1>7. call \in ActionCall /\ event \in EventCall
  BY <1>1 DEF Init
<1> QED
  BY <1>2, <1>3, <1>4, <1>5, <1>6, <1>7 DEF TypeOK

\* Every callback of the window and every step of a backend call keeps the
\* state well typed.
LEMMA TypeStep == TypeOK /\ [Next]_vars => TypeOK'
<1> SUFFICES ASSUME TypeOK, [Next]_vars PROVE TypeOK'
  OBVIOUS
<1>1. CASE \E q \in Queries : OnInput(q)
  <2> PICK q \in Queries : OnInput(q)
    BY <1>1
  <2>1. results' \subseteq Rows /\ viewStack' \in Seq(SUBSET Rows)
    <3>1. CASE viewStack = <<>>
      BY <3>1 DEF TypeOK, OnInput
    <3>2. CASE viewStack # <<>>
      BY <3>2, StackTypes DEF TypeOK, OnInput
    <3> QED
      BY <3>1, <3>2
  <2> QED
    BY <2>1, InputTypes DEF TypeOK, OnInput, window, calls, backend
<1>2. CASE \E row \in results, replace \in BOOLEAN : Activate(row, replace)
  <2> PICK row \in results, replace \in BOOLEAN : Activate(row, replace)
    BY <1>2
  <2>1. row \in Rows
    BY DEF TypeOK
  <2>2. call' \in ActionCall
    BY <2>1 DEF TypeOK, Activate, NoCall, ActionCall, NoToken
  <2>3. timer' \in BOOLEAN
    BY DEF Activate
  <2> QED
    BY <2>2, <2>3, InputTypes DEF TypeOK, Activate, window, calls, backend
<1>3. CASE RunViewEvent
  <2>1. runtime \in Nat /\ seq \in Nat /\ detail.token \in Nat
    BY SessionAssumption DEF TypeOK
  <2>2. event' \in EventCall
    BY <1>3, <2>1 DEF RunViewEvent, NoEvent, EventCall, NoToken
  <2> QED
    BY <1>3, <2>2, InputTypes DEF TypeOK, RunViewEvent, window, calls, backend
<1>4. CASE BackFromDetail
  BY <1>4, CloseTypes, InputTypes DEF TypeOK, BackFromDetail, backend
<1>5. CASE Escape
  <2>1. inputs' \in 0..MaxInputs
    BY <1>5, InputTypes DEF Escape
  <2>2. CASE viewStack # <<>>
    <3>1. results' \subseteq Rows /\ viewStack' \in Seq(SUBSET Rows)
      BY <1>5, <2>2, StackTypes DEF TypeOK, Escape
    <3>2. seq' = seq + 1 /\ UNCHANGED <<visible, query, detail, closes>>
      BY <1>5, <2>2 DEF Escape
    <3>3. UNCHANGED <<timer, searches, call, event, last, activeView, runtime, tokens>>
      BY <1>5 DEF Escape, backend
    <3> QED
      BY <2>1, <3>1, <3>2, <3>3 DEF TypeOK
  <2>3. CASE viewStack = <<>>
    BY <1>5, <2>1, <2>3, ResetTypes DEF TypeOK, Escape, HideWindow, backend
  <2> QED
    BY <2>2, <2>3
<1>6. CASE LosesFocus
  BY <1>6, InputTypes, ResetTypes DEF TypeOK, LosesFocus, HideWindow, backend
<1>7. CASE Shown
  BY ResetTypes, <1>7 DEF TypeOK, window, calls, backend, Shown
<1>8. CASE RunSearch
  <2>1. searches' \subseteq SearchCall
    BY <1>8 DEF TypeOK, RunSearch, SearchCall
  <2>2. results' \subseteq Rows
    BY <1>8 DEF TypeOK, RunSearch
  <2> QED
    <3>1. timer' = FALSE /\ seq' = seq + 1
      BY <1>8 DEF RunSearch
    <3>2. UNCHANGED <<visible, query, viewStack, detail, call, event, closes, last,
                      activeView, runtime, inputs, tokens>>
      BY <1>8 DEF RunSearch, backend
    <3>3. timer' \in BOOLEAN
      BY <3>1
    <3>4. seq \in Nat
      BY DEF TypeOK
    <3>5. seq' \in Nat
      BY <3>1, <3>4
    <3> QED
      BY <2>1, <2>2, <3>2, <3>3, <3>5 DEF TypeOK
<1>9. CASE \E s \in searches : SearchStores(s)
  <2> PICK s \in searches : SearchStores(s)
    BY <1>9
  <2>1. s \in SearchCall /\ s.query \in Queries \ {Blank}
    BY DEF TypeOK, SearchCall
  <2>2. searches' \subseteq SearchCall
    BY <2>1 DEF TypeOK, SearchStores, SearchCall
  <2>3. last' \subseteq Rows /\ Keyed(last')
    BY <2>1, FoundTypes DEF SearchStores
  <2> QED
    BY <2>2, <2>3 DEF TypeOK, SearchStores, window
<1>10. CASE \E s \in searches : SearchArrives(s)
  <2> PICK s \in searches : SearchArrives(s)
    BY <1>10
  <2>1. results' \subseteq Rows
    BY FoundTypes DEF TypeOK, SearchArrives, SearchCall
  <2> QED
    BY <2>1 DEF TypeOK, SearchArrives, backend
<1>11. CASE CallLooksUp
  <2>1. call' \in ActionCall
    <3> DEFINE rows == {r \in last : /\ r.id = call.row.id
                                    /\ (r.act \in ViewActions) = (call.row.act \in ViewActions)}
    <3>1. call.row \in Rows /\ call \in ActionCall
      BY <1>11 DEF TypeOK, CallLooksUp, ActionCall
    <3>2. CASE rows = {}
      BY <1>11, <3>1, <3>2 DEF CallLooksUp, ActionCall
    <3>3. CASE rows # {}
      <4>1. PICK r \in rows : \E st \in IF r.act \in ViewActions \cup ListActions
                                           THEN {"running"} ELSE {"rows", "error"} :
                   call' = [call EXCEPT !.act = r.act, !.rt = runtime, !.st = st]
        BY <1>11, <3>3 DEF CallLooksUp
      <4>2. PICK st \in IF r.act \in ViewActions \cup ListActions
                           THEN {"running"} ELSE {"rows", "error"} :
                   call' = [call EXCEPT !.act = r.act, !.rt = runtime, !.st = st]
        BY <4>1
      <4>3. r.act \in Actions /\ runtime \in Nat
        BY SessionAssumption DEF TypeOK, Rows
      <4> QED
        BY <3>1, <4>2, <4>3 DEF ActionCall
    <3> QED
      BY <3>2, <3>3
  <2> QED
    <3>1. UNCHANGED <<visible, query, results, viewStack, detail, seq, timer, searches,
                      event, closes, last, activeView, runtime, inputs, tokens>>
      BY <1>11 DEF CallLooksUp, window, backend
    <3> QED
      BY <2>1, <3>1 DEF TypeOK
<1>12. CASE CallFails
  BY <1>12 DEF TypeOK, window, calls, backend, CallFails, ActionCall
<1>13. CASE CallLists
  <2>1. ListOf[call.act] \subseteq Rows /\ Keyed(ListOf[call.act])
    BY <1>13, FoundTypes DEF CallLists
  <2>2. last' \subseteq Rows /\ Keyed(last')
    BY <1>13, <2>1, MergeKeyed DEF TypeOK, CallLists
  <2>3. call' \in ActionCall
    BY <1>13, <2>1 DEF TypeOK, CallLists, ActionCall
  <2> QED
    BY <1>13, <2>2, <2>3 DEF TypeOK, CallLists, window
<1>14. CASE CallOpens
  <2>1. tokens' \in Nat
    BY <1>14 DEF TypeOK, CallOpens
  <2>2. call' \in ActionCall
    BY <1>14, <2>1 DEF TypeOK, CallOpens, ActionCall
  <2>3. call.rt \in Nat
    BY DEF TypeOK, ActionCall
  <2>4. activeView' \in [token : Nat, page : Nat, rt : Nat]
    BY <1>14, <2>1, <2>3 DEF CallOpens
  <2> QED
    BY <1>14, <2>1, <2>2, <2>4 DEF TypeOK, CallOpens, window
<1>15. CASE ErrorArrives
  BY <1>15 DEF TypeOK, window, calls, backend, ErrorArrives, NoCall, ActionCall, NoToken
<1>16. CASE RowsArrive
  <2>1. call' \in ActionCall
    BY <1>16 DEF RowsArrive, NoCall, ActionCall, NoToken
  <2>2. CASE UNCHANGED <<window, closes>>
    BY <1>16, <2>1, <2>2 DEF TypeOK, RowsArrive, window, backend
  <2>3. CASE call.mine = seq /\ call.rows # {} /\ ~UNCHANGED <<window, closes>>
    <3>1. call.rows \subseteq Rows
      BY DEF TypeOK, ActionCall
    <3>2. /\ seq' = seq + 1
          /\ viewStack' = IF call.replace THEN viewStack ELSE Append(viewStack, results)
          /\ results' = call.rows
          /\ UNCHANGED <<visible, query, detail, timer, closes>>
      BY <1>16, <2>3 DEF RowsArrive
    <3>3. Append(viewStack, results) \in Seq(SUBSET Rows)
      BY DEF TypeOK
    <3>4. viewStack' \in Seq(SUBSET Rows)
      BY <3>2, <3>3 DEF TypeOK
    <3>5. UNCHANGED <<searches, event, last, activeView, runtime, inputs, tokens>>
      BY <1>16 DEF RowsArrive, backend
    <3> QED
      BY <2>1, <3>1, <3>2, <3>4, <3>5 DEF TypeOK
  <2>4. CASE HideWindow /\ UNCHANGED timer
    BY <1>16, <2>1, <2>4, ResetTypes DEF TypeOK, RowsArrive, HideWindow, backend
  <2> QED
    BY <1>16, <2>2, <2>3, <2>4 DEF RowsArrive
<1>17. CASE PageArrives
  <2>1. call' \in ActionCall /\ call.token \in Nat
    BY <1>17 DEF TypeOK, PageArrives, NoCall, ActionCall, NoToken
  <2>2. detail' \in [token : Nat, page : Nat] /\ closes' \subseteq Nat /\ seq' \in Nat
    <3>1. CASE call.mine = seq
      <4>1. /\ seq' = seq + 1
            /\ detail' = [token |-> call.token, page |-> 0]
            /\ closes' = closes
        BY <1>17, <3>1 DEF PageArrives
      <4> QED
        BY <2>1, <4>1 DEF TypeOK
    <3>2. CASE call.mine # seq
      BY <1>17, <2>1, <3>2 DEF TypeOK, PageArrives
    <3> QED
      BY <3>1, <3>2
  <2> QED
    BY <1>17, <2>1, <2>2 DEF TypeOK, PageArrives, backend
<1>18. CASE ViewEvent
  <2>1. event \in EventCall /\ activeView \in [token : Nat, page : Nat, rt : Nat]
    BY DEF TypeOK
  <2>2. event' \in EventCall
    <3>1. activeView.page + 1 \in Nat
      BY <2>1
    <3>2. \/ event' = [event EXCEPT !.st = "error"]
          \/ event' = [event EXCEPT !.st = "page", !.page = activeView.page + 1]
      BY <1>18 DEF ViewEvent
    <3> QED
      BY <2>1, <3>1, <3>2 DEF EventCall
  <2>3. activeView' \in [token : Nat, page : Nat, rt : Nat]
    BY <1>18, <2>1 DEF ViewEvent, NoView, NoToken
  <2> QED
    BY <1>18, <2>2, <2>3 DEF TypeOK, ViewEvent, window
<1>19. CASE ViewEventArrives
  BY <1>19 DEF TypeOK, window, calls, backend, ViewEventArrives, EventCall, NoEvent, NoToken
<1>20. CASE \E t \in closes : CloseView(t)
  BY <1>20 DEF TypeOK, window, calls, backend, CloseView, NoView, NoToken
<1>21. CASE PluginReloads
  BY SessionAssumption, <1>21 DEF TypeOK, window, calls, backend, PluginReloads
<1>22. CASE UNCHANGED vars
  BY <1>22 DEF TypeOK, window, calls, backend, vars
<1> QED
  BY <1>1, <1>2, <1>3, <1>4, <1>5, <1>6, <1>7, <1>8, <1>9, <1>10, <1>11, <1>12, <1>13, <1>14,
     <1>15, <1>16, <1>17, <1>18, <1>19, <1>20, <1>21, <1>22
  DEF Next, UserActs, SearchProceeds, CallProceeds, ViewProceeds

\* Every reachable state of the window, its calls and its session is well typed.
THEOREM TypeCorrect == Spec => []TypeOK
BY TypeInit, TypeStep, PTL DEF Spec

----------------------------------------------------------------------------
(***************************************************************************)
(* A hidden window is blank.                                               *)
(***************************************************************************)

\* A call that returns, or goes on with the tag it has, keeps the tags valid.
LEMMA SameTags ==
  ASSUME TypeOK, Tags,
         UNCHANGED <<visible, seq>> \/ seq' = seq + 1,
         \A s \in searches' : \E r \in searches : s.mine = r.mine,
         call'.st # "none" => call.st # "none" /\ call'.mine = call.mine,
         event'.st # "none" => event.st # "none" /\ event'.mine = event.mine
  PROVE  Tags'
<1>1. \A m \in Nat : Stamped(m) => Stamped(m)'
  BY DEF TypeOK, Stamped
<1>2. /\ \A s \in searches : s.mine \in Nat
      /\ call.mine \in Nat /\ event.mine \in Nat
  BY DEF TypeOK, SearchCall, ActionCall, EventCall
<1>3. \A s \in searches' : Stamped(s.mine)'
  BY <1>1, <1>2 DEF Tags
<1> QED
  BY <1>1, <1>2, <1>3 DEF Tags

\* HiddenInv is inductive: no answer and no timer that outlives the hiding of the
\* window paints it.
LEMMA HiddenStep == HiddenInv /\ [Next]_vars => HiddenInv'
<1> SUFFICES ASSUME HiddenInv, [Next]_vars PROVE HiddenInv'
  OBVIOUS
<1>a. TypeOK /\ Tags /\ HiddenIsBlank /\ TypeOK'
  BY TypeStep DEF HiddenInv
<1> SUFFICES HiddenIsBlank' /\ Tags'
  BY <1>a DEF HiddenInv
<1>1. CASE \E q \in Queries : OnInput(q)
  BY <1>a, <1>1, SameTags DEF OnInput, Input, calls, HiddenIsBlank
<1>2. CASE \E row \in results, replace \in BOOLEAN : Activate(row, replace)
  <2> PICK row \in results, replace \in BOOLEAN : Activate(row, replace)
    BY <1>a, <1>2
  <2>1. visible' /\ seq' = seq /\ searches' = searches /\ event' = event
    BY <1>a DEF Activate, Input
  <2>2. call'.mine = seq
    BY <1>a DEF Activate, NoCall
  <2>3. \A m \in Nat : m <= seq => Stamped(m)'
    BY <2>1 DEF Stamped
  <2>4. /\ \A s \in searches : s.mine \in Nat /\ s.mine <= seq
        /\ event.mine \in Nat /\ (event.st # "none" => event.mine <= seq) /\ seq \in Nat
    BY <1>a DEF Tags, Stamped, TypeOK, SearchCall, EventCall
  <2> QED
    BY <2>1, <2>2, <2>3, <2>4 DEF HiddenIsBlank, Tags
<1>3. CASE RunViewEvent
  <2>1. visible' /\ UNCHANGED window /\ searches' = searches /\ call' = call
    BY <1>a, <1>3 DEF RunViewEvent, Input, window
  <2>2. event'.mine = seq
    BY <1>a, <1>3 DEF RunViewEvent, NoEvent
  <2> QED
    BY <1>a, <2>1, <2>2 DEF HiddenIsBlank, Tags, Stamped, TypeOK, window
<1>4. CASE BackFromDetail
  BY <1>a, <1>4, SameTags DEF BackFromDetail, Input, HiddenIsBlank
<1>5. CASE Escape
  <2>1. CASE viewStack # <<>>
    BY <1>a, <1>5, <2>1, SameTags DEF Escape, Input, HiddenIsBlank
  <2>2. CASE viewStack = <<>>
    BY <1>a, <1>5, <2>2, SameTags, ResetTypes DEF Escape, HideWindow, HiddenIsBlank, ListShown
  <2> QED
    BY <1>a, <2>1, <2>2
<1>6. CASE LosesFocus
  BY <1>a, <1>6, SameTags, ResetTypes DEF LosesFocus, HideWindow, HiddenIsBlank, ListShown
<1>7. CASE Shown
  BY <1>a, <1>7, SameTags, ResetTypes DEF Shown, HiddenIsBlank
<1>8. CASE RunSearch
  <2>1. seq' = seq + 1 /\ UNCHANGED <<visible, query, viewStack, detail, call, event>>
    BY <1>a, <1>8 DEF RunSearch
  <2>2. CASE query = Blank
    BY <1>a, <1>8, <2>1, <2>2, SameTags DEF RunSearch, HiddenIsBlank, ListShown
  <2>3. CASE query # Blank
    <3>1. visible
      BY <1>a, <2>3 DEF HiddenIsBlank
    <3>2. \A s \in searches' : s \in searches \/ s.mine = seq'
      BY <1>a, <1>8, <2>3 DEF RunSearch
    <3>3. \A m \in Nat : Stamped(m) => Stamped(m)'
      BY <1>a, <2>1 DEF TypeOK, Stamped
    <3>4. visible' /\ seq' \in Nat
      BY <1>a, <2>1, <3>1 DEF TypeOK
    <3>5. /\ \A s \in searches : s.mine \in Nat
          /\ call.mine \in Nat /\ event.mine \in Nat
      BY <1>a DEF TypeOK, SearchCall, ActionCall, EventCall
    <3>6. \A s \in searches' : Stamped(s.mine)'
      BY <1>a, <3>2, <3>3, <3>4, <3>5 DEF Tags, Stamped
    <3> QED
      BY <1>a, <2>1, <3>1, <3>3, <3>5, <3>6 DEF Tags, HiddenIsBlank
  <2> QED
    BY <1>a, <2>2, <2>3
<1>9. CASE \E s \in searches : SearchStores(s)
  <2> PICK s \in searches : SearchStores(s)
    BY <1>a, <1>9
  <2>1. s \in SearchCall
    BY <1>a DEF TypeOK
  <2>2. \A q \in searches' : \E r \in searches : q.mine = r.mine
    BY <1>a, <2>1 DEF SearchStores, SearchCall
  <2> QED
    BY <1>a, <2>2, SameTags DEF SearchStores, window, HiddenIsBlank, ListShown
<1>10. CASE \E s \in searches : SearchArrives(s)
  <2> PICK s \in searches : SearchArrives(s)
    BY <1>a, <1>10
  <2>1. visible \/ results' = results
    BY <1>a DEF SearchArrives, Tags, Stamped
  <2> QED
    BY <1>a, <2>1, SameTags DEF SearchArrives, HiddenIsBlank, ListShown
<1>11. CASE CallLooksUp
  <2>1. call'.mine = call.mine
    BY <1>a, <1>11 DEF CallLooksUp, TypeOK, ActionCall
  <2>2. call.st # "none" /\ UNCHANGED <<window, searches, event>>
    BY <1>a, <1>11 DEF CallLooksUp
  <2> QED
    BY <1>a, <2>1, <2>2, SameTags DEF window, HiddenIsBlank, ListShown
<1>12. CASE CallFails
  <2>1. call'.mine = call.mine
    BY <1>a, <1>12 DEF CallFails, TypeOK, ActionCall
  <2> QED
    BY <1>a, <1>12, <2>1, SameTags DEF CallFails, window, HiddenIsBlank, ListShown
<1>13. CASE CallLists
  <2>1. call'.mine = call.mine
    BY <1>a, <1>13 DEF CallLists, TypeOK, ActionCall
  <2> QED
    BY <1>a, <1>13, <2>1, SameTags DEF CallLists, window, HiddenIsBlank, ListShown
<1>14. CASE CallOpens
  <2>1. call'.mine = call.mine
    BY <1>a, <1>14 DEF CallOpens, TypeOK, ActionCall
  <2> QED
    BY <1>a, <1>14, <2>1, SameTags DEF CallOpens, window, HiddenIsBlank, ListShown
<1>15. CASE ErrorArrives
  BY <1>a, <1>15, SameTags DEF ErrorArrives, NoCall, window, HiddenIsBlank, ListShown
<1>16. CASE RowsArrive
  <2>1. call'.st = "none" /\ UNCHANGED <<searches, event>>
    BY <1>a, <1>16 DEF RowsArrive, NoCall
  <2>2. CASE UNCHANGED window
    BY <1>a, <2>1, <2>2, SameTags DEF window, HiddenIsBlank, ListShown
  <2>3. CASE call.mine = seq /\ seq' = seq + 1 /\ visible' = visible
    <3>1. visible
      BY <1>a, <1>16, <2>3 DEF RowsArrive, Tags, Stamped
    <3> QED
      BY <1>a, <2>1, <2>3, <3>1, SameTags DEF HiddenIsBlank
  <2>4. CASE HideWindow
    BY <1>a, <2>1, <2>4, SameTags, ResetTypes DEF HideWindow, HiddenIsBlank, ListShown
  <2> QED
    BY <1>a, <1>16, <2>2, <2>3, <2>4 DEF RowsArrive
<1>17. CASE PageArrives
  <2>1. call'.st = "none" /\ UNCHANGED <<visible, query, results, viewStack, searches, event>>
    BY <1>a, <1>17 DEF PageArrives, NoCall
  <2>2. CASE call.mine = seq
    <3>1. visible /\ seq' = seq + 1
      BY <1>a, <1>17, <2>2 DEF PageArrives, Tags, Stamped
    <3> QED
      BY <1>a, <2>1, <3>1, SameTags DEF HiddenIsBlank
  <2>3. CASE call.mine # seq
    <3>1. UNCHANGED <<seq, detail>>
      BY <1>a, <1>17, <2>3 DEF PageArrives
    <3> QED
      BY <1>a, <2>1, <3>1, SameTags DEF HiddenIsBlank, ListShown
  <2> QED
    BY <1>a, <2>2, <2>3
<1>18. CASE ViewEvent
  <2>1. event \in EventCall /\ event.st # "none"
    BY <1>a, <1>18 DEF TypeOK, ViewEvent
  <2>2. \/ event' = [event EXCEPT !.st = "error"]
        \/ event' = [event EXCEPT !.st = "page", !.page = activeView.page + 1]
    BY <1>a, <1>18 DEF ViewEvent
  <2>3. event'.mine = event.mine
    BY <1>a, <2>1, <2>2 DEF EventCall
  <2> QED
    BY <1>a, <1>18, <2>1, <2>3, SameTags DEF ViewEvent, window, HiddenIsBlank, ListShown
<1>19. CASE ViewEventArrives
  <2>1. event'.st = "none"
    BY <1>a, <1>19 DEF ViewEventArrives, NoEvent
  <2>2. visible \/ detail' = detail
    BY <1>a, <1>19 DEF ViewEventArrives, Tags, Stamped
  <2> QED
    BY <1>a, <1>19, <2>1, <2>2, SameTags DEF ViewEventArrives, HiddenIsBlank, ListShown
<1>20. CASE \E t \in closes : CloseView(t)
  BY <1>a, <1>20, SameTags DEF CloseView, window, HiddenIsBlank, ListShown
<1>21. CASE PluginReloads
  BY <1>a, <1>21, SameTags DEF PluginReloads, window, calls, HiddenIsBlank, ListShown
<1>22. CASE UNCHANGED vars
  BY <1>a, <1>22, SameTags DEF vars, window, calls, HiddenIsBlank, ListShown
<1> QED
  BY <1>1, <1>2, <1>3, <1>4, <1>5, <1>6, <1>7, <1>8, <1>9, <1>10, <1>11, <1>12, <1>13, <1>14,
     <1>15, <1>16, <1>17, <1>18, <1>19, <1>20, <1>21, <1>22
  DEF Next, UserActs, SearchProceeds, CallProceeds, ViewProceeds

\* HiddenInv holds when the application has started.
LEMMA HiddenInit == Init => HiddenInv
<1> SUFFICES ASSUME Init PROVE HiddenInv
  OBVIOUS
<1>1. call.st = "none" /\ event.st = "none" /\ searches = {} /\ visible
  BY DEF Init, NoCall, NoEvent
<1> QED
  BY <1>1, TypeInit DEF HiddenInv, HiddenIsBlank, Tags

\* The inductive invariant holds in every reachable state.
THEOREM HiddenInvCorrect == Spec => []HiddenInv
BY HiddenInit, HiddenStep, PTL DEF Spec

\* Whatever is in flight when the window hides, every summon starts from a clean
\* slate (reset and the seq checks of App.vue).
THEOREM HiddenStaysBlank == Spec => []HiddenIsBlank
<1>1. HiddenInv => HiddenIsBlank
  BY DEF HiddenInv
<1> QED
  BY <1>1, HiddenInvCorrect, PTL

----------------------------------------------------------------------------
(***************************************************************************)
(* A plugin view session and its page. The session belongs to the page on  *)
(* screen, to the answer that brings a page, or to a close on its way; and *)
(* no close on its way names the session of a page that is or will be      *)
(* shown, because tokens are never used twice.                             *)
(***************************************************************************)

HasSession(t) == activeView.token = t \/ (activeView = NoView /\ runtime > 0)

Covered ==
  activeView # NoView =>
    \/ detail.token = activeView.token
    \/ call.st = "page" /\ call.token = activeView.token
    \/ activeView.token \in closes

\* The token of a page that has its session, and that no close names.
Open(t) == t \in 1..tokens /\ t \notin closes /\ HasSession(t)

Sessions ==
  /\ Covered
  /\ call.st # "none" => ListShown
  /\ call.st = "page" => Open(call.token)
  /\ ~ListShown => Open(detail.token)
  /\ \A t \in closes : t <= tokens
  /\ event.st # "none" => event.token # NoToken /\ event.rt <= runtime
  /\ activeView.rt <= runtime

\* A step that leaves the page, the session and the closes alone: a call or an
\* event in flight may go on, or return without bringing a page.
LEMMA SameSession ==
  ASSUME Sessions, UNCHANGED <<detail, closes, activeView, runtime, tokens>>,
         call'.st # "none" => call.st # "none" \/ ListShown,
         call'.st = "page" => call.st = "page" /\ call'.token = call.token,
         call.st = "page" => call' = call,
         event'.st # "none" => event'.token # NoToken /\ event'.rt <= runtime
  PROVE  Sessions'
BY DEF Sessions, Covered, Open, HasSession, ListShown

\* Leaving the detail page, if it is there, sends the close of its session.
LEMMA ClosedSession ==
  ASSUME TypeOK, Sessions, CloseDetail, UNCHANGED <<call, event, activeView, runtime, tokens>>
  PROVE  Sessions'
<1>1. detail' = NoDetail /\ closes' = IF ListShown THEN closes ELSE closes \cup {detail.token}
  BY DEF CloseDetail
<1>2. CASE ListShown
  BY <1>1, <1>2 DEF Sessions, Covered, Open, HasSession, ListShown
<1>3. CASE ~ListShown
  <2>1. call.st = "none" /\ detail.token \in 1..tokens
    BY <1>3 DEF Sessions, Open
  <2>2. \A t \in closes' : t <= tokens
    BY <1>1, <1>3, <2>1 DEF Sessions
  <2>3. activeView # NoView => activeView.token \in closes'
    BY <1>1, <1>3, <2>1 DEF Sessions, Covered
  <2> QED
    BY <1>1, <2>1, <2>2, <2>3 DEF Sessions, Covered, ListShown
<1> QED
  BY <1>2, <1>3

\* Sessions is inductive.
LEMMA SessionsStep == TypeOK /\ Sessions /\ [Next]_vars => Sessions'
<1> SUFFICES ASSUME TypeOK, Sessions, [Next]_vars PROVE Sessions'
  OBVIOUS
<1>t. /\ runtime \in Nat /\ tokens \in Nat /\ event.rt \in Nat /\ call.token \in Nat
      /\ detail.token \in Nat /\ closes \subseteq Nat /\ activeView.rt \in Nat
      /\ call.rt \in Nat /\ activeView \in [token : Nat, page : Nat, rt : Nat]
      /\ NoToken = 0 /\ NoCall.st = "none" /\ NoEvent.st = "none"
      /\ NoView.rt = 0 /\ NoView.token = 0
  BY SessionAssumption
     DEF TypeOK, ActionCall, EventCall, NoToken, NoCall, NoEvent, NoView
<1>e. event.st # "none" => event.token # NoToken /\ event.rt <= runtime
  BY DEF Sessions
<1>1. CASE \E q \in Queries : OnInput(q)
  BY <1>1, <1>e, SameSession DEF OnInput, calls, backend
<1>2. CASE \E row \in results, replace \in BOOLEAN : Activate(row, replace)
  <2>1. PICK row \in results : \E replace \in BOOLEAN : Activate(row, replace)
    BY <1>2
  <2>2. PICK replace \in BOOLEAN : Activate(row, replace)
    BY <2>1
  <2>3. /\ UNCHANGED <<detail, closes, activeView, runtime, tokens, event>>
        /\ call.st = "none" /\ ListShown
    BY <2>2 DEF Activate, backend
  <2>4. call'.st = "sent"
    BY <2>2 DEF Activate, NoCall
  <2> QED
    BY <1>e, <2>3, <2>4, SameSession
<1>3. CASE RunViewEvent
  <2>1. /\ UNCHANGED <<detail, closes, activeView, runtime, tokens, call>> /\ ~ListShown
    BY <1>3 DEF RunViewEvent, window, backend
  <2>2. event'.token = detail.token /\ event'.rt = runtime
    BY <1>3 DEF RunViewEvent, NoEvent
  <2>3. event'.token # NoToken /\ event'.rt <= runtime
    BY <1>t, <2>1, <2>2 DEF Sessions, Open
  <2> QED
    BY <2>1, <2>3, SameSession
<1>4. CASE BackFromDetail
  BY <1>4, ClosedSession DEF BackFromDetail, backend
<1>5. CASE Escape
  <2>1. CASE viewStack # <<>>
    BY <1>5, <1>e, <2>1, SameSession DEF Escape, backend
  <2>2. CASE viewStack = <<>>
    BY <1>5, <2>2, ClosedSession DEF Escape, HideWindow, Reset, backend
  <2> QED
    BY <2>1, <2>2
<1>6. CASE LosesFocus
  BY <1>6, ClosedSession DEF LosesFocus, HideWindow, Reset, backend
<1>7. CASE Shown
  BY <1>7, ClosedSession DEF Shown, Reset, backend
<1>8. CASE RunSearch
  BY <1>8, <1>e, SameSession DEF RunSearch, backend
<1>9. CASE \E s \in searches : SearchStores(s) \/ SearchArrives(s)
  BY <1>9, <1>e, SameSession DEF SearchStores, SearchArrives, window, backend
<1>10. CASE CallLooksUp \/ CallFails \/ CallLists
  <2>1. /\ UNCHANGED <<detail, closes, activeView, runtime, tokens, event>>
        /\ call.st \in {"sent", "running"}
    BY <1>10 DEF CallLooksUp, CallFails, CallLists, window, backend
  <2>2. call'.st # "page"
    <3>1. \A c : [call EXCEPT !.st = "error"].st = "error"
      BY DEF TypeOK, ActionCall
    <3>2. CASE CallFails \/ CallLists
      BY <3>2 DEF CallFails, CallLists, TypeOK, ActionCall
    <3>3. CASE CallLooksUp
      <4>1. \/ call' = [call EXCEPT !.st = "error"]
            \/ \E r \in last : \E st \in {"running", "rows", "error"} :
                 call' = [call EXCEPT !.act = r.act, !.rt = runtime, !.st = st]
        BY <3>3 DEF CallLooksUp
      <4> QED
        BY <4>1 DEF TypeOK, ActionCall
    <3> QED
      BY <1>10, <3>2, <3>3
  <2> QED
    BY <1>e, <2>1, <2>2, SameSession
<1>11. CASE CallOpens
  <2>1. /\ tokens' = tokens + 1 /\ call.st = "running"
        /\ \E rt \in call.rt..runtime : activeView' = [token |-> tokens', page |-> 0, rt |-> rt]
        /\ UNCHANGED <<detail, closes, runtime, event>>
    BY <1>11 DEF CallOpens, window
  <2>2. call'.st = "page" /\ call'.token = tokens'
    BY <1>11 DEF CallOpens, TypeOK, ActionCall
  <2>3. activeView'.token = tokens' /\ activeView'.rt <= runtime
    BY <1>t, <2>1
  <2>4. ListShown /\ \A t \in closes : t <= tokens
    BY <2>1 DEF Sessions
  <2>5. Open(call.token)'
    BY <1>t, <2>1, <2>2, <2>3, <2>4 DEF Open, HasSession
  <2>6. \A t \in closes' : t <= tokens'
    BY <1>t, <2>1, <2>4
  <2> QED
    BY <1>e, <2>1, <2>2, <2>3, <2>4, <2>5, <2>6 DEF Sessions, Covered, ListShown
<1>12. CASE ErrorArrives
  BY <1>t, <1>e, <1>12, SameSession DEF ErrorArrives, window, backend
<1>13. CASE RowsArrive
  <2>1. call'.st = "none" /\ call.st = "rows" /\ UNCHANGED <<event, activeView, runtime, tokens>>
    BY <1>t, <1>13 DEF RowsArrive, backend
  <2>2. ListShown
    BY <2>1 DEF Sessions
  <2>3. detail' = detail /\ closes' = closes
    BY <1>13, <2>2 DEF RowsArrive, window, HideWindow, Reset, CloseDetail, ListShown
  <2> QED
    BY <1>e, <2>1, <2>3, SameSession
<1>14. CASE PageArrives
  <2>1. /\ call'.st = "none" /\ call.st = "page"
        /\ UNCHANGED <<event, activeView, runtime, tokens>>
    BY <1>t, <1>14 DEF PageArrives, backend
  <2>2. /\ ListShown /\ Open(call.token)
        /\ activeView # NoView => \/ NoToken = activeView.token
                                  \/ call.token = activeView.token
                                  \/ activeView.token \in closes
    BY <2>1 DEF Sessions, Covered, ListShown, NoDetail
  <2>3. activeView # NoView => activeView.token = call.token
    BY <2>2 DEF Open, HasSession
  <2>4. CASE call.mine = seq
    <3>1. detail' = [token |-> call.token, page |-> 0] /\ closes' = closes
      BY <1>14, <2>4 DEF PageArrives
    <3>2. detail'.token = call.token
      BY <3>1
    <3> HIDE DEF Sessions
    <3>3. Open(detail.token)'
      BY <2>1, <2>2, <3>1, <3>2 DEF Open, HasSession
    <3>4. Covered'
      BY <2>1, <2>3, <3>2 DEF Covered
    <3> QED
      BY <1>e, <2>1, <3>1, <3>3, <3>4 DEF Sessions
  <2>5. CASE call.mine # seq
    <3>1. detail' = detail /\ closes' = closes \cup {call.token}
      BY <1>14, <2>5 DEF PageArrives
    <3>2. \A t \in closes' : t <= tokens
      BY <2>2, <3>1 DEF Sessions, Open
    <3>3. Covered'
      BY <2>1, <2>3, <3>1 DEF Covered
    <3> QED
      BY <1>e, <2>1, <2>2, <3>1, <3>2, <3>3 DEF Sessions, ListShown
  <2> QED
    BY <2>4, <2>5
<1>15. CASE ViewEvent
  <2>1. /\ event.st = "sent" /\ UNCHANGED <<detail, closes, call, runtime, tokens>>
    BY <1>15 DEF ViewEvent, window
  <2>2. event'.token = event.token /\ event'.rt = event.rt
    <3>1. \/ event' = [event EXCEPT !.st = "error"]
          \/ event' = [event EXCEPT !.st = "page", !.page = activeView.page + 1]
      BY <1>15 DEF ViewEvent
    <3> QED
      BY <3>1 DEF TypeOK, EventCall
  <2>3. event.token # NoToken /\ event.rt <= runtime
    BY <1>e, <2>1
  <2>4. CASE activeView' = activeView
    BY <2>1, <2>2, <2>3, <2>4, SameSession
  <2>5. CASE activeView' # activeView
    <3>1. /\ activeView.token = event.token
          /\ \E rt \in event.rt..runtime :
               IF activeView.rt = rt THEN activeView' = [activeView EXCEPT !.page = @ + 1]
                                     ELSE activeView' = NoView
      BY <1>15, <2>5 DEF ViewEvent
    <3>2. PICK rt \in event.rt..runtime :
            IF activeView.rt = rt THEN activeView' = [activeView EXCEPT !.page = @ + 1]
                                  ELSE activeView' = NoView
      BY <3>1
    <3>3. activeView # NoView
      BY <1>t, <2>3, <3>1
    <3>4. CASE activeView.rt = rt
      <4>1. activeView' = [activeView EXCEPT !.page = @ + 1]
        BY <3>2, <3>4
      <4>2. activeView'.token = activeView.token /\ activeView'.rt = activeView.rt
        BY <1>t, <4>1
      <4>3. \A t : HasSession(t) => HasSession(t)'
        BY <3>3, <4>2 DEF HasSession
      <4> QED
        BY <2>1, <2>2, <2>3, <3>3, <4>2, <4>3 DEF Sessions, Covered, Open, ListShown
    <3>5. CASE activeView.rt # rt
      <4>1. activeView' = NoView
        BY <3>2, <3>5
      <4>2. runtime > 0
        <5>1. activeView.rt <= runtime
          BY DEF Sessions
        <5> QED
          BY <1>t, <2>3, <3>2, <3>5, <5>1
      <4>3. (\A t : HasSession(t)') /\ activeView'.rt <= runtime'
        BY <1>t, <2>1, <4>1, <4>2 DEF HasSession
      <4> QED
        BY <2>1, <2>2, <2>3, <4>1, <4>3 DEF Sessions, Covered, Open, ListShown
    <3> QED
      BY <3>4, <3>5
  <2> QED
    BY <2>4, <2>5
<1>16. CASE ViewEventArrives
  <2>1. UNCHANGED <<closes, call, activeView, runtime, tokens>> /\ event'.st = "none"
        /\ event.st # "none"
    BY <1>t, <1>16 DEF ViewEventArrives, backend
  <2>2. CASE detail' = detail
    BY <2>1, <2>2, SameSession
  <2>3. CASE detail' # detail
    <3>1. detail.token = event.token /\ detail' = [detail EXCEPT !.page = event.page]
      BY <1>16, <2>3 DEF ViewEventArrives
    <3>2. detail'.token = detail.token
      BY <3>1 DEF TypeOK
    <3>3. ~ListShown
      BY <1>e, <2>1, <3>1 DEF ListShown, NoDetail
    <3>4. call.st = "none" /\ Open(detail.token)
      BY <3>3 DEF Sessions
    <3>5. Open(detail.token)'
      BY <2>1, <3>2, <3>4 DEF Open, HasSession
    <3>6. Covered'
      BY <2>1, <3>2 DEF Sessions, Covered
    <3> QED
      BY <2>1, <3>4, <3>5, <3>6 DEF Sessions
  <2> QED
    BY <2>2, <2>3
<1>17. ASSUME NEW t \in closes, CloseView(t) PROVE Sessions'
  <2>1. /\ closes' = closes \ {t}
        /\ activeView' = IF activeView.token = t THEN NoView ELSE activeView
        /\ UNCHANGED <<detail, call, event, runtime, tokens>>
    BY <1>17 DEF CloseView, window
  <2>2. \A u : Open(u) => Open(u)'
    BY <2>1 DEF Open, HasSession
  <2>3. Covered'
    BY <2>1 DEF Sessions, Covered
  <2>4. activeView'.rt <= runtime
    BY <1>t, <2>1 DEF Sessions
  <2> QED
    BY <2>1, <2>2, <2>3, <2>4 DEF Sessions, ListShown
<1>18. CASE PluginReloads
  <2>1. runtime' = runtime + 1 /\ UNCHANGED <<detail, closes, call, event, activeView, tokens>>
    BY <1>18 DEF PluginReloads, window, calls
  <2>2. \A t : HasSession(t) => HasSession(t)'
    BY <1>t, <2>1 DEF HasSession
  <2>3. event.rt <= runtime => event.rt <= runtime'
    BY <1>t, <2>1
  <2>4. activeView.rt <= runtime'
    BY <1>t, <2>1 DEF Sessions
  <2> QED
    BY <2>1, <2>2, <2>3, <2>4 DEF Sessions, Covered, Open, ListShown
<1>19. CASE UNCHANGED vars
  BY <1>e, <1>19, SameSession DEF vars, window, calls, backend
<1> QED
  BY <1>1, <1>2, <1>3, <1>4, <1>5, <1>6, <1>7, <1>8, <1>9, <1>10, <1>11, <1>12, <1>13, <1>14,
     <1>15, <1>16, <1>17, <1>18, <1>19
     DEF Next, UserActs, SearchProceeds, CallProceeds, ViewProceeds

LEMMA SessionsInit == Init => Sessions
BY DEF Init, Sessions, Covered, ListShown, NoDetail, NoView, NoCall, NoEvent, NoToken

\* Sessions holds in every reachable state.
THEOREM SessionsCorrect == Spec => [](TypeOK /\ Sessions)
<1>1. Init => TypeOK /\ Sessions
  BY TypeInit, SessionsInit
<1>2. ASSUME TypeOK /\ Sessions, [Next]_vars PROVE (TypeOK /\ Sessions)'
  BY <1>2, TypeStep, SessionsStep
<1> QED
  BY <1>1, <1>2, PTL DEF Spec

\* For any number of inputs, calls and reloads: with no page and no close on its way,
\* a plugin view session is open only while its page is on screen (activate and
\* closeDetail of App.vue, OpenView and CloseView of the manager).
THEOREM NoSessionOrphaned == Spec => []NoOrphanSession
<1>1. TypeOK /\ Sessions => NoOrphanSession
  BY DEF Sessions, Covered, NoOrphanSession
<1> QED
  BY <1>1, SessionsCorrect, PTL

\* However late a close arrives, it never takes its session from the page on screen;
\* only a reload of the plugin does (CloseView compares tokens).
THEOREM ShownPageKeepsSession == Spec => []ShownPageHasSession
<1>1. TypeOK /\ Sessions => ShownPageHasSession
  BY DEF Sessions, Open, HasSession, ShownPageHasSession
<1> QED
  BY <1>1, SessionsCorrect, PTL

=============================================================================
