------------------------------- MODULE Screen -------------------------------
(***************************************************************************)
(* Acting on the shared screen: the operator's Sandbox (sandbox.py) behind *)
(* its lock, the action policy (policy.py), the brain's protocol around a  *)
(* call (_run_tool, RoomHooks.confirm) and the confirm dialog of the       *)
(* player (session.ts).  The viewer may interrupt the brain at any time;   *)
(* the operator does not notice and finishes the call.  The product's page *)
(* changes by itself.                                                      *)
(*                                                                         *)
(* An element is a node of the page with an accessible name.  Playwright   *)
(* (external) gives a node a new ref in the first snapshot that finds its  *)
(* name changed, so a ref is modelled as the pair of node and name; a ref  *)
(* of the last snapshot still finds its node when the page renames it.     *)
(***************************************************************************)
EXTENDS Naturals

CONSTANTS
    Nodes,          \* the nodes of the page that the agent can act on
    Names,          \* accessible names
    BlockedNames,   \* the names a blocked pattern matches (built in or agent's)
    ConfirmNames,   \* the names a confirm pattern matches
    AllowedNames,   \* the names an allowed override matches
    Tools,          \* the operate_* calls the model makes
    MaxCalls,       \* bound: calls of operate_* tools
    MaxChanges      \* bound: changes the page makes by itself

Gone == "gone"

\* observe; look: hover, highlight, scroll; submit: type with submit set;
\* enter and space: press, with Enter or another key that activates a button.
AllTools == {"observe", "look", "navigate", "click", "type", "submit", "select",
             "enter", "space"}
Watching == {"observe", "look"}
KeyTools == {"enter", "space"}
RefTools == {"look", "click", "type", "submit", "select"}
GatedTools == {"click", "type", "submit"} \cup KeyTools

ASSUME ScreenAssumption ==
    /\ Nodes # {}
    /\ Names # {}
    /\ BlockedNames \subseteq Names
    /\ ConfirmNames \subseteq Names
    /\ AllowedNames \subseteq Names
    /\ Gone \notin Names
    /\ Tools \subseteq AllTools
    /\ MaxCalls \in Nat
    /\ MaxChanges \in Nat

Calls == 1..MaxCalls

VARIABLES
    role,       \* what each node is: a button (or link), or a field
    page,       \* the name each node has on the page now
    focus,      \* the nodes that have the keyboard focus: at most one
    elements,   \* self._elements: the names in the last snapshot
    lock,       \* the call that holds self._lock, 0 for none
    call,       \* the calls: arguments, progress and what they did
    turn,       \* the call the brain waits for, 0 for none
    rpc,        \* confirm requests on their way to the player
    dialog,     \* the call the confirm dialog asks about, 0 for none
    changes     \* changes the page made by itself

vars == <<role, page, focus, elements, lock, call, turn, rpc, dialog, changes>>
browserVars == <<role, page, focus, changes>>
viewerVars == <<rpc, dialog>>

Phases == {"new",
           "waiting",   \* posted to the operator, which has not begun it
           "acting",    \* through the gate, the mouse glides to the element
           "settling",  \* has acted, the page settles
           "asking",    \* needs_confirmation: the viewer is asked
           "over"}

\* The arguments and the progress of a call, and what it was about: the name the
\* dialog showed, the kind and name the operator last let through, the verdict the
\* player sent, how often it acted.
Call == [tool : AllTools, node : Nodes, name : Names, phase : Phases,
         confirmed : BOOLEAN, kind : {"button", "field"},
         shown : Names \cup {Gone}, seen : Names \cup {Gone},
         verdict : {"none", "approved", "declined"},
         acted : Nat]

TypeOK ==
    /\ role \in [Nodes -> {"button", "field"}]
    /\ page \in [Nodes -> Names \cup {Gone}]
    /\ focus \in SUBSET Nodes
    /\ elements \in [Nodes -> Names \cup {Gone}]
    /\ lock \in 0..MaxCalls
    /\ call \in [Calls -> Call]
    /\ turn \in 0..MaxCalls
    /\ rpc \in SUBSET Calls
    /\ dialog \in 0..MaxCalls
    /\ changes \in 0..MaxChanges
    /\ \A c \in Calls : lock = c <=> call[c].phase \in {"acting", "settling"}

NewCall == [tool |-> "observe", node |-> CHOOSE n \in Nodes : TRUE,
            name |-> CHOOSE n \in Names : TRUE, phase |-> "new",
            confirmed |-> FALSE, kind |-> "field", shown |-> Gone,
            seen |-> Gone, verdict |-> "none", acted |-> 0]

Init ==
    /\ role \in [Nodes -> {"button", "field"}]
    /\ page \in [Nodes -> Names]
    /\ focus = {}
    /\ elements = [n \in Nodes |-> Gone]
    /\ lock = 0
    /\ call = [c \in Calls |-> NewCall]
    /\ turn = 0
    /\ rpc = {}
    /\ dialog = 0
    /\ changes = 0

-----------------------------------------------------------------------------
(* The page and the viewer's pointer. *)

PageChanges ==
    /\ changes < MaxChanges
    /\ changes' = changes + 1
    /\ \/ /\ \E n \in Nodes, name \in Names \cup {Gone} :
                page' = [page EXCEPT ![n] = name]
          /\ UNCHANGED focus
       \/ /\ focus' \in {{}} \cup {{n} : n \in Nodes}
          /\ UNCHANGED page
    /\ UNCHANGED <<role, elements, lock, call, turn, rpc, dialog>>

\* Mutant: element_at does not wait for the lock.
PointMutant ==
    /\ elements' = page
    /\ UNCHANGED <<browserVars, lock, call, turn, viewerVars>>

\* element_at: the viewer points, the operator takes a fresh snapshot.
Point ==
    /\ lock = 0
    /\ elements' = page
    /\ UNCHANGED <<browserVars, lock, call, turn, viewerVars>>

-----------------------------------------------------------------------------
(* The policy. *)

\* What can change or send data, in the eyes of the code: of the keys that activate
\* a focused button or link, only Enter (the docstring of classify says "a key
\* press while a button is focused").
Submits(tool, kind) ==
    \/ tool = "submit"
    \/ tool \in {"click", "enter"} /\ kind = "button"

Classify(tool, kind, name) ==
    IF tool \in Watching THEN "allowed"
    ELSE IF name \in BlockedNames THEN "blocked"
    ELSE IF Submits(tool, kind) /\ name \in ConfirmNames \ AllowedNames
         THEN "confirm"
    ELSE "allowed"

-----------------------------------------------------------------------------
(* The operator. *)

\* The operator's answer reaches the brain, unless the brain has moved on.
Finish(c) == turn' = IF turn = c THEN 0 ELSE turn

\* What a key press is about: the focused element as it is now, or, if nothing
\* has the focus, the body, whose name is the text of the page.
Focused ==
    LET focused == {n \in focus : page[n] # Gone}
    IN  IF focused = {}
        THEN {[kind |-> "field", name |-> name] : name \in Names}
        ELSE {[kind |-> role[n], name |-> page[n]] : n \in focused}

\* The elements a call can be about: for a ref the one of the last snapshot.
Targets(c) ==
    IF call[c].tool \in KeyTools
    THEN Focused
    ELSE {[kind |-> role[call[c].node], name |-> call[c].name]}

KnownRef(c) == elements[call[c].node] = call[c].name

\* execute takes the lock and _run reaches the gate, or returns before it.
Begins(c) == call[c].phase = "waiting" /\ lock = 0

\* An unknown ref, or an address outside the product.
Refused(c) ==
    /\ Begins(c)
    /\ \/ call[c].tool \in RefTools /\ ~KnownRef(c)
       \/ call[c].tool = "navigate"
    /\ call' = [call EXCEPT ![c].phase = "over"]
    /\ Finish(c)
    /\ UNCHANGED <<browserVars, elements, lock, viewerVars>>

\* Tools that only look: a snapshot at most.
Looks(c) ==
    /\ Begins(c)
    /\ call[c].tool \in Watching
    /\ call[c].tool \in RefTools => KnownRef(c)
    /\ elements' \in {elements, page}
    /\ call' = [call EXCEPT ![c].phase = "over"]
    /\ Finish(c)
    /\ UNCHANGED <<browserVars, lock, viewerVars>>

Gated(c) ==
    /\ Begins(c)
    /\ call[c].tool \in GatedTools
    /\ call[c].tool \in RefTools => KnownRef(c)

\* _gate: a blocked element.
GateBlocks(c) ==
    /\ Gated(c)
    /\ \E t \in Targets(c) : Classify(call[c].tool, t.kind, t.name) = "blocked"
    /\ call' = [call EXCEPT ![c].phase = "over"]
    /\ Finish(c)
    /\ UNCHANGED <<browserVars, elements, lock, viewerVars>>

\* _gate answers needs_confirmation.  The brain asks the viewer, if it still
\* waits for this call.
GateAsks(c) ==
    /\ Gated(c)
    /\ ~call[c].confirmed
    /\ \E t \in Targets(c) :
          /\ Classify(call[c].tool, t.kind, t.name) = "confirm"
          /\ IF turn = c
             THEN /\ call' = [call EXCEPT ![c].phase = "asking",
                                          ![c].shown = t.name]
                  /\ rpc' = rpc \cup {c}
             ELSE /\ call' = [call EXCEPT ![c].phase = "over"]
                  /\ UNCHANGED rpc
    /\ UNCHANGED <<browserVars, elements, lock, turn, dialog>>

\* _gate lets the call through.
GatePasses(c) ==
    /\ Gated(c)
    /\ \E t \in Targets(c) :
          /\ \/ Classify(call[c].tool, t.kind, t.name) = "allowed"
             \/ /\ Classify(call[c].tool, t.kind, t.name) = "confirm"
                /\ call[c].confirmed
          /\ call' = [call EXCEPT ![c].phase = "acting", ![c].seen = t.name,
                                  ![c].kind = t.kind]
    /\ lock' = c
    /\ UNCHANGED <<browserVars, elements, turn, viewerVars>>

\* navigate inside the product, and select, which no gate looks at.
Ungated(c) ==
    /\ Begins(c)
    /\ \/ call[c].tool = "navigate"
       \/ call[c].tool = "select" /\ KnownRef(c)
    /\ \E t \in Targets(c) :
          call' = [call EXCEPT ![c].phase = "acting", ![c].seen = t.name,
                               ![c].kind = t.kind]
    /\ lock' = c
    /\ UNCHANGED <<browserVars, elements, turn, viewerVars>>

\* The page does what it was asked to, to the element as it is by now.
Acts(c) ==
    /\ call[c].phase = "acting"
    /\ call[c].tool \in RefTools => page[call[c].node] # Gone
    /\ IF call[c].tool = "navigate"
       THEN /\ page' \in [Nodes -> Names \cup {Gone}]
            /\ focus' = {}
       ELSE UNCHANGED <<page, focus>>
    /\ call' = [call EXCEPT ![c].phase = "settling", ![c].acted = @ + 1]
    /\ UNCHANGED <<role, changes, elements, lock, turn, viewerVars>>

\* Mutant: the lock is not given back.
SettlesMutant(c) ==
    /\ call[c].phase = "settling"
    /\ elements' = page
    /\ call' = [call EXCEPT ![c].phase = "over"]
    /\ Finish(c)
    /\ UNCHANGED <<browserVars, lock, viewerVars>>

\* _after_change: settle, snapshot, answer.
Settles(c) ==
    /\ call[c].phase = "settling"
    /\ elements' = page
    /\ lock' = 0
    /\ call' = [call EXCEPT ![c].phase = "over"]
    /\ Finish(c)
    /\ UNCHANGED <<browserVars, viewerVars>>

\* Mutant: a browser error is retried once, whatever the call did before it.
FailsMutant(c) ==
    /\ call[c].phase \in {"acting", "settling"}
    /\ lock' = 0
    /\ call' = [call EXCEPT ![c].phase = "waiting"]
    /\ UNCHANGED <<browserVars, elements, turn, viewerVars>>

\* A browser error or timeout, before or after the page was touched: execute
\* answers with an error.
Fails(c) ==
    /\ call[c].phase \in {"acting", "settling"}
    /\ lock' = 0
    /\ call' = [call EXCEPT ![c].phase = "over"]
    /\ Finish(c)
    /\ UNCHANGED <<browserVars, elements, viewerVars>>

Operates(c) ==
    \/ Refused(c) \/ Looks(c) \/ GateBlocks(c) \/ GateAsks(c) \/ GatePasses(c)
    \/ Ungated(c) \/ Acts(c) \/ Settles(c) \/ Fails(c)

-----------------------------------------------------------------------------
(* The brain and the viewer. *)

\* The next operate_* call, with a ref of any snapshot so far.
Posts(tool, node, name) ==
    /\ tool \notin RefTools =>
          node = NewCall.node /\ name = NewCall.name
    /\ \E c \in Calls :
          /\ call[c].phase = "new"
          /\ \A d \in 1..(c - 1) : call[d].phase # "new"
          /\ turn' = c
          /\ call' = [call EXCEPT ![c].phase = "waiting", ![c].tool = tool,
                                  ![c].node = node, ![c].name = name]

BrainCalls ==
    /\ turn = 0
    /\ \E tool \in Tools, node \in Nodes, name \in Names :
          Posts(tool, node, name)
    /\ UNCHANGED <<browserVars, elements, lock, viewerVars>>

\* The viewer interrupts, or the HTTP request to the operator times out: the
\* brain goes on without this call, whatever the operator does with it.
Abandon ==
    /\ turn # 0
    /\ turn' = 0
    /\ call' = IF call[turn].phase = "asking"
               THEN [call EXCEPT ![turn].phase = "over"]
               ELSE call
    /\ UNCHANGED <<browserVars, elements, lock, viewerVars>>

Asking(c) == turn = c /\ call[c].phase = "asking"

\* onConfirm.  The data channel is ordered.  A newer request supersedes an
\* unanswered one, which resolves to declined.
DialogOpens(c) ==
    /\ c \in rpc
    /\ \A d \in rpc : c <= d
    /\ rpc' = rpc \ {c}
    /\ dialog' = c
    /\ call' = IF dialog = 0 THEN call
               ELSE [call EXCEPT ![dialog].verdict = "declined"]
    /\ UNCHANGED <<browserVars, elements, lock, turn>>

\* The player is not live: declined without a dialog.
PlayerNotLive(c) ==
    /\ c \in rpc
    /\ \A d \in rpc : c <= d
    /\ rpc' = rpc \ {c}
    /\ call' = [call EXCEPT ![c].verdict = "declined"]
    /\ UNCHANGED <<browserVars, elements, lock, turn, dialog>>

\* The viewer answers.
ViewerAnswers ==
    /\ dialog # 0
    /\ dialog' = 0
    /\ \E verdict \in {"approved", "declined"} :
          call' = [call EXCEPT ![dialog].verdict = verdict]
    /\ UNCHANGED <<browserVars, elements, lock, turn, rpc>>

\* Mutant: the dialog has no timer of its own.
DialogTimesOutMutant == FALSE /\ UNCHANGED vars

\* The timer of the player, a little shorter than the caller's, or the end of
\* the call: declined.
DialogTimesOut ==
    /\ dialog # 0
    /\ dialog' = 0
    /\ call' = [call EXCEPT ![dialog].verdict = "declined"]
    /\ UNCHANGED <<browserVars, elements, lock, turn, rpc>>

\* The answer of the player reaches hooks.confirm: run the call again, with
\* confirmed set, or tell the model that the viewer declined.
AnswerArrives(c) ==
    /\ Asking(c)
    /\ call[c].verdict # "none"
    /\ IF call[c].verdict = "approved"
       THEN /\ call' = [call EXCEPT ![c].phase = "waiting",
                                    ![c].confirmed = TRUE]
            /\ UNCHANGED turn
       ELSE /\ call' = [call EXCEPT ![c].phase = "over"]
            /\ turn' = 0
    /\ UNCHANGED <<browserVars, elements, lock, viewerVars>>

\* Mutant: perform_rpc is given no response_timeout.
RpcFailsMutant(c) == Asking(c) /\ FALSE /\ UNCHANGED vars

\* perform_rpc raises (response_timeout, the viewer is gone), or there is no
\* viewer to ask: declined.
RpcFails(c) ==
    /\ Asking(c)
    /\ call' = [call EXCEPT ![c].phase = "over"]
    /\ turn' = 0
    /\ UNCHANGED <<browserVars, elements, lock, viewerVars>>

-----------------------------------------------------------------------------

Next ==
    \/ PageChanges
    \/ Point
    \/ BrainCalls
    \/ Abandon
    \/ ViewerAnswers
    \/ DialogTimesOut
    \/ \E c \in Calls :
          \/ Operates(c)
          \/ DialogOpens(c) \/ PlayerNotLive(c)
          \/ AnswerArrives(c) \/ RpcFails(c)

Spec == Init /\ [][Next]_vars

\* The operator finishes what it began, the lock is first come first served and
\* every wait has a timer.  Neither the viewer nor the network need answer.
Fairness ==
    /\ WF_vars(\E c \in Calls : Operates(c))
    /\ WF_vars(\E c \in Calls : RpcFails(c))
    /\ WF_vars(DialogTimesOut)

FairSpec == Spec /\ Fairness

-----------------------------------------------------------------------------
(* Properties. *)

\* When a gated call on a ref acts, the last snapshot of the sandbox, whoever asked
\* for it, does not know the element by a name that a blocked pattern matches: not
\* after the viewer approved what it was called before, not under an allowed
\* override, not with a ref of an older snapshot, and not when the viewer points
\* while the call runs (sandbox.py: _element, _gate and element_at under one lock).
\* This is less than "blocked: never executed" (policy.py): the page may have
\* renamed the element since that snapshot, or moved the focus since a key was
\* judged, and select is not gated.
KnownBlockedStays ==
    [][\A c \in Calls :
          /\ call'[c].acted > call[c].acted
          /\ call[c].tool \in GatedTools \cap RefTools
          => elements[call[c].node] \notin BlockedNames]_vars

\* The progress of a call in the terms of Consent.
Consenting(c) ==
    LET k == call[c]
    IN  CASE k.acted > 1 -> "acted twice"
          [] k.acted = 1 ->
               IF Classify(k.tool, k.kind, k.seen) = "confirm"
               THEN "consented" ELSE "harmless"
          [] k.acted = 0 /\ k.phase = "over" -> "closed"
          [] k.acted = 0 /\ k.phase # "over" /\ k.verdict = "approved" ->
               "approved"
          [] k.acted = 0 /\ k.phase # "over" /\ k.verdict # "approved"
             /\ k.shown # Gone -> "asked"
          [] OTHER -> "free"

Promise == INSTANCE Consent
    WITH consent <- [c \in Calls |-> Consenting(c)]

\* The code's protocol keeps the promise of Consent: a call acts at most once, on
\* what needs approval only once the viewer approved this call on screen, and
\* never after it was declined or abandoned while the viewer was asked.
KeepsPromise == Promise!Spec

\* The brain gets a result for every call, whoever does not answer.
CallsSettle == \A c \in Calls : turn = c ~> turn # c

\* A confirm dialog does not stay open, though nobody waits for its answer.
DialogsClose == \A c \in Calls : dialog = c ~> dialog # c
=============================================================================
