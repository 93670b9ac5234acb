--------------------------- MODULE PromptRequests ---------------------------
(***************************************************************************)
(* Prompts: a plugin, or the screen thread's close dialogue, asks the user *)
(* something, and the prompt plugin is loaded in a popup to get the answer *)
(* (zellij-server/src/plugins/prompt_requests.rs, screen/popups.rs).       *)
(*                                                                         *)
(*   caller --PromptRequest--> plugin thread --OpenPromptPopup--> screen   *)
(*                               | ^     <-------LoadPopup-------          *)
(*     <-------result------------+ |     --------AddPopup------->          *)
(*                                 |                              |        *)
(*                           PromptReplied <-- prompt plugin <-- user      *)
(*                                                                         *)
(* The user may close the popup, a caller may be unloaded, and a client    *)
(* may leave, at any point of this; the main loop tells the screen thread  *)
(* and then the plugin thread of the last.                                 *)
(***************************************************************************)
EXTENDS Integers, Sequences, FiniteSets, SequencesExt

CONSTANTS
  Clients,
  Plugins,       \* plugins that ask
  Dialogue,      \* CLOSE_DIALOGUE_CALLER_ID
  PluginRequests,
  MaxDialogues,  \* bound: close dialogues
  Settings       \* what a behaviour may start from

\* PromptCaller, and what the request says: the user it is for, and whether it is a notice.
Request == [plugin : Plugins \cup {Dialogue}, client : Clients, id : Nat,
            owner : Clients, notice : BOOLEAN]
Caller(r) == <<r.plugin, r.client, r.id>>

\* The bounds of a behaviour.
Setting == [
  requests   : SUBSET PluginRequests,  \* those that may be made
  quitters   : SUBSET Clients,         \* clients that may ask to quit
  dialogues  : 0 .. MaxDialogues,      \* close dialogues
  departures : SUBSET Clients,         \* clients that may leave of their own accord
  closings   : SUBSET Plugins]         \* plugins that may be unloaded

ASSUME PromptAssumption ==
  /\ Dialogue \notin Plugins
  /\ PluginRequests \subseteq Request
  /\ \A r, s \in PluginRequests :
       r.plugin \in Plugins /\ (Caller(r) = Caller(s) => r = s)
  /\ MaxDialogues \in Nat
  /\ Settings \subseteq Setting

DialogueRequest(c, n) ==
  [plugin |-> Dialogue, client |-> c, id |-> n, owner |-> c, notice |-> FALSE]
Requests == PluginRequests \cup {DialogueRequest(c, n) : c \in Clients, n \in 1 .. MaxDialogues}
Results == {"answer", "cancelled", "error"}

VARIABLES
  setting,        \* never changes
  asked,          \* the requests made
  live,           \* <<plugin, client>>: the calling instances in the plugin map
  connected,      \* connected_clients of the plugin thread
  inbox,          \* instructions for the plugin thread
  screen,         \* instructions for the screen thread
  pending,        \* PromptRequests: NotPending, Opening or the popup of a request
  popups,         \* the prompt plugins loaded: [client, has, alive, shown, finished]
  attached,       \* the clients of the screen thread (active_tab_ids)
  close_prompts,  \* per client: the number of its close dialogue, or 0
  next_close_prompt_id,
  leaving,        \* per client: how far the main loop is with its removal
  closing,        \* the plugins asked to unload
  sent            \* history, per request: the results sent

callerVars == <<setting, asked, live, closing>>
screenVars == <<attached, close_prompts, next_close_prompt_id>>
vars == <<callerVars, screenVars, connected, inbox, screen, pending, popups, leaving, sent>>

NotPending == -1
Opening == 0
Popups == DOMAIN popups
Nobody == {}

About(kind, r) == [kind |-> kind, request |-> r]
Load(r, c) == [kind |-> "LoadPopup", request |-> r, client |-> c]
AddPopup(n, c) == [kind |-> "AddPopup", popup |-> n, client |-> c]
Replied(n, id) == [kind |-> "PromptReplied", popup |-> n, id |-> id]
UnloadPopup(n) == [kind |-> "Unload", popup |-> n]
UnloadPlugin(p) == [kind |-> "UnloadPlugin", plugin |-> p]
ClosePane(n) == [kind |-> "ClosePane", popup |-> n]
RemoveClient(c) == [kind |-> "RemoveClient", client |-> c]
DialogueAnswer(r, result) == [kind |-> "CloseDialogueAnswer", request |-> r, result |-> result]

\* One message for each member of a set, in some order.
Each(Message(_), S) == [k \in 1 .. Cardinality(S) |-> Message(SetToSeq(S)[k])]

Init ==
  /\ setting \in Settings
  /\ asked = {}
  /\ live = {<<r.plugin, r.client>> : r \in setting.requests}
  /\ connected = Clients
  /\ inbox = <<>>
  /\ screen = <<>>
  /\ pending = [r \in Requests |-> NotPending]
  /\ popups = <<>>
  /\ attached = Clients
  /\ close_prompts = [c \in Clients |-> 0]
  /\ next_close_prompt_id = 0
  /\ leaving = [c \in Clients |-> "no"]
  /\ closing = {}
  /\ sent = [r \in Requests |-> <<>>]

(***************************************************************************)
(* PromptRequests and apply_prompt_actions: the requests in told get a     *)
(* result, the popups in closed are closed, and rest goes to the screen.   *)
(***************************************************************************)
\* Variant: a request stays pending after its result was sent.
Kept(gone) == pending

Removed(gone) == [r \in Requests |-> IF r \in gone THEN NotPending ELSE pending[r]]

Apply(after, told, result, closed, rest) ==
  LET dialogues == {r \in told : r.plugin = Dialogue} IN
  /\ pending' = after
  /\ sent' = [r \in Requests |-> IF r \in told THEN Append(sent[r], result) ELSE sent[r]]
  /\ screen' = screen \o rest
                 \o Each(LAMBDA r : DialogueAnswer(r, result), dialogues)
                 \o Each(ClosePane, closed)
  /\ inbox' = Tail(inbox) \o Each(UnloadPopup, closed)

\* callers_gone: their popups close, and no result is sent.
CallersGone(gone) ==
  Apply(Removed(gone), Nobody, "error", {n \in Popups : \E r \in gone : pending[r] = n}, <<>>)

Start(r) ==
  /\ Apply([pending EXCEPT ![r] = Opening], Nobody, "error", {}, <<About("OpenPromptPopup", r)>>)
  /\ UNCHANGED <<live, connected, popups>>

Fail(r) ==
  /\ Apply(Removed({r}), {q \in {r} : pending[q] # NotPending}, "error", {}, <<>>)
  /\ UNCHANGED <<live, connected, popups>>

\* load_plugin runs for the first connected client if the owner is not connected.
RunsFor(c) == IF c \in connected \/ connected = {} THEN {c} ELSE connected

\* Variant: a popup nobody waits for is left open.
LeftOpen(r, n) == {}

ClosedByAttach(r, n) == IF pending[r] = Opening THEN {} ELSE {n}

\* The popup is loaded and gets the request if it is still wanted.
Attach(r, owner) ==
  LET n == Len(popups) + 1
      wanted == {q \in {r} : pending[q] = Opening}
  IN
  /\ \E c \in RunsFor(owner) :
       /\ popups' = Append(popups, [client |-> c, has |-> wanted, alive |-> TRUE,
                                    shown |-> FALSE, finished |-> FALSE])
       /\ Apply([q \in Requests |-> IF q \in wanted THEN n ELSE pending[q]],
                Nobody, "error", ClosedByAttach(r, n), <<AddPopup(n, c)>>)
  /\ UNCHANGED <<live, connected>>

\* Variant: a reply is matched by the number of its request alone.
SameNumber(n, id) == {r \in Requests : pending[r] > 0 /\ r.id = id}

AnsweredBy(n, id) == {r \in Requests : pending[r] = n /\ r.id = id}

\* The first caller found, if there are several.
Reply(n, id) ==
  /\ LET callers == AnsweredBy(n, id) IN
     IF callers = {}
     THEN Apply(pending, Nobody, "answer", {}, <<>>)
     ELSE \E r \in callers : Apply(Removed({r}), {r}, "answer", {}, <<>>)
  /\ UNCHANGED <<live, connected, popups>>

\* Variant: a prompt is closed without a word to its caller.
ToldNothing(gone) == {}

ToldCancelled(gone) == {r \in gone : ~r.notice}

\* unload_plugin of a prompt plugin.
PromptClosed(n) ==
  LET gone == {r \in Requests : pending[r] = n} IN
  /\ Apply(Removed(gone), ToldCancelled(gone), "cancelled", {}, <<>>)
  /\ popups' = [popups EXCEPT ![n].alive = FALSE]
  /\ UNCHANGED <<live, connected>>

\* unload_plugin of a plugin that asks.
CallerClosed(p) ==
  /\ CallersGone({r \in Requests : r.plugin = p})
  /\ live' = {i \in live : i[1] # p}
  /\ UNCHANGED <<connected, popups>>

\* remove_client: the instances that run for the client go.
InstancesGone(c) ==
  /\ CallersGone({r \in PluginRequests : r.client = c /\ <<r.plugin, c>> \in live})
  /\ live' = {i \in live : i[2] # c}
  /\ connected' = connected \ {c}
  /\ popups' = [n \in Popups |-> IF popups[n].client = c
                                 THEN [popups[n] EXCEPT !.alive = FALSE] ELSE popups[n]]

PluginThread ==
  LET m == Head(inbox) IN
  /\ inbox # <<>>
  /\ CASE m.kind = "PromptRequest" -> Start(m.request)
       [] m.kind = "LoadPopup" -> Attach(m.request, m.client) \/ Fail(m.request)
       [] m.kind = "PromptReplied" -> Reply(m.popup, m.id)
       [] m.kind = "PromptPopupFailed" -> Fail(m.request)
       [] m.kind = "WithdrawPrompt" ->
            CallersGone({m.request}) /\ UNCHANGED <<live, connected, popups>>
       [] m.kind = "Unload" -> PromptClosed(m.popup)
       [] m.kind = "UnloadPlugin" -> CallerClosed(m.plugin)
       [] m.kind = "RemoveClient" -> InstancesGone(m.client)
  /\ UNCHANGED <<setting, asked, closing, screenVars, leaving>>

(***************************************************************************)
(* The screen thread                                                       *)
(***************************************************************************)
\* The message that withdraws client c's close dialogue, if it has one.
Withdrawal(c) ==
  IF close_prompts[c] = 0 THEN <<>>
  ELSE <<About("WithdrawPrompt", DialogueRequest(c, close_prompts[c]))>>

Shown(n, yes) == [popups EXCEPT ![n].shown = yes]

OpenPromptPopup(r) ==
  /\ inbox' = Append(inbox, IF r.owner \in attached THEN Load(r, r.owner)
                            ELSE About("PromptPopupFailed", r))
  /\ UNCHANGED <<popups, screenVars, leaving>>

\* The client may have gone to another tab, and the popup's anchor may be gone.
OnAddPopup(n, c) ==
  /\ \/ /\ c \in attached
        /\ popups' = Shown(n, TRUE)
        /\ UNCHANGED inbox
     \/ /\ inbox' = Append(inbox, UnloadPopup(n))
        /\ UNCHANGED popups
  /\ UNCHANGED <<screenVars, leaving>>

OnClosePane(n) ==
  /\ popups' = Shown(n, FALSE)
  /\ UNCHANGED <<inbox, screenVars, leaving>>

\* close_dialogue_answer: the user cancels or detaches; ends of the session are left out.
CloseDialogueAnswer(r, result) ==
  LET c == r.client IN
  /\ IF close_prompts[c] # r.id
     THEN UNCHANGED <<close_prompts, leaving>>
     ELSE /\ close_prompts' = [close_prompts EXCEPT ![c] = 0]
          /\ \/ UNCHANGED leaving
             \/ /\ result = "answer" /\ leaving[c] = "no"
                /\ leaving' = [leaving EXCEPT ![c] = "asked"]
  /\ UNCHANGED <<attached, next_close_prompt_id, inbox, popups>>

DialogueForgotten(c) == [close_prompts EXCEPT ![c] = 0]

ScreenRemovesClient(c) ==
  LET closed == {n \in Popups : popups[n].shown /\ popups[n].client = c} IN
  /\ inbox' = inbox \o Each(UnloadPopup, closed) \o Withdrawal(c)
  /\ popups' = [n \in Popups |-> IF n \in closed THEN [popups[n] EXCEPT !.shown = FALSE]
                                 ELSE popups[n]]
  /\ close_prompts' = DialogueForgotten(c)
  /\ attached' = attached \ {c}
  /\ UNCHANGED <<next_close_prompt_id, leaving>>

ScreenThread ==
  LET m == Head(screen) IN
  /\ screen # <<>>
  /\ screen' = Tail(screen)
  /\ CASE m.kind = "OpenPromptPopup" -> OpenPromptPopup(m.request)
       [] m.kind = "AddPopup" -> OnAddPopup(m.popup, m.client)
       [] m.kind = "ClosePane" -> OnClosePane(m.popup)
       [] m.kind = "CloseDialogueAnswer" -> CloseDialogueAnswer(m.request, m.result)
       [] m.kind = "RemoveClient" -> ScreenRemovesClient(m.client)
  /\ UNCHANGED <<callerVars, connected, pending, sent>>

\* The user asks to quit: a second time withdraws the dialogue and quits.
ConfirmQuit(c) ==
  /\ c \in attached \cap setting.quitters
  /\ IF close_prompts[c] # 0
     THEN /\ inbox' = inbox \o Withdrawal(c)
          /\ close_prompts' = [close_prompts EXCEPT ![c] = 0]
          /\ leaving' = [leaving EXCEPT ![c] = IF @ = "no" THEN "asked" ELSE @]
          /\ UNCHANGED <<asked, next_close_prompt_id>>
     ELSE LET n == next_close_prompt_id + 1 IN
          /\ n <= setting.dialogues
          /\ next_close_prompt_id' = n
          /\ close_prompts' = [close_prompts EXCEPT ![c] = n]
          /\ asked' = asked \cup {DialogueRequest(c, n)}
          /\ inbox' = Append(inbox, About("PromptRequest", DialogueRequest(c, n)))
          /\ UNCHANGED leaving
  /\ UNCHANGED <<setting, live, closing, attached, connected, screen, pending, popups, sent>>

\* The user closes the popup, goes to another tab, or the popup's plugin fails.
ClosePopup(n) ==
  /\ popups[n].shown
  /\ popups' = Shown(n, FALSE)
  /\ inbox' = Append(inbox, UnloadPopup(n))
  /\ UNCHANGED <<callerVars, screenVars, connected, screen, pending, leaving, sent>>

(***************************************************************************)
(* The plugins                                                             *)
(***************************************************************************)
\* prompt: an invalid request is answered at once.
Ask(r, valid) ==
  /\ <<r.plugin, r.client>> \in live
  /\ r \in setting.requests \ asked
  /\ asked' = asked \cup {r}
  /\ inbox' = IF valid THEN Append(inbox, About("PromptRequest", r)) ELSE inbox
  /\ sent' = IF valid THEN sent ELSE [sent EXCEPT ![r] = Append(@, "error")]
  /\ UNCHANGED <<setting, live, closing, screenVars, connected, screen, pending, popups, leaving>>

\* The prompt plugin replies, to the user's keys or to its timeout, and closes itself;
\* a notice only closes itself.
Answer(n, r) ==
  /\ popups[n].alive /\ ~popups[n].finished
  /\ r \in popups[n].has
  /\ popups' = [popups EXCEPT ![n].finished = TRUE]
  /\ inbox' = inbox \o (IF r.notice THEN <<>> ELSE <<Replied(n, r.id)>>) \o <<UnloadPopup(n)>>
  /\ screen' = Append(screen, ClosePane(n))
  /\ UNCHANGED <<callerVars, screenVars, connected, pending, leaving, sent>>

UnloadCaller(p) ==
  /\ p \in setting.closings \ closing
  /\ closing' = closing \cup {p}
  /\ inbox' = Append(inbox, UnloadPlugin(p))
  /\ UNCHANGED <<setting, asked, live, screenVars, connected, screen, pending, popups, leaving, sent>>

(***************************************************************************)
(* A client leaves: the main loop tells the screen, then the plugin thread.*)
(***************************************************************************)
Leave(c) ==
  /\ c \in setting.departures
  /\ leaving[c] = "no"
  /\ leaving' = [leaving EXCEPT ![c] = "asked"]
  /\ UNCHANGED <<callerVars, screenVars, connected, inbox, screen, pending, popups, sent>>

MainLoop(c) ==
  /\ \/ /\ leaving[c] = "asked"
        /\ leaving' = [leaving EXCEPT ![c] = "screen told"]
        /\ screen' = Append(screen, RemoveClient(c))
        /\ UNCHANGED inbox
     \/ /\ leaving[c] = "screen told"
        /\ leaving' = [leaving EXCEPT ![c] = "left"]
        /\ inbox' = Append(inbox, RemoveClient(c))
        /\ UNCHANGED screen
  /\ UNCHANGED <<callerVars, screenVars, connected, pending, popups, sent>>

Next ==
  \/ PluginThread \/ ScreenThread
  \/ \E c \in Clients : ConfirmQuit(c) \/ Leave(c) \/ MainLoop(c)
  \/ \E n \in Popups : ClosePopup(n)
  \/ \E n \in Popups, r \in Requests : Answer(n, r)
  \/ \E r \in PluginRequests, valid \in BOOLEAN : Ask(r, valid)
  \/ \E p \in Plugins : UnloadCaller(p)

Spec == Init /\ [][Next]_vars

\* The server's threads go on; the user and the plugins need do nothing.
Fairness ==
  /\ WF_vars(PluginThread) /\ WF_vars(ScreenThread)
  /\ \A c \in Clients : WF_vars(MainLoop(c))

FairSpec == Spec /\ Fairness

(***************************************************************************)
(* Properties                                                              *)
(***************************************************************************)
InFlight(r) == \E m \in ToSet(inbox) : m.kind = "PromptRequest" /\ m.request = r

\* A request is shown when the popup it is attached to is on a screen.
Phase(r) ==
  CASE r \notin asked -> "new"
    [] r \in asked /\ pending[r] > 0 /\ popups[pending[r]].shown -> "shown"
    [] r \in asked /\ (InFlight(r) \/ pending[r] # NotPending)
         /\ ~(pending[r] > 0 /\ popups[pending[r]].shown) -> "waiting"
    [] OTHER -> "settled"

Promise == INSTANCE PromptPromise WITH phase <- [r \in Requests |-> Phase(r)]

\* A pending request's popup exists and has this request, and only a client the screen
\* thread has attached has a close dialogue (remove_client withdraws it).
TypeOK ==
  /\ asked \subseteq Requests /\ connected \subseteq Clients /\ attached \subseteq Clients
  /\ \A r \in Requests :
       /\ pending[r] \in {NotPending, Opening} \cup Popups
       /\ pending[r] > 0 => popups[pending[r]].has = {r}
       /\ pending[r] # NotPending => r \in asked
       /\ sent[r] \in Seq(Results)
  /\ \A c \in Clients : close_prompts[c] \in 0 .. next_close_prompt_id
                        /\ (close_prompts[c] # 0 => c \in attached)

\* A prompt keeps its promise (PromptPromise): at most one result, nothing after it, and
\* no request waits unseen for ever, though its user leaves, its caller is unloaded or
\* its popup does not load or finds no place.
PromiseKept == Promise!Spec

\* reply: an answer goes to the request that its popup was given, though the requests of
\* different callers have the same number.
AnswersItsRequest ==
  [][\A r \in Requests : Len(sent'[r]) > Len(sent[r]) /\ Last(sent'[r]) = "answer" =>
       r \in popups[Head(inbox).popup].has]_vars

\* close_prompts: a client that has a close dialogue has a request for it on its way,
\* pending, or answered; otherwise its next wish to quit would only withdraw a dialogue
\* that nobody sees.
DialogueTracked ==
  \A c \in Clients : close_prompts[c] # 0 =>
    LET r == DialogueRequest(c, close_prompts[c]) IN
    \/ InFlight(r)
    \/ pending[r] # NotPending
    \/ \E m \in ToSet(screen) : m.kind = "CloseDialogueAnswer" /\ m.request = r

\* attach and callers_gone: a popup that no request waits for does not stay on screen.
OrphansClose ==
  []<>(\A n \in Popups : popups[n].shown => \E r \in Requests : pending[r] = n)
=============================================================================
