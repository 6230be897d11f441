---------------------------- MODULE ResourcePage ----------------------------
(***************************************************************************)
(* The resource page of the settings window (gui/pages/resources/          *)
(* resource_page.cpp): the refresh of the remote registry and of the       *)
(* translated titles (gui/utils/i18n_cache.cpp), and the downloads of      *)
(* models and scripts on a worker thread (gui/utils/download_worker.cpp).  *)
(*                                                                         *)
(* The GUI thread takes posted events in order.  An error box runs a loop  *)
(* of its own: events are still taken, clicks are not.  Disconnecting a    *)
(* worker does not take back what it has already posted.                   *)
(***************************************************************************)
EXTENDS Naturals, Sequences, FiniteSets

CONSTANTS
    Workers,     \* DownloadWorker objects, each used once
    KindOf,      \* what each is started for: "model" or "script"
    None,
    MaxRefreshes \* refreshes asked for by the user

VARIABLES
    button,     \* btnRefreshResources_ is enabled
    generation, \* refreshGeneration_
    waiting,    \* refreshWaitingForI18n_
    waitFor,    \* i18nWaitGeneration_
    i18n,       \* I18nCache::generation_
    pool,       \* tasks on the thread pool: <<"fetch", g>> and <<"i18n", g>>
    events,     \* events posted to the GUI thread
    shown,      \* the generation of the registry data the tables show
    current,    \* downloadWorker_
    worker,     \* worker[w] = [state, cancelled, heard]
    boxes,      \* error boxes open, innermost last (each waits for its close)
    model,      \* btnDownloadModel_ and btnRemoveModel_ are enabled
    bar,        \* the progress bar and its label are visible
    clicks,     \* refreshes the user asked for
    superseded, \* ghost: workers the user replaced
    crossed     \* ghost: an error of a replaced worker was still on its way

vars == <<button, generation, waiting, waitFor, i18n, pool, events, shown, current, worker,
          boxes, model, bar, clicks, superseded, crossed>>
refreshVars == <<button, generation, waiting, waitFor, i18n, pool, shown>>
downloadVars == <<current, worker, model, bar, superseded, crossed>>

Idle == [state |-> "new", cancelled |-> FALSE, heard |-> TRUE]

Init ==
    /\ button = FALSE
    /\ generation = 1 /\ waiting = FALSE /\ waitFor = 0
    /\ i18n = 1                         \* LoadFromDiskSync at startup
    /\ pool = {<<"fetch", 1>>}          \* the page's first refreshAll
    /\ events = <<>>
    /\ shown = 0
    /\ current = None
    /\ worker = [w \in Workers |-> Idle]
    /\ boxes = 0 /\ model = TRUE /\ bar = FALSE
    /\ clicks = 0
    /\ superseded = {} /\ crossed = FALSE

Post(e) == events' = Append(events, e)

-----------------------------------------------------------------------------
(* refreshAll: a new generation; the button stays off until its answer.    *)
(* Every earlier wait is dropped.                                          *)
refreshAll ==
    /\ generation' = generation + 1
    /\ waiting' = FALSE /\ waitFor' = 0
    /\ button' = FALSE
    /\ pool' = pool \cup {<<"fetch", generation + 1>>}
    /\ UNCHANGED <<i18n, shown>>

RefreshClicked ==
    /\ boxes = 0 /\ button /\ clicks < MaxRefreshes
    /\ clicks' = clicks + 1
    /\ refreshAll
    /\ UNCHANGED <<events, boxes>> /\ UNCHANGED downloadVars

(* A pool task ends and posts its result to the GUI thread.                *)
TaskEnds(t) ==
    /\ t \in pool
    /\ pool' = pool \ {t}
    /\ Post(t)
    /\ UNCHANGED <<button, generation, waiting, waitFor, i18n, shown, boxes, clicks>>
    /\ UNCHANGED downloadVars

(* The fetch's lambda on the GUI thread: a superseded one is dropped; the  *)
(* current one fills the tables and has the titles reloaded                *)
(* (I18nCache::ReloadFromDisk).                                            *)
FetchDone(g) ==
    IF g # generation THEN UNCHANGED refreshVars
    ELSE /\ shown' = g
         /\ i18n' = i18n + 1
         /\ pool' = pool \cup {<<"i18n", i18n + 1>>}
         /\ waiting' = TRUE /\ waitFor' = i18n + 1
         /\ UNCHANGED <<button, generation>>

(* finishRefreshAfterI18n: only the reload of the current refresh turns    *)
(* the button on again, whether it failed or not.                          *)
finishRefreshAfterI18n(g) ==
    IF ~waiting \/ g # waitFor THEN UNCHANGED <<button, waiting, waitFor>>
    ELSE button' = TRUE /\ waiting' = FALSE /\ waitFor' = 0

(* The reload's lambda: a superseded one is dropped; ApplyLoadedMap then   *)
(* tells the page, with the new map or with an error.                      *)
I18nDone(g) ==
    IF g # i18n THEN UNCHANGED refreshVars
    ELSE finishRefreshAfterI18n(g) /\ UNCHANGED <<generation, i18n, pool, shown>>

-----------------------------------------------------------------------------
(* abortDownload: the running worker is disconnected and cancelled; it     *)
(* deletes itself when it ends.                                            *)
Aborted == IF current = None THEN worker
           ELSE [worker EXCEPT ![current].cancelled = TRUE, ![current].heard = FALSE]

ErrorOnItsWay(w) == \E i \in DOMAIN events : events[i] = <<"error", w>>

(* onDownloadModelClicked and startScriptDownloadTask.                     *)
StartDownload(w) ==
    /\ boxes = 0
    /\ worker[w].state = "new"
    /\ KindOf[w] = "model" => model
    /\ worker' = [Aborted EXCEPT ![w] = [state |-> "running", cancelled |-> FALSE, heard |-> TRUE]]
    /\ current' = w
    /\ superseded' = superseded \cup ({current} \ {None})
    /\ crossed' = (crossed \/ ErrorOnItsWay(current))
    /\ model' = (model /\ KindOf[w] # "model")
    /\ bar' = (bar \/ KindOf[w] = "model")
    /\ UNCHANGED refreshVars /\ UNCHANGED <<events, boxes, clicks>>

(* Only a model's download reports progress.                               *)
ReportProgress(w) ==
    /\ worker[w].state = "running" /\ KindOf[w] = "model"
    /\ ~worker[w].cancelled /\ worker[w].heard
    /\ \A i \in DOMAIN events : events[i] # <<"progress", w>>
    /\ Post(<<"progress", w>>)
    /\ UNCHANGED refreshVars /\ UNCHANGED downloadVars /\ UNCHANGED <<boxes, clicks>>

(* run: the task ends; an error is posted unless it was cancelled.  The    *)
(* thread then posts that it has finished.                                 *)
RunEnds(w) ==
    /\ worker[w].state = "running"
    /\ worker' = [worker EXCEPT ![w].state = "ending"]
    /\ \/ UNCHANGED events
       \/ ~worker[w].cancelled /\ worker[w].heard /\ Post(<<"error", w>>)
    /\ UNCHANGED refreshVars /\ UNCHANGED <<current, model, bar, superseded, crossed, boxes, clicks>>

ThreadFinished(w) ==
    /\ worker[w].state = "ending"
    /\ worker' = [worker EXCEPT ![w].state = "ended"]
    /\ IF worker[w].heard THEN Post(<<"finished", w>>) ELSE UNCHANGED events
    /\ UNCHANGED refreshVars /\ UNCHANGED <<current, model, bar, superseded, crossed, boxes, clicks>>

(* Deleting a worker cancels it and waits for its thread.                  *)
Deleted(w) == IF w = None THEN worker ELSE [worker EXCEPT ![w].cancelled = @ \/ worker[w].state = "running"]

Finished ==
    /\ current' = None
    /\ worker' = Deleted(current)
    /\ model' = TRUE /\ bar' = FALSE
    /\ refreshAll

(* Mutant of onDownloadFinished: takes whichever worker is current.        *)
onDownloadFinishedAny(w) == Finished

(* onDownloadFinished: the end of another worker than the current one      *)
(* changes nothing; without a worker (after an error box) the current one  *)
(* is meant.                                                               *)
onDownloadFinished(w) ==
    IF current # None /\ w # None /\ w # current THEN UNCHANGED refreshVars /\ UNCHANGED <<current, worker, model, bar>>
    ELSE Finished

(* The GUI thread takes the next event; onDownloadError opens the box.     *)
TakeEvent ==
    /\ events # <<>>
    /\ events' = Tail(events)
    /\ LET e == Head(events)
       IN  \/ e[1] = "fetch" /\ FetchDone(e[2]) /\ UNCHANGED downloadVars /\ UNCHANGED boxes
           \/ e[1] = "i18n" /\ I18nDone(e[2]) /\ UNCHANGED downloadVars /\ UNCHANGED boxes
           \/ /\ e[1] = "progress" /\ bar' = TRUE
              /\ UNCHANGED refreshVars /\ UNCHANGED <<current, worker, model, superseded, crossed, boxes>>
           \/ e[1] = "error" /\ boxes' = boxes + 1 /\ UNCHANGED refreshVars /\ UNCHANGED downloadVars
           \/ e[1] = "finished" /\ onDownloadFinished(e[2]) /\ UNCHANGED <<superseded, crossed, boxes>>
    /\ UNCHANGED clicks

(* The user closes the box; onDownloadError goes on.                       *)
BoxClosed ==
    /\ boxes > 0
    /\ boxes' = boxes - 1
    /\ onDownloadFinished(None)
    /\ UNCHANGED <<events, clicks, superseded, crossed>>

Next ==
    \/ RefreshClicked \/ TakeEvent \/ BoxClosed
    \/ \E t \in pool : TaskEnds(t)
    \/ \E w \in Workers : StartDownload(w) \/ ReportProgress(w) \/ RunEnds(w) \/ ThreadFinished(w)

(* The pool runs its tasks (registry requests have timeouts), the GUI      *)
(* thread takes its events, threads that end are reported, and the user    *)
(* closes an error box.                                                    *)
Fairness ==
    /\ WF_vars(TakeEvent)
    /\ WF_vars(\E t \in pool : TaskEnds(t))
    /\ WF_vars(BoxClosed)
    /\ \A w \in Workers : WF_vars(RunEnds(w)) /\ WF_vars(ThreadFinished(w))

Spec == Init /\ [][Next]_vars /\ Fairness

-----------------------------------------------------------------------------
(* The button is not turned on early: while it is on, the tables show the  *)
(* answer to the newest refresh and its reload of the titles is over, so   *)
(* no older answer can still overwrite them.                               *)
RefreshIsOver ==
    button => shown = generation /\ ~waiting /\ \A t \in pool : t # <<"i18n", i18n>>

(* A download is only given up when the user starts another, and while one *)
(* runs uncancelled the page knows it.  The exception: an error box of a   *)
(* replaced worker closes over the download that replaced it.              *)
DownloadIsKept ==
    crossed \/ \A w \in Workers :
        /\ worker[w].cancelled => w \in superseded
        /\ worker[w].state = "running" /\ ~worker[w].cancelled => current = w

(* A page at rest looks at rest: with no download left, no event and no    *)
(* box, the buttons are on and the progress bar is gone.                   *)
RestLooksIdle ==
    /\ events = <<>> /\ boxes = 0
    /\ \A w \in Workers : worker[w].state \in {"new", "ended"} \/ ~worker[w].heard
    => model /\ ~bar

(* Every refresh comes to an end: the button is turned on again.           *)
RefreshEnds == ~button ~> button
=============================================================================
