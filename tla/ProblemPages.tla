---------------------------- MODULE ProblemPages -----------------------------
(***************************************************************************)
(* The Redis cache of problem pages, beside MySQL, for one problem.  Get   *)
(* fills it; Create writes it before the testcases are added; Update and   *)
(* Archive delete the page after their commit; changes of the testcases    *)
(* leave it alone.  Every error of Redis is ignored.                       *)
(*                                                                         *)
(* Each commit makes a new version of the problem.  FindByID reads the row *)
(* and then the tags, outside of a transaction, so a page may join two     *)
(* versions.  Times are relative to the present.                           *)
(***************************************************************************)
EXTENDS Integers

CONSTANTS
    PageCalls,          \* concurrent calls on any instance
    PageTTL,            \* ten minutes
    PageCallTimeout,    \* longest time from a call's first command to its last
    MaxProblemVersion   \* bound on the versions

ASSUME PagesAssumption ==
    PageTTL \in Nat \ {0} /\ PageCallTimeout \in Nat /\ MaxProblemVersion \in Nat

VARIABLES
    current,            \* the problem in MySQL: its status and version
    outdated,           \* how long each version has been out of date
    page,               \* the key in Redis
    pageCall            \* progress of every call

pagesVars == <<current, outdated, page, pageCall>>

ProblemVersions == 0..MaxProblemVersion
Timeless == PageTTL + PageCallTimeout + 1       \* ages beyond this are not told apart
NoCachedPage == [row |-> 0, tags |-> 0, left |-> 0]
NoPageCall == [pc |-> "idle", row |-> 0, tags |-> 0, spent |-> 0]

PagesInit ==
    /\ current = [status |-> "absent", version |-> 0]
    /\ outdated = [v \in ProblemVersions |-> -1]
    /\ page = NoCachedPage
    /\ pageCall = [c \in PageCalls |-> NoPageCall]

InCall(c, pc) == pageCall[c].pc = pc
Proceed(c, pc) == pageCall' = [pageCall EXCEPT ![c].pc = pc]
EndCall(c) == pageCall' = [pageCall EXCEPT ![c] = NoPageCall]
Cached == page.left > 0

Commit(status) ==
    /\ current.version < MaxProblemVersion
    /\ current' = [status |-> status, version |-> current.version + 1]
    /\ outdated' = [outdated EXCEPT ![current.version] = 0]

\* A Redis command takes effect, or fails and is ignored.
SetPage(row, tags) ==
    page' = [row |-> row, tags |-> tags, left |-> PageTTL] \/ UNCHANGED page
DeletePage ==
    page' = NoCachedPage \/ UNCHANGED page

-----------------------------------------------------------------------------
\* What a page shows has been out of date for so long: not at all is -1.
AgeOf(p) == IF outdated[p.row] >= outdated[p.tags] THEN outdated[p.row] ELSE outdated[p.tags]
Show(c, p) ==
    pageCall' = [pageCall EXCEPT ![c] = [pc |-> "shown", age |-> AgeOf(p)]]

GetPage_Renewing(c) ==      \* seeded defect: every reading renews the key
    /\ InCall(c, "idle")
    /\ \/ Cached /\ Show(c, page) /\ page' = [page EXCEPT !.left = PageTTL]
       \/ Proceed(c, "finding") /\ UNCHANGED page
    /\ UNCHANGED <<current, outdated>>
\* RedisProblemCache.Get: a hit, or a miss, which an error of Redis is as well.
GetPage(c) ==
    /\ InCall(c, "idle")
    /\ (Cached /\ Show(c, page)) \/ Proceed(c, "finding")
    /\ UNCHANGED <<current, outdated, page>>

FindRow(c) ==
    /\ InCall(c, "finding")
    /\ IF current.status = "absent" THEN EndCall(c)
       ELSE pageCall' = [pageCall EXCEPT ![c].pc = "tags", ![c].row = current.version]
    /\ UNCHANGED <<current, outdated, page>>

FindTags(c) ==
    /\ InCall(c, "tags")
    /\ pageCall' = [pageCall EXCEPT ![c].pc = "found", ![c].tags = current.version]
    /\ UNCHANGED <<current, outdated, page>>

\* Who is not an administrator gets "not found" instead of an archived page.
CachePage(c) ==
    /\ InCall(c, "found")
    /\ SetPage(pageCall[c].row, pageCall[c].tags)
    /\ Show(c, pageCall[c])
    /\ UNCHANGED <<current, outdated>>

-----------------------------------------------------------------------------
CreatePage(c) ==
    /\ InCall(c, "idle") /\ current.version = 0
    /\ Commit("normal")
    /\ pageCall' = [pageCall EXCEPT ![c].pc = "created", ![c].row = 1, ![c].tags = 1]
    /\ UNCHANGED page

CacheCreated(c) ==
    /\ InCall(c, "created")
    /\ SetPage(pageCall[c].row, pageCall[c].tags)
    /\ Proceed(c, "adding")
    /\ UNCHANGED <<current, outdated>>

\* A testcase of the request is stored, which makes a version; the last one ends the call.
AddCreatedCase(c) ==
    /\ InCall(c, "adding") /\ current.status = "normal"
    /\ Commit("normal")
    /\ EndCall(c) \/ UNCHANGED pageCall
    /\ UNCHANGED page

\* One fails: the page is deleted before the problem is.
UndoPage(c) ==
    /\ InCall(c, "adding") /\ DeletePage /\ Proceed(c, "undoing")
    /\ UNCHANGED <<current, outdated>>

UndoProblem(c) ==
    /\ InCall(c, "undoing") /\ Commit("absent") /\ EndCall(c)
    /\ UNCHANGED page

\* Update, or Archive, of a problem that is not archived.
ChangeProblem(c) ==
    /\ InCall(c, "idle") /\ current.status = "normal"
    /\ Commit("normal") \/ Commit("archived")
    /\ Proceed(c, "changed")
    /\ UNCHANGED page

ForgetPage(c) ==
    /\ InCall(c, "changed") /\ DeletePage /\ EndCall(c)
    /\ UNCHANGED <<current, outdated>>

\* AddTestcase and ArchiveTestcase change active_judge_revision only.
ChangeTestcases ==
    /\ current.status = "normal" /\ Commit("normal")
    /\ UNCHANGED <<page, pageCall>>

\* The call is over, or breaks off: an error, a deadline, a death.
LeavePage(c) ==
    /\ ~InCall(c, "idle") /\ EndCall(c)
    /\ UNCHANGED <<current, outdated, page>>

PageTick ==
    /\ \A c \in PageCalls : pageCall[c].pc \notin {"idle", "shown"} => pageCall[c].spent < PageCallTimeout
    /\ outdated' = [v \in ProblemVersions |-> IF outdated[v] \in {-1, Timeless} THEN outdated[v] ELSE outdated[v] + 1]
    /\ page' = IF page.left > 1 THEN [page EXCEPT !.left = @ - 1] ELSE NoCachedPage
    /\ pageCall' = [c \in PageCalls |-> IF pageCall[c].pc \in {"idle", "shown"} THEN pageCall[c]
                                        ELSE [pageCall[c] EXCEPT !.spent = @ + 1]]
    /\ UNCHANGED current

PagesNext ==
    \/ \E c \in PageCalls :
         \/ GetPage(c) \/ FindRow(c) \/ FindTags(c) \/ CachePage(c)
         \/ CreatePage(c) \/ CacheCreated(c) \/ AddCreatedCase(c) \/ UndoPage(c) \/ UndoProblem(c)
         \/ ChangeProblem(c) \/ ForgetPage(c) \/ LeavePage(c)
    \/ ChangeTestcases \/ PageTick

PagesSpec == PagesInit /\ [][PagesNext]_pagesVars

-----------------------------------------------------------------------------
(* Nobody is shown anything of a problem that has been out of date for      *)
(* longer than PageTTL and a call's time: a page deleted in vain, one that  *)
(* a slow reader or the creation itself put back after the change, and the  *)
(* page of a creation that was undone all go, however often they are read.  *)
OldPagesGo ==
    \A c \in PageCalls : InCall(c, "shown") => pageCall[c].age <= PageTTL + PageCallTimeout
=============================================================================
