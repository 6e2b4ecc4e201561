--------------------------- MODULE ChapterDrafts ---------------------------
(***************************************************************************)
(* What the draft feature promises a writer: a chapter is a non-empty      *)
(* sequence of drafts, exactly one of which is the active one.  Each       *)
(* request takes effect at once.  DraftRepo.tla models the code that is    *)
(* to implement this.                                                      *)
(***************************************************************************)
EXTENDS SequencesExt

CONSTANTS Chapter, Draft, NoDraft

VARIABLES
    book,     \* each chapter's drafts in display order; <<>>: no such chapter
    active    \* each chapter's active draft

vars == <<book, active>>

Drafts(c) == {book[c][i] : i \in DOMAIN book[c]}

Init ==
    /\ book = [c \in Chapter |-> <<>>]
    /\ active = [c \in Chapter |-> NoDraft]

(* A chapter is born with one draft, which is active. *)
Create(c, d) ==
    /\ book[c] = <<>>
    /\ book' = [book EXCEPT ![c] = <<d>>]
    /\ active' = [active EXCEPT ![c] = d]

(* A new draft, blank or forked, goes to the end and is not active. *)
Add(c, d) ==
    /\ book[c] # <<>>
    /\ \A x \in Chapter : d \notin Drafts(x)
    /\ book' = [book EXCEPT ![c] = Append(@, d)]
    /\ UNCHANGED active

Activate(c, d) ==
    /\ d \in Drafts(c)
    /\ active' = [active EXCEPT ![c] = d]
    /\ UNCHANGED book

(* The active draft, hence the last one, cannot be deleted. *)
Delete(c, d) ==
    /\ d # active[c]
    /\ \E i \in DOMAIN book[c] :
           book[c][i] = d /\ book' = [book EXCEPT ![c] = RemoveAt(@, i)]
    /\ UNCHANGED active

(* A chapter goes with all its drafts. *)
Drop(c) ==
    /\ book' = [book EXCEPT ![c] = <<>>]
    /\ active' = [active EXCEPT ![c] = NoDraft]

Next ==
    \E c \in Chapter :
        \/ Drop(c)
        \/ \E d \in Draft :
               Create(c, d) \/ Add(c, d) \/ Activate(c, d) \/ Delete(c, d)

Spec == Init /\ [][Next]_vars
=============================================================================
