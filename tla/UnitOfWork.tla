----------------------------- MODULE UnitOfWork -----------------------------
(***************************************************************************)
(* What the services rely on in SQLAlchemy.  Sessions are opened with      *)
(* expire_on_commit=False: an object keeps the columns it was loaded with, *)
(* and a flush emits an UPDATE of the columns whose value was changed,     *)
(* whatever the row holds by then.                                         *)
(***************************************************************************)

CONSTANT None   \* SQL NULL, no row, nothing loaded

\* The row after a flush: `set` is the object, `loaded` what it was read as.
Flushed(stored, loaded, set) ==
    [c \in DOMAIN stored |->
        IF set[c] # loaded[c] THEN set[c] ELSE stored[c]]
=============================================================================
