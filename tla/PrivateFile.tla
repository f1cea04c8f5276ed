---------------------------- MODULE PrivateFile ----------------------------
(***************************************************************************)
(* A small JSON file several writers replace: the temporary file beside it *)
(* has one name for all of them.  A writer opens (and truncates) it, writes*)
(* the whole text in one call, and renames it over the live file.  A name  *)
(* moves with a rename, an open descriptor does not: what a slow writer    *)
(* still has to write may land in the live file.                           *)
(*                                                                         *)
(* RouteStore and CompatibilityEvidenceStore both write this way.          *)
(***************************************************************************)
EXTENDS Integers

CONSTANTS
    NoDoc,  \* what a reader gets from text that is no JSON object
    Gone    \* no such name in the directory

\* What a file holds: the document a reader parses, and its length.
Text(doc, size) == [doc |-> doc, size |-> size]
Empty == Text(NoDoc, 0)

\* atTmp and atLive: writers with a descriptor on the file of that name, the
\* text not yet written.
NewFile == [live |-> Gone, tmp |-> Gone, atTmp |-> {}, atLive |-> {}]

Exists(text) == text # Gone

\* load() and _load(): a missing or unparsable file reads as nothing.
Loaded(file) == IF Exists(file.live) THEN file.live.doc ELSE NoDoc

\* Written from the start of a longer text, the end of the old one stays
\* behind.  JSON allows no data after the document; the last byte alone is the
\* newline every text ends with, and is allowed.
Over(new, old) ==
    CASE old.size <= new.size    -> new
      [] old.size = new.size + 1 -> Text(new.doc, old.size)
      [] old.size > new.size + 1 -> Text(NoDoc, old.size)

Opened(file, w) == [file EXCEPT !.tmp = Empty, !.atTmp = @ \cup {w}]

Written(file, w, text) ==
    CASE w \in file.atTmp ->
           [file EXCEPT !.tmp = Over(text, @), !.atTmp = @ \ {w}]
      [] w \notin file.atTmp /\ w \in file.atLive ->
           [file EXCEPT !.live = Over(text, @), !.atLive = @ \ {w}]
      [] OTHER -> file

\* Renaming fails when another writer has renamed the temporary file already.
CanReplace(file) == Exists(file.tmp)

Replaced(file) ==
    [live |-> file.tmp, tmp |-> Gone, atTmp |-> {}, atLive |-> file.atTmp]

\* The process of a writer ends; what it had not written is lost.
Abandoned(file, w) == [file EXCEPT !.atTmp = @ \ {w}, !.atLive = @ \ {w}]
=============================================================================
