------------------------------ MODULE ByteFile ------------------------------
(***************************************************************************)
(* What the callers of fat_file_* rely on: each file is a sequence of      *)
(* bytes, each handle a position in one.  A call on one file leaves the    *)
(* others alone.  A file on which a call met an error, or which was opened *)
(* twice at a time, is spoilt: nothing is promised of it (its content is   *)
(* taken to be empty) until it is opened again by itself.  What a close    *)
(* has covered survives power loss.                                        *)
(***************************************************************************)
EXTENDS Integers, Sequences

CONSTANTS Files, Handles, Bytes, Texts, Counts, Seeks

VARIABLES
  content,  \* the bytes of each file
  at,       \* the handles: the file and the position, or NoPos
  spoilt,   \* the files of which nothing is promised
  unsaved,  \* the files with changes that may not survive
  got       \* the bytes the last call read, if it was a read

None == "none"
NoBytes == <<-1>>
NoPos == [file |-> None, pos |-> 0]

Init ==
  /\ content = [f \in Files |-> <<>>]
  /\ at = [h \in Handles |-> NoPos]
  /\ spoilt = {} /\ unsaved = {}
  /\ got = NoBytes

OpenOn(f) == {h \in Handles : at[h].file = f}
Lesser(m, n) == IF m < n THEN m ELSE n
Greater(m, n) == IF m < n THEN n ELSE m

(* new is old with s at position p.  Bytes between the old end and p may   *)
(* be anything.                                                            *)
Overwritten(old, new, p, s) ==
  /\ Len(new) = Greater(p + Len(s), Len(old))
  /\ \A i \in 1 .. Len(new) :
       CASE i > p /\ i <= p + Len(s) -> new[i] = s[i - p]
         [] ~(i > p /\ i <= p + Len(s)) /\ i <= Len(old) -> new[i] = old[i]
         [] OTHER -> new[i] \in Bytes

-----------------------------------------------------------------------------
(* Opening starts with what is there or with nothing, at the start or at   *)
(* the end.  A file that is open already is spoilt by it.                  *)
Open(h, f) ==
  /\ got' = NoBytes
  /\ at[h] = NoPos /\ at'[h].file = f
  /\ \/ /\ OpenOn(f) # {}
        /\ spoilt' = spoilt \cup {f}
        /\ content' = [content EXCEPT ![f] = <<>>]
     \/ /\ OpenOn(f) = {}
        /\ spoilt' = spoilt \ {f}
        /\ at'[h].pos \in {0, Len(content'[f])}
        /\ f \in spoilt \/ content'[f] \in {content[f], <<>>}

(* Reading returns the bytes at the position, up to the end. *)
Read(h, f) ==
  \E n \in Counts :
    LET p == at[h].pos
        there == SubSeq(content[f], p + 1, Lesser(p + n, Len(content[f])))
    IN  /\ got' = there
        /\ at'[h] = [file |-> f, pos |-> p + Len(there)]
        /\ UNCHANGED <<content, spoilt>>

Write(h, f) ==
  \E s \in Texts :
    /\ got' = NoBytes
    /\ at'[h] = [file |-> f, pos |-> at[h].pos + Len(s)]
    /\ Overwritten(content[f], content'[f], at[h].pos, s)
    /\ UNCHANGED spoilt

(* Seeking moves the position by k[1], from where k[2] says. *)
Seek(h, f) ==
  \E k \in Seeks :
    LET from == CASE k[2] = "START" -> 0
                  [] k[2] = "CURR" -> at[h].pos
                  [] k[2] = "END" -> Len(content[f])
    IN  /\ got' = NoBytes
        /\ at'[h] = [file |-> f, pos |-> k[1] + from]
        /\ UNCHANGED <<content, spoilt>>

Sync(h, f) ==
  /\ got' = NoBytes
  /\ at'[h] = at[h]
  /\ f \notin unsaved'
  /\ UNCHANGED <<content, spoilt>>

Close(h, f) ==
  /\ got' = NoBytes
  /\ at'[h] = NoPos
  /\ f \notin unsaved'
  /\ UNCHANGED <<content, spoilt>>

(* A call on a spoilt file, or one that spoils it. *)
Spoil(h, f) == spoilt' = spoilt \cup {f} /\ content' = [content EXCEPT ![f] = <<>>]

(* A call through one handle leaves the other handles and the other files  *)
(* alone.                                                                  *)
Call(h, f) ==
  /\ unsaved' \subseteq unsaved \cup {f}
  /\ \/ Open(h, f)
     \/ at[h].file = f /\ Spoil(h, f)
     \/ at[h].file = f /\ f \notin spoilt
          /\ (Read(h, f) \/ Write(h, f) \/ Seek(h, f) \/ Sync(h, f) \/ Close(h, f))
  /\ \A g \in Handles \ {h} : at'[g] = at[g]
  /\ \A g \in Files \ {f} : content'[g] = content[g]

(* A call that is refused, or an open that fails; the new file may have    *)
(* been made.                                                              *)
Refuse ==
  /\ got' = NoBytes
  /\ \E f \in Files : unsaved' \subseteq unsaved \cup {f}
  /\ UNCHANGED <<content, at, spoilt>>

(* What was not saved may be lost, or half there. *)
PowerLoss ==
  /\ at' = [h \in Handles |-> NoPos]
  /\ spoilt' = spoilt \cup unsaved /\ unsaved' = {}
  /\ content' = [f \in Files |-> IF f \in spoilt' THEN <<>> ELSE content[f]]
  /\ got' = NoBytes

Next == (\E h \in Handles, f \in Files : Call(h, f)) \/ Refuse \/ PowerLoss

Spec == Init /\ [][Next]_<<content, at, spoilt, unsaved, got>>
=============================================================================
