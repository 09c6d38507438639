----------------------------- MODULE ProfileStore ------------------------------
(***************************************************************************)
(* The profile directory (daemon/src/session/store.rs, profiles.rs).       *)
(*                                                                         *)
(* Every request runs on a task of its own, so what two requests do to the *)
(* directory interleaves between system calls.  A file remembers the task  *)
(* that created it, as its inode would.  Names and identifiers are         *)
(* sequences of atoms, like the lines of a profile.                        *)
(***************************************************************************)
EXTENDS OvpnProfile

CONSTANTS
    Tasks,          \* The tasks of the requests of a behaviour
    MaxSuffix,      \* allocate_id tries this many suffixes
    MaxBase,        \* derive_id cuts a name to this
    MaxId           \* path_for refuses a longer one

VARIABLES
    files,      \* The directory: from identifiers to [by, text]
    tasks       \* Each request, with how far its handler is

store == <<files, tasks>>

NoRequest == [op |-> "none", id |-> <<>>, name |-> <<>>, text |-> <<>>]
Request(op, id) == [NoRequest EXCEPT !.op = op, !.id = id]
ImportRequest(name, text) == [NoRequest EXCEPT !.op = "import", !.name = name, !.text = text]
Started(r) == [op |-> r.op, id |-> r.id, name |-> r.name, text |-> r.text, at |-> "new", n |-> 0]

Step(t, where) == tasks' = [tasks EXCEPT ![t].at = where]
Answered == {"ok", "NotFound", "ProfileInvalid", "AlreadyConnected", "Busy", "NotConnected",
             "Internal", "AuthFailed"}

\* derive_id: lower case, one dash for a run of anything else, none at the ends.
DeriveId(name) ==
    LET dash(s) == [i \in DOMAIN s |-> IF s[i] \in Marks THEN "-" ELSE s[i]]
        ink == {i \in DOMAIN name : dash(name)[i] # "-"}
        trimmed == IF ink = {} THEN <<>> ELSE SubSeq(Lower(dash(name)), Min(ink), Max(ink))
        collapsed == FoldLeft(LAMBDA out, c : IF c = "-" /\ out # <<>> /\ Last(out) = "-" THEN out
                                              ELSE Append(out, c), <<>>, trimmed)
    IN IF collapsed = <<>> THEN <<"profile">>
       ELSE SubSeq(collapsed, 1, IF Len(collapsed) < MaxBase THEN Len(collapsed) ELSE MaxBase)

Candidate(name, n) == DeriveId(name) \o IF n = 0 THEN <<>> ELSE <<"-", ToString(n)>>

\* path_for
PathFor(id) == Len(id) \in 1..MaxId /\ \A i \in DOMAIN id : id[i] \notin Marks

Exists(id) == id \in DOMAIN files

\* import, up to its first system call: a text that is too large is an error of
\* the store and not of the profile; ensure_dir may fail.
ImportStart(t) ==
    LET text == tasks[t].text
    IN /\ tasks[t].op = "import" /\ tasks[t].at = "new" /\ UNCHANGED files
       /\ CASE SizeOf(text) > MaxFileBytes -> Step(t, "Internal")
            [] SizeOf(text) <= MaxFileBytes /\ ~Valid(text) -> Step(t, "ProfileInvalid")
            [] OTHER -> Step(t, "allocating") \/ Step(t, "Internal")

\* allocate_id looks at one candidate after the other.
AllocateId(t) ==
    LET id == Candidate(tasks[t].name, tasks[t].n)
    IN /\ tasks[t].at = "allocating" /\ UNCHANGED files
       /\ CASE tasks[t].n >= MaxSuffix -> Step(t, "Internal")
            [] tasks[t].n < MaxSuffix /\ ~PathFor(id) -> Step(t, "NotFound")
            [] tasks[t].n < MaxSuffix /\ PathFor(id) /\ Exists(id) ->
                 tasks' = [tasks EXCEPT ![t].n = @ + 1]
            [] OTHER -> tasks' = [tasks EXCEPT ![t].at = "creating", ![t].id = id]

Put(id, by, text) == [i \in DOMAIN files \cup {id} |-> IF i = id THEN [by |-> by, text |-> text]
                                                       ELSE files[i]]

\* Mutant: the file is opened and truncated when it exists.
WritePrivateTruncates(t) ==
    /\ tasks[t].at = "creating" /\ files' = Put(tasks[t].id, t, <<>>) /\ Step(t, "writing")

\* write_private: the file must not exist.
WritePrivate(t) ==
    /\ tasks[t].at = "creating"
    /\ IF Exists(tasks[t].id) THEN Step(t, "Internal") /\ UNCHANGED files
       ELSE files' = Put(tasks[t].id, t, <<>>) /\ Step(t, "writing")

Stored(t) == CanonicalConfig(ParseProfile(tasks[t].text))

\* write_all goes to the file this task created, be it unlinked since.  It may
\* be seen half done, and may fail half done.
WriteAll(t) ==
    LET r == tasks[t]
        linked == Exists(r.id) /\ files[r.id].by = t
        write(text) == files' = IF linked THEN Put(r.id, t, text) ELSE files
        half == SubSeq(Stored(t), 1, Len(Stored(t)) \div 2)
    IN /\ r.at = "writing"
       /\ \/ write(Stored(t)) /\ Step(t, "ok")
          \/ write(half) /\ (Step(t, "writing") \/ Step(t, "Internal"))

\* load and the validation of what it read: what `get` and `establish` start with.
Load(id) ==
    IF ~PathFor(id) \/ ~Exists(id) THEN "NotFound"
    ELSE IF SizeOf(files[id].text) > MaxFileBytes THEN "Internal"
    ELSE IF ~Valid(files[id].text) THEN "ProfileInvalid"
    ELSE "ok"

Get(t) ==
    /\ tasks[t].op = "get" /\ tasks[t].at = "new"
    /\ Step(t, Load(tasks[t].id)) /\ UNCHANGED files

\* list leaves out what `get` refuses; it answers whatever it found.
List(t) ==
    /\ tasks[t].op = "list" /\ tasks[t].at = "new" /\ Step(t, "ok") /\ UNCHANGED files

\* delete, behind the check of the handler.
Delete(t) ==
    LET r == tasks[t]
    IN /\ r.at = "deleting"
       /\ IF PathFor(r.id) /\ Exists(r.id)
          THEN Step(t, "ok") /\ files' = [i \in DOMAIN files \ {r.id} |-> files[i]]
          ELSE Step(t, "NotFound") /\ UNCHANGED files

\* Somebody with the rights to it edits a file (external).
Edit(id, text) ==
    /\ Exists(id) /\ files' = [files EXCEPT ![id] = [by |-> 0, text |-> text]] /\ UNCHANGED tasks

StoreStep(t) ==
    \/ ImportStart(t) \/ AllocateId(t) \/ WritePrivate(t) \/ WriteAll(t) \/ Get(t) \/ List(t)
    \/ Delete(t)

-----------------------------------------------------------------------------

\* Sizes the validator would refuse: writing a profile out may make it larger.
Fits(text) == SizeOf(text) <= MaxFileBytes /\ \A i \in DOMAIN text : Len(text[i]) <= MaxLineBytes

\* What an import has stored is valid again when it is read, and comes out the
\* same: its digest is the one the import answered with (import, get).  Writing
\* out a default port can push a profile over a size limit; that is left out.
StoredIsCanonical ==
    \A id \in DOMAIN files :
        LET t == files[id].by  again == ParseProfile(files[id].text)
        IN t # 0 /\ tasks[t].at = "ok" /\ Fits(files[id].text)
           => again.error = "" /\ CanonicalConfig(again) = Stored(t)

===============================================================================
