----------------------------- MODULE FileTools -----------------------------
(***************************************************************************)
(* The tools that download attachments (internal/tools/audio.go, image.go, *)
(* transcribe.go, tone.go, document.go): every call streams its files into *)
(* the shared temp directory under a name made of the tool's prefix and    *)
(* the file, works on them, and removes some and hands out the paths of    *)
(* others. Calls run side by side and may want the same files.             *)
(***************************************************************************)
EXTENDS Naturals, FiniteSets

CONSTANTS
    FileCall,       \* calls that may run at once
    Attachment,     \* files in Slack, by ID
    FileNames,      \* their names: several files may share one
    FileTool,       \* the tools in use (bounds the model)
    NameOf(_),      \* the name of an attachment
    MaxFileCalls    \* bound: calls made

FileTools == {"download_audio", "transcribe_audio", "analyze_tone",
              "view_image", "read_document", "keep_file"}

ASSUME FileToolsAssumption ==
    /\ FileTool \subseteq FileTools /\ MaxFileCalls \in Nat
    /\ \A a \in Attachment : NameOf(a) \in FileNames

TempPrefix(tool) ==
    CASE tool \in {"download_audio", "transcribe_audio"} -> "slk-audio"
      [] tool = "analyze_tone" -> "slk-tone"
      [] tool = "view_image" -> "slk-image"
      [] tool \in {"read_document", "keep_file"} -> "slk-doc"

TempPrefixes == {"slk-audio", "slk-tone", "slk-image", "slk-doc"}

\* What a tool may do with a file it has: hand out its path, leaving it, or take
\* what is in it and remove it. Transcription that fails and pictures or PDFs that
\* cannot be inlined leave the file; tone analysis removes it either way.
Endings(tool) ==
    CASE tool \in {"download_audio", "keep_file"} -> {"hand out"}
      [] OTHER -> {"hand out", "take"}

\* confinedTempPath: prefix, file ID and file name.
MutantPathByName(tool, a) == <<TempPrefix(tool), NameOf(a)>>
TempPath(tool, a) == <<TempPrefix(tool), a, NameOf(a)>>

VARIABLES
    disk,       \* the temp directory: path -> who truncated the file last, and what is in it
    toolOf,     \* per call: the tool, or "none"
    filesLeft,     \* files it still has to download
    open,       \* the file it is downloading, as a set
    token,      \* the token it downloads with: "primary" or "user"
    saved,      \* files it has downloaded
    handed,     \* history: the paths given out to a client: whose they are, and if shared since
    taken,      \* history: what a tool read from a file nobody else was using
    disturbed,  \* history: files another call has opened or removed meanwhile
    spoiled,    \* history: some call has failed half-way
    fileCalls   \* bound

fileVars == <<disk, toolOf, filesLeft, open, token, saved, handed, taken, disturbed, spoiled, fileCalls>>

Paths == {TempPath(t, a) : t \in FileTool, a \in Attachment}
Bodies == {"part", "refusal", "sign-in", "file"}

Busy(c) == toolOf[c] # "none"
At(p) == IF p \in DOMAIN disk THEN disk[p] ELSE [by |-> "nobody", body |-> "gone"]
Put(p, c, body) == [q \in DOMAIN disk \cup {p} |-> IF q = p THEN [by |-> c, body |-> body] ELSE disk[q]]
Without(p) == [q \in DOMAIN disk \ {p} |-> disk[q]]

\* The attachment under the prefix is also in the hands of call c, or was given out.
SameFile(c, d, a) == TempPrefix(toolOf[c]) = TempPrefix(toolOf[d]) /\ a \in saved[d] \cup open[d]
Disturb(c, a) ==
    /\ disturbed' = [d \in FileCall |->
         disturbed[d] \cup (IF d # c /\ Busy(d) /\ SameFile(c, d, a) THEN {a} ELSE {})]
    /\ handed' = {[h EXCEPT !.shared = @ \/ (h.prefix = TempPrefix(toolOf[c]) /\ h.file = a)] : h \in handed}

FileInit ==
    /\ disk = [p \in {} |-> [by |-> "nobody", body |-> "gone"]]
    /\ toolOf = [c \in FileCall |-> "none"] /\ filesLeft = [c \in FileCall |-> {}]
    /\ open = [c \in FileCall |-> {}] /\ token = [c \in FileCall |-> "primary"]
    /\ saved = [c \in FileCall |-> {}] /\ handed = {} /\ taken = {}
    /\ disturbed = [c \in FileCall |-> {}] /\ spoiled = FALSE /\ fileCalls = 0

\* fetchFiles has found the attachments the tool accepts.
StartFiles(c, tool, files) ==
    /\ ~ Busy(c) /\ fileCalls < MaxFileCalls /\ files # {}
    /\ fileCalls' = fileCalls + 1
    /\ toolOf' = [toolOf EXCEPT ![c] = tool] /\ filesLeft' = [filesLeft EXCEPT ![c] = files]
    /\ saved' = [saved EXCEPT ![c] = {}] /\ disturbed' = [disturbed EXCEPT ![c] = {}]
    /\ UNCHANGED <<disk, open, token, handed, taken, spoiled>>

\* os.OpenFile with O_CREATE and O_TRUNC.
OpenTemp(c, a) ==
    /\ Busy(c) /\ open[c] = {} /\ a \in filesLeft[c]
    /\ open' = [open EXCEPT ![c] = {a}] /\ filesLeft' = [filesLeft EXCEPT ![c] = @ \ {a}]
    /\ token' = [token EXCEPT ![c] = "primary"]
    /\ disk' = Put(TempPath(toolOf[c], a), c, "part")
    /\ Disturb(c, a)
    /\ UNCHANGED <<toolOf, saved, taken, spoiled, fileCalls>>

\* What a call writes is only there as long as no other has truncated the file.
WrittenBy(c, a, body) ==
    LET p == TempPath(toolOf[c], a)
    IN  IF At(p).by = c THEN Put(p, c, body) ELSE disk

\* The primary token is refused, perhaps with a body: Truncate and Seek, and again
\* with the user token, when there is one.
RefusedOnce(c, a) ==
    /\ open[c] = {a} /\ token[c] = "primary"
    /\ token' = [token EXCEPT ![c] = "user"]
    /\ LET p == TempPath(toolOf[c], a)
       IN  disk' = IF p \in DOMAIN disk THEN Put(p, c, "part") ELSE disk
    /\ Disturb(c, a)
    /\ UNCHANGED <<toolOf, filesLeft, open, saved, taken, spoiled, fileCalls>>

Downloaded(c, a) ==
    /\ open[c] = {a}
    /\ disk' = WrittenBy(c, a, "file")
    /\ open' = [open EXCEPT ![c] = {}] /\ saved' = [saved EXCEPT ![c] = @ \cup {a}]
    /\ UNCHANGED <<toolOf, filesLeft, token, handed, taken, disturbed, spoiled, fileCalls>>

RemoveTemp(p) == Without(p)

\* Refused for good, or Slack's sign-in page instead of the file: the file is
\* removed and the call ends with an error, whatever it had saved before.
DownloadFails(c, a) ==
    /\ open[c] = {a}
    /\ disk' = RemoveTemp(TempPath(toolOf[c], a))
    /\ Disturb(c, a)
    /\ open' = [open EXCEPT ![c] = {}] /\ filesLeft' = [filesLeft EXCEPT ![c] = {}]
    /\ toolOf' = [toolOf EXCEPT ![c] = "none"] /\ saved' = [saved EXCEPT ![c] = {}]
    /\ spoiled' = (spoiled \/ saved[c] # {})
    /\ UNCHANGED <<token, taken, fileCalls>>

Working(c, a) == Busy(c) /\ filesLeft[c] = {} /\ open[c] = {} /\ a \in saved[c]

HandOut(c, a) ==
    /\ Working(c, a) /\ "hand out" \in Endings(toolOf[c])
    /\ saved' = [saved EXCEPT ![c] = @ \ {a}]
    /\ handed' = handed \cup {[file |-> a, prefix |-> TempPrefix(toolOf[c]), path |-> TempPath(toolOf[c], a),
                               shared |-> a \in disturbed[c]]}
    /\ UNCHANGED <<disk, toolOf, filesLeft, open, token, taken, disturbed, spoiled, fileCalls>>

\* The file is read, if it is still there, and removed.
TakeFile(c, a) ==
    /\ Working(c, a) /\ "take" \in Endings(toolOf[c])
    /\ LET p == TempPath(toolOf[c], a)
       IN  /\ taken' = IF a \in disturbed[c] THEN taken
                       ELSE taken \cup {[file |-> a, body |-> At(p).body]}
           /\ disk' = Without(p)
    /\ Disturb(c, a)
    /\ saved' = [saved EXCEPT ![c] = @ \ {a}]
    /\ UNCHANGED <<toolOf, filesLeft, open, token, spoiled, fileCalls>>

ReturnFiles(c) ==
    /\ Busy(c) /\ filesLeft[c] = {} /\ open[c] = {} /\ saved[c] = {}
    /\ toolOf' = [toolOf EXCEPT ![c] = "none"]
    /\ UNCHANGED <<disk, filesLeft, open, token, saved, handed, taken, disturbed, spoiled, fileCalls>>

FileNext ==
    \E c \in FileCall :
        \/ \E tool \in FileTool, files \in SUBSET Attachment : StartFiles(c, tool, files)
        \/ \E a \in Attachment :
            \/ OpenTemp(c, a) \/ RefusedOnce(c, a) \/ Downloaded(c, a) \/ DownloadFails(c, a)
            \/ HandOut(c, a) \/ TakeFile(c, a)
        \/ ReturnFiles(c)

FileSpec == FileInit /\ [][FileNext]_fileVars
----------------------------------------------------------------------------
FileTypeOK ==
    /\ DOMAIN disk \subseteq Paths
    /\ \A p \in DOMAIN disk : disk[p].by \in FileCall /\ disk[p].body \in Bodies
    /\ toolOf \in [FileCall -> FileTool \cup {"none"}]
    /\ filesLeft \in [FileCall -> SUBSET Attachment] /\ saved \in [FileCall -> SUBSET Attachment]
    /\ open \in [FileCall -> SUBSET Attachment] /\ token \in [FileCall -> {"primary", "user"}]
    /\ handed \subseteq [file : Attachment, prefix : TempPrefixes, path : Paths, shared : BOOLEAN]
    /\ taken \subseteq [file : Attachment, body : Bodies \cup {"gone"}]
    /\ disturbed \in [FileCall -> SUBSET Attachment] /\ spoiled \in BOOLEAN /\ fileCalls \in Nat

\* A path that was given out holds the whole file until another call of a tool with
\* the same prefix takes up the same attachment, and a tool that has its file to
\* itself reads all of it: other files and other tools never get in the way.
OnlyTheSameFileDisturbs ==
    /\ \A h \in handed : ~ h.shared => At(h.path).body = "file"
    /\ \A t \in taken : t.body = "file"

\* Once all calls have returned, every file in the temp directory is one a client was
\* told of, unless some call failed after it had saved a file.
NoUntoldFile ==
    (~ spoiled /\ \A c \in FileCall : ~ Busy(c)) =>
        DOMAIN disk \subseteq {h.path : h \in handed}

\* What a tool saves is the caller's: whole while it is the latest of its kind,
\* and never left behind unnamed (the temp files of the attachment tools).
FilesAreAccountedFor == OnlyTheSameFileDisturbs /\ NoUntoldFile
=============================================================================
