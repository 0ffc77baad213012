----------------------------- MODULE FileStream -----------------------------
(***************************************************************************)
(* A phase implementation as a stream of text: the chunks of one or more   *)
(* attempts run through the parser of shell-like blocks (SCOFFormat),      *)
(* every block that closes becomes a file, perhaps with a fixer at work on *)
(* it, and when the inference has returned the files pass the pre-deploy   *)
(* safety gate and are saved.                                              *)
(*                                                                         *)
(* Text is a sequence of lines; a chunk ends after a line or within one.   *)
(* A line is its kind and what tells it from others:                       *)
(*   "create", "patch"  cat > f << 'EOF' and cat << 'EOF' | patch f        *)
(*   "mark", "like"     EOF alone, and a line that begins with it          *)
(*   "text", "blank", "install"   anything else, nothing, bun install ...  *)
(***************************************************************************)
EXTENDS Naturals, FiniteSets, SequencesExt

CONSTANTS
  Paths,         \* the paths a response may name
  NoFile,        \* no file
  Existing,      \* the files that have contents before the phase
  DontTouch,     \* the files the template protects
  Texts,         \* the texts a model may answer with: sequences of lines
  StreamRetryLimit  \* executeInference's retryLimit

Commands == {"create", "patch"}

Lines == (Commands \X Paths) \union ({"mark", "like", "text", "blank", "install"} \X Nat)

\* What a file may contain: lines, or what it was before the phase, perhaps patched.
Contents ==
  Seq(Lines \union ({"original"} \X Paths) \union ({"patched"} \X Seq(Lines)))

ASSUME PathsAssumption ==
  /\ NoFile \notin Paths /\ NoFile \notin Contents
  /\ Existing \subseteq Paths /\ DontTouch \subseteq Paths
ASSUME TextsAssumption == Texts \subseteq Seq(Lines) /\ StreamRetryLimit \in Nat \ {0}

VARIABLES
  stage,         \* "streaming", "fixing", "saved" or "failed"
  streamAttempt, \* the attempt under way
  wire,          \* what the provider has yet to deliver of the response
  part,          \* how much of wire's first line has come: "none", "some", or
                 \* "marker" when that was the end marker and has been processed
  carry,         \* a broken attempt left an incomplete line behind
  file, mode,    \* the block that is open
  buffer,        \* its lines so far
  between,       \* install lines seen since the last other line outside blocks
  installs,      \* extractedInstallCommands
  closedFiles,   \* the files whose last block is closed
  completed,     \* completedFiles: the contents of each file, NoFile for none
  entries,       \* fixedFilePromises, in the order in which the blocks closed
  flagged,       \* the entries the safety gate sent to its fixer
  saved,         \* the entry each file was saved from, 0 for none
  raws,          \* history: the blocks that were closed, as they were written
  delivered,     \* history: the lines processed, all attempts
  broken,        \* history: the attempts that broke inside a block or a line
  bitten         \* history: the lines cut right after a leading marker

stream     == <<streamAttempt, wire, part, carry>>
parser     == <<file, mode, buffer, between, installs, closedFiles, completed>>
history    == <<raws, delivered, broken, bitten>>
streamVars == <<stage, stream, parser, entries, flagged, saved, history>>

----------------------------------------------------------------------------
(* The contents of files *)

Original(f) == IF f \in Existing THEN << <<"original", f>> >> ELSE <<>>

\* applyDiff: an empty patch changes nothing.
Patched(contents, patch) ==
  IF patch = <<>> THEN contents ELSE Append(contents, <<"patched", patch>>)

\* finalizeCurrentFile: what a patch becomes, given what an earlier block of the
\* response made of the file: the patched contents, or the patch as it is.
Finalized(f, patch, applies) ==
  IF completed[f] \in {NoFile, <<>>} \/ ~applies
    THEN [contents |-> patch, isPatch |-> TRUE]
    ELSE [contents |-> Patched(completed[f], patch), isPatch |-> FALSE]

\* processGeneratedFileContents for a patch: it is applied to the contents from
\* before the phase, which stay when it does not apply.  Contents that are no patch
\* any more are taken for one hunk (udiff.ts:761): found or not, it leaves what was
\* there but for white space, provided none of its lines begins like a change.
Processed(f, final, applies) ==
  IF final.isPatch /\ applies THEN Patched(Original(f), final.contents) ELSE Original(f)

----------------------------------------------------------------------------
StreamInit ==
  /\ stage = "streaming" /\ streamAttempt = 1 /\ wire \in Texts
  /\ part = "none" /\ carry = FALSE
  /\ file = NoFile /\ mode = "idle" /\ buffer = <<>>
  /\ between = {} /\ installs = {} /\ closedFiles = {}
  /\ completed = [f \in Paths |-> NoFile]
  /\ entries = <<>> /\ flagged = {} /\ saved = [f \in Paths |-> 0]
  /\ raws = <<>> /\ delivered = <<>> /\ broken = 0 /\ bitten = 0

\* Mutant: a file that is opened again stays in closedFiles.
OpenMutant(line) ==
  /\ mode' = line[1] /\ file' = line[2] /\ buffer' = <<>>
  /\ installs' = installs \union between /\ between' = {}
  /\ UNCHANGED <<closedFiles, completed, entries, raws>>

\* handleCommand
Open(line) ==
  /\ mode' = line[1] /\ file' = line[2] /\ buffer' = <<>>
  /\ installs' = installs \union between /\ between' = {}
  /\ closedFiles' = closedFiles \ {line[2]}
  /\ UNCHANGED <<completed, entries, raws>>

\* finalizeCurrentFile and the callback it makes.
Close ==
  \E applied, reapplied, fixing \in BOOLEAN :
    LET final    == Finalized(file, buffer, applied)
        contents == IF mode = "create" THEN buffer ELSE Processed(file, final, reapplied)
    IN  /\ completed' = [completed EXCEPT ![file] =
                           IF file \in closedFiles THEN final.contents ELSE contents]
        /\ entries' = IF file \in closedFiles THEN entries
                      ELSE Append(entries, [file |-> file, contents |-> contents,
                                            fixing |-> fixing])
        /\ closedFiles' = closedFiles \union {file}
        /\ raws' = Append(raws, [file |-> file, mode |-> mode, lines |-> buffer])
        /\ file' = NoFile /\ mode' = "idle" /\ buffer' = <<>>
        /\ UNCHANGED <<between, installs>>

\* addContentLine: blank lines are left out.
Content(line) ==
  /\ buffer' = IF line[1] = "blank" THEN buffer ELSE Append(buffer, line)
  /\ UNCHANGED <<file, mode, between, installs, closedFiles, completed, entries, raws>>

\* Text between blocks: the install commands in it are taken when the next line
\* comes that is neither blank nor a comment.
Between(line) ==
  /\ IF line[1] = "blank" THEN UNCHANGED <<between, installs>>
     ELSE /\ installs' = installs \union between
          /\ between' = IF line[1] = "install" THEN {line[2]} ELSE {}
  /\ UNCHANGED <<file, mode, buffer, closedFiles, completed, entries, raws>>

\* processLine: inside a block only the marker matters.
ProcessLine(line) ==
  \/ file # NoFile /\ line[1] = "mark"      /\ Close
  \/ file # NoFile /\ line[1] # "mark"      /\ Content(line)
  \/ file = NoFile /\ line[1] \in Commands /\ Open(line)
  \/ file = NoFile /\ line[1] \notin Commands /\ Between(line)

\* Mutant: the partial line is forgotten, the rest of it is a line of its own.
ReceivedMutant(line) ==
  IF part # "none" THEN IF line[1] = "mark" THEN <<"blank", 0>> ELSE <<"text", 0>> ELSE line

\* What the parser makes of a line whose beginning it has already taken for the
\* marker, or of one that is appended to what a broken attempt left behind: in a
\* block that is one more line of text; outside one the command is still found.
Received(line) ==
  IF part = "marker" THEN IF line[1] = "mark" THEN <<"blank", 0>> ELSE <<"text", 0>>
  ELSE IF carry /\ (file # NoFile \/ line[1] \notin Commands) THEN <<"text", 0>>
  ELSE line

\* A chunk completes a line.
LineArrives ==
  /\ stage = "streaming" /\ wire # <<>>
  /\ ProcessLine(Received(Head(wire)))
  /\ wire' = Tail(wire) /\ part' = "none" /\ carry' = FALSE
  /\ delivered' = IF part = "marker" THEN delivered ELSE Append(delivered, Head(wire))
  /\ UNCHANGED <<stage, streamAttempt, flagged, saved, broken, bitten>>

\* A chunk ends within a line, which waits in partialLineBuffer.
CutLine ==
  /\ stage = "streaming" /\ wire # <<>> /\ part = "none"
  /\ Head(wire)[1] # "blank"
  /\ part' = "some"
  /\ UNCHANGED <<stage, streamAttempt, wire, carry, parser, entries, flagged, saved, history>>

\* What has come of the line is the marker: in an open block it is processed.
CutAtMarker ==
  /\ stage = "streaming" /\ wire # <<>> /\ part # "marker" /\ ~carry
  /\ Head(wire)[1] \in {"mark", "like"} /\ file # NoFile
  /\ Close /\ part' = "marker" /\ delivered' = Append(delivered, <<"mark", 0>>)
  /\ bitten' = IF Head(wire)[1] = "like" THEN bitten + 1 ELSE bitten
  /\ UNCHANGED <<stage, streamAttempt, wire, carry, flagged, saved, broken>>

\* The stream ends, complete or at the token limit: what is in the buffers is
\* left there.
StreamEnds ==
  /\ stage = "streaming"
  /\ stage' = "fixing"
  /\ UNCHANGED <<stream, parser, entries, flagged, saved, history>>

\* The request or its stream fails: the next attempt's text goes to the same
\* parser; after the last one what has been closed is taken as the result.
\* (A stream that breaks within a command line is left out.)
AttemptFails ==
  /\ stage = "streaming"
  /\ part = "some" => Head(wire)[1] \notin Commands
  /\ broken' = IF file # NoFile \/ part = "some" THEN broken + 1 ELSE broken
  /\ IF streamAttempt < StreamRetryLimit
       THEN /\ streamAttempt' = streamAttempt + 1 /\ wire' \in Texts
            /\ part' = "none" /\ carry' = (carry \/ part = "some")
            /\ UNCHANGED stage
       ELSE stage' = "fixing" /\ UNCHANGED stream
  /\ UNCHANGED <<parser, entries, flagged, saved, raws, delivered, bitten>>

\* Cancelled, or refused by the rate limit: nothing of the phase is saved.
Cancelled ==
  /\ stage = "streaming"
  /\ stage' = "failed"
  /\ UNCHANGED <<stream, parser, entries, flagged, saved, history>>

\* A realtime fixer is done with a file, fixed or as it was.
FixerDone(i) ==
  /\ entries[i].fixing
  /\ entries' = [entries EXCEPT ![i].fixing = FALSE]
  /\ UNCHANGED <<stage, stream, parser, flagged, saved, history>>

----------------------------------------------------------------------------
(* Saving *)

VersionsOf(f) == {i \in DOMAIN entries : entries[i].file = f}

\* Mutant: the first version wins.
SavedEntryMutant(f, sent) ==
  LET mine == VersionsOf(f) IN IF mine = {} THEN 0 ELSE Min(mine)

\* runPreDeploySafetyGate replaces every version of a file by the last that its
\* fixer returned; recordFileChanges keeps the last version of the list.
SavedEntry(f, sent) ==
  LET mine == VersionsOf(f)
  IN  IF mine = {} \/ f \in DontTouch THEN 0
      ELSE IF mine \intersect sent = {} THEN Max(mine)
      ELSE Max(mine \intersect sent)

\* implementPhase, once every fixer has settled.
SaveGeneratedFiles ==
  /\ stage = "fixing"
  /\ \A i \in DOMAIN entries : ~entries[i].fixing
  /\ \E sent \in SUBSET {i \in DOMAIN entries : entries[i].file \notin DontTouch} :
       /\ flagged' = sent
       /\ saved' = [f \in Paths |-> SavedEntry(f, sent)]
  /\ stage' = "saved"
  /\ UNCHANGED <<stream, parser, entries, history>>

Done == stage \in {"saved", "failed"} /\ UNCHANGED streamVars

StreamNext ==
  \/ LineArrives \/ CutLine \/ CutAtMarker
  \/ StreamEnds \/ AttemptFails \/ Cancelled
  \/ \E i \in DOMAIN entries : FixerDone(i)
  \/ SaveGeneratedFiles
  \/ Done

StreamSpec == StreamInit /\ [][StreamNext]_streamVars

----------------------------------------------------------------------------
(* Properties *)

\* What a response says when nothing cuts it: outside[i] - line i is outside a
\* block; a block runs from its command to the first marker after it.
Outside(text) ==
  LET outside[i \in 1 .. Len(text) + 1] ==
        IF i = 1 THEN TRUE
        ELSE IF outside[i - 1] THEN text[i - 1][1] \notin Commands
                               ELSE text[i - 1][1] = "mark"
  IN  outside

\* The lines that end a block, and the one that starts the block of line e.
Ends(text) == {e \in DOMAIN text : ~Outside(text)[e] /\ Outside(text)[e + 1]}

StartOf(text, e) == Max({i \in DOMAIN text : i < e /\ Outside(text)[i]})

\* A set of numbers in ascending order.
Listed(S) ==
  [k \in 1 .. Cardinality(S) |->
     CHOOSE n \in S : Cardinality({m \in S : m <= n}) = k]

\* The lines of a text behind line s and before line e that are not blank.
LinesBetween(text, s, e) ==
  LET kept == Listed({i \in DOMAIN text : s < i /\ i < e /\ text[i][1] # "blank"})
  IN  [k \in DOMAIN kept |-> text[kept[k]]]

BlockAt(text, e) ==
  LET s == StartOf(text, e)
  IN  [file |-> text[s][2], mode |-> text[s][1], lines |-> LinesBetween(text, s, e)]

BlocksOf(text) ==
  LET ends == Listed(Ends(text)) IN [k \in DOMAIN ends |-> BlockAt(text, ends[k])]

WholeBlocks == UNION {{BlockAt(r, e) : e \in Ends(r)} : r \in Texts}

\* The install commands that another line outside blocks comes after.
LinesOutside(text) == {i \in DOMAIN text : Outside(text)[i] /\ text[i][1] # "blank"}

InstallsOf(text) ==
  {text[i][2] : i \in {j \in LinesOutside(text) :
                         text[j][1] = "install" /\ \E k \in LinesOutside(text) : j < k}}

StreamTypeOK ==
  /\ stage \in {"streaming", "fixing", "saved", "failed"}
  /\ streamAttempt \in 1 .. StreamRetryLimit
  /\ part \in {"none", "some", "marker"} /\ carry \in BOOLEAN
  /\ part # "none" => wire # <<>>
  /\ file \in Paths \union {NoFile}
  /\ mode \in Commands \union {"idle"}
  /\ (mode = "idle") = (file = NoFile)
  /\ file = NoFile => buffer = <<>>
  /\ closedFiles \subseteq Paths /\ file \notin closedFiles
  /\ \A f \in closedFiles : completed[f] # NoFile
  /\ Len(entries) = Len(raws)
  /\ \A i \in DOMAIN entries : entries[i].file = raws[i].file /\ entries[i].fixing \in BOOLEAN
  /\ flagged \subseteq DOMAIN entries
  /\ \A f \in Paths : saved[f] \in 0 .. Len(entries)

\* Wherever the chunks end, the blocks that close are the blocks of the text in
\* their order, and the install commands are its install commands - unless an
\* attempt broke inside a block or a line (a retry goes on in the parser state
\* its predecessor left), or a line that begins with the marker was cut right
\* behind it.  The first damages one block; the second the block it ends, and a
\* command in what remains of it may make a block of its own.  Every other block
\* that became a file is one that a single response wrote.
ChunksInvisible ==
  /\ broken = 0 /\ bitten = 0 =>
       /\ raws = BlocksOf(delivered)
       /\ installs = InstallsOf(delivered)
  /\ Cardinality({k \in DOMAIN raws : raws[k] \notin WholeBlocks}) <= broken + 2 * bitten

\* A file that was created is its block; one that was patched is what it was
\* before the phase, with the patch once or not at all, never the patch itself.
PatchedOnce(i) ==
  LET old == Original(entries[i].file)
  IN  IF raws[i].mode = "create" THEN entries[i].contents = raws[i].lines
      ELSE entries[i].contents \in {old, Patched(old, raws[i].lines)}

\* What is saved is explained by the blocks: a protected file and one without a
\* block stay as they are, and every other file is saved from its last block -
\* or from the last of those the safety gate had fixed, when the last block
\* itself needed no fix - whatever order the fixers finished in; and from a
\* patch a file gets that patch at most once, on what it was before the phase.
SavedExplained ==
  stage = "saved" =>
    \A f \in Paths :
      LET mine == VersionsOf(f)
      IN  IF f \in DontTouch \/ mine = {} THEN saved[f] = 0
          ELSE /\ saved[f] \in mine /\ PatchedOnce(saved[f])
               /\ \/ saved[f] = Max(mine)
                  \/ saved[f] \in flagged /\ Max(mine) \notin flagged
=============================================================================
