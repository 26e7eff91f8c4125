------------------------------- MODULE Shards -------------------------------
(***************************************************************************)
(* shards.py: the converter that splits the stacked expert tensors of a    *)
(* checkpoint into one file per expert, the format of those files, and how *)
(* they are read back.                                                     *)
(*                                                                         *)
(* A file is a sequence of cells: the magic, the header (with its length)  *)
(* and the rows of the nine arrays.  The converter may be killed between   *)
(* any two writes and be run again over what it left, with the same        *)
(* checkpoint or another one.  What a written or renamed file keeps across *)
(* a loss of power is the file system's (external) and is not modelled.    *)
(***************************************************************************)
EXTENDS Integers, SequencesExt

CONSTANTS Layers, NExperts,
          Components,    \* COMPONENTS
          Rows,          \* array name -> number of its rows
          Checkpoints,   \* what may be converted
          NFiles,        \* bound: safetensors files of a checkpoint
          MaxRuns,       \* bound: runs of the converter
          NoFile         \* no such file

Parts == <<"gate_proj", "up_proj", "down_proj">>
Arrays == {<<Parts[p], Components[c]>> : p \in DOMAIN Parts, c \in DOMAIN Components}
Experts == 0 .. NExperts - 1

VARIABLES disk,      \* [layer, expert, suffix] -> cells of the file
          pc,        \* where the converter is
          model,     \* the checkpoint it converts
          file,      \* files loaded
          staging,   \* layer -> arrays loaded and not yet flushed
          layer, expert, piece,   \* what it writes
          runs,      \* runs so far
          arrived    \* history: layers this run has seen an array of

memory == <<model, file, staging, layer, expert, piece, arrived>>
shardVars == <<disk, pc, memory, runs>>

-----------------------------------------------------------------------------
(* The format.                                                             *)

\* The order of write_shard's loops.
NamesOf(part) == [c \in 1 .. Len(Components) |-> <<part, Components[c]>>]
Names == NamesOf("gate_proj") \o NamesOf("up_proj") \o NamesOf("down_proj")

Magic == [cell |-> "magic"]
Blob(id, name) == [r \in 1 .. Rows[name] |-> [of |-> id, name |-> name, row |-> r]]

\* Fault: the offset of an entry does not count the arrays before it.
EntriesFlat == [k \in DOMAIN Names |-> [name |-> Names[k], offset |-> 0, n |-> Rows[Names[k]]]]

\* The rows before the k-th array.
Offset[k \in 1 .. Len(Names) + 1] == IF k = 1 THEN 0 ELSE Offset[k - 1] + Rows[Names[k - 1]]

Entries == [k \in DOMAIN Names |-> [name |-> Names[k], offset |-> Offset[k], n |-> Rows[Names[k]]]]

Header == [cell |-> "header", arrays |-> Entries]
Ids == [model : Checkpoints, layer : Layers, expert : Experts]
Cells == {Magic, Header} \cup [of : Ids, name : Arrays, row : Nat]

ASSUME ShardConstants ==
    /\ NExperts \in Nat \ {0} /\ NFiles \in Nat /\ MaxRuns \in Nat
    /\ Components \in Seq(Range(Components)) /\ Rows \in [Arrays -> Nat]
    /\ NoFile \notin Seq(Cells)

\* What is written, one f.write after the other.
Pieces(id) == <<<<Magic>>, <<Header>>>> \o [k \in 1 .. Len(Names) |-> Blob(id, Names[k])]

\* read_shard: gate and up are one matrix, the rows of gate first.  A file that
\* is too short or does not start with the magic raises.
ReadShard(data) ==
    LET whole == /\ Len(data) >= 2 /\ data[1] = Magic
                 /\ \A k \in DOMAIN data[2].arrays :
                       2 + data[2].arrays[k].offset + data[2].arrays[k].n <= Len(data)
        array(name) ==
            LET k == CHOOSE m \in DOMAIN data[2].arrays : data[2].arrays[m].name = name
                e == data[2].arrays[k]
            IN  SubSeq(data, 2 + e.offset + 1, 2 + e.offset + e.n)
    IN  IF ~ whole THEN [ok |-> FALSE]
        ELSE [ok |-> TRUE,
              gateup |-> [c \in Range(Components) |-> array(<<"gate_proj", c>>) \o array(<<"up_proj", c>>)],
              down |-> [c \in Range(Components) |-> array(<<"down_proj", c>>)]]

-----------------------------------------------------------------------------
(* The converter.                                                          *)

Path(l, e, suffix) == [layer |-> l, expert |-> e, suffix |-> suffix]
Paths == [layer : Layers, expert : Experts, suffix : {"bin", "tmp"}]
Idle == {"off", "done", "failed"}

ShardsInit ==
    /\ disk = [p \in Paths |-> NoFile] /\ runs = 0
    /\ pc = "off" /\ model \in Checkpoints /\ file = 0
    /\ staging = [l \in Layers |-> {}] /\ arrived = {}
    /\ layer \in Layers /\ expert = 0 /\ piece = 1

Convert(m) ==
    /\ pc \in Idle /\ runs < MaxRuns
    /\ runs' = runs + 1 /\ pc' = "load" /\ model' = m /\ file' = 0
    /\ staging' = [l \in Layers |-> {}] /\ arrived' = {}
    /\ UNCHANGED <<disk, layer, expert, piece>>

\* A file holds any arrays that no earlier one held.
LoadFile ==
    /\ pc = "load" /\ file < NFiles
    /\ file' = file + 1 /\ pc' = "flush"
    /\ \E new \in [Layers -> SUBSET Arrays] :
         /\ \A l \in Layers : new[l] \cap staging[l] = {} /\ (l \in arrived /\ staging[l] = {} => new[l] = {})
         /\ staging' = [l \in Layers |-> staging[l] \cup new[l]]
         /\ arrived' = arrived \cup {l \in Layers : new[l] # {}}
    /\ UNCHANGED <<disk, runs, model, layer, expert, piece>>

Complete(l) == staging[l] = Arrays

FlushLayer ==
    /\ pc = "flush" /\ pc' = "open"
    /\ layer' \in Layers /\ Complete(layer')
    /\ staging' = [staging EXCEPT ![layer'] = {}] /\ expert' = 0
    /\ UNCHANGED <<disk, runs, model, file, piece, arrived>>

NextFile ==
    /\ pc = "flush" /\ \A l \in Layers : ~ Complete(l)
    /\ pc' = "load"
    /\ UNCHANGED <<disk, runs, memory>>

Tmp == Path(layer, expert, "tmp")
Bin == Path(layer, expert, "bin")

\* Fault: the shard that is there is removed before the new one is written.
OpenTmpUnlink ==
    /\ pc = "open" /\ pc' = "write"
    /\ disk' = [disk EXCEPT ![Tmp] = <<>>, ![Bin] = NoFile] /\ piece' = 1
    /\ UNCHANGED <<runs, model, file, staging, layer, expert, arrived>>

OpenTmp ==
    /\ pc = "open" /\ pc' = "write"
    /\ disk' = [disk EXCEPT ![Tmp] = <<>>] /\ piece' = 1
    /\ UNCHANGED <<runs, model, file, staging, layer, expert, arrived>>

ToWrite == Pieces([model |-> model, layer |-> layer, expert |-> expert])

WritePiece ==
    /\ pc = "write" /\ piece <= Len(ToWrite)
    /\ disk' = [disk EXCEPT ![Tmp] = @ \o ToWrite[piece]]
    /\ piece' = piece + 1
    /\ UNCHANGED <<pc, runs, model, file, staging, layer, expert, arrived>>

\* Fault: the last expert of a layer is left out.
RenameOneLess ==
    /\ pc = "write" /\ piece > Len(ToWrite)
    /\ disk' = [disk EXCEPT ![Bin] = disk[Tmp], ![Tmp] = NoFile]
    /\ \/ expert + 2 < NExperts /\ expert' = expert + 1 /\ pc' = "open"
       \/ expert + 2 >= NExperts /\ UNCHANGED expert /\ pc' = "flush"
    /\ UNCHANGED <<runs, model, file, staging, layer, piece, arrived>>

\* Fault: an expert too many.
RenameOneMore ==
    /\ pc = "write" /\ piece > Len(ToWrite)
    /\ disk' = [disk EXCEPT ![Bin] = disk[Tmp], ![Tmp] = NoFile]
    /\ \/ expert < NExperts /\ expert' = expert + 1 /\ pc' = "open"
       \/ expert >= NExperts /\ UNCHANGED expert /\ pc' = "flush"
    /\ UNCHANGED <<runs, model, file, staging, layer, piece, arrived>>

Rename ==
    /\ pc = "write" /\ piece > Len(ToWrite)
    /\ disk' = [disk EXCEPT ![Bin] = disk[Tmp], ![Tmp] = NoFile]
    /\ \/ expert + 1 < NExperts /\ expert' = expert + 1 /\ pc' = "open"
       \/ expert + 1 >= NExperts /\ UNCHANGED expert /\ pc' = "flush"
    /\ UNCHANGED <<runs, model, file, staging, layer, piece, arrived>>

\* "assert not staging": incomplete layers are left.
Finish ==
    /\ pc = "load" /\ file = NFiles
    /\ pc' = IF \A l \in Layers : staging[l] = {} THEN "done" ELSE "failed"
    /\ UNCHANGED <<disk, runs, memory>>

\* The process is killed: the disk stays, memory does not.
Kill ==
    /\ pc \notin Idle /\ pc' = "off"
    /\ file' = 0 /\ staging' = [l \in Layers |-> {}] /\ arrived' = {} /\ expert' = 0 /\ piece' = 1
    /\ UNCHANGED <<disk, runs, model, layer>>

ShardsNext ==
    \/ \E m \in Checkpoints : Convert(m)
    \/ LoadFile \/ FlushLayer \/ NextFile \/ OpenTmp \/ WritePiece \/ Rename \/ Finish \/ Kill

ShardsSpec == ShardsInit /\ [][ShardsNext]_shardVars

-----------------------------------------------------------------------------
\* Types of the converter's state.
ShardsTypeOK ==
    /\ DOMAIN disk = Paths
    /\ pc \in Idle \cup {"load", "flush", "open", "write"}
    /\ file \in 0 .. NFiles /\ staging \in [Layers -> SUBSET Arrays]
    /\ expert \in Experts /\ piece \in 1 .. Len(ToWrite) + 1 /\ arrived \subseteq Layers

Expert(id) ==
    [ok |-> TRUE,
     gateup |-> [c \in Range(Components) |-> Blob(id, <<"gate_proj", c>>) \o Blob(id, <<"up_proj", c>>)],
     down |-> [c \in Range(Components) |-> Blob(id, <<"down_proj", c>>)]]

ReadsAs(l, e, m) ==
    /\ disk[Path(l, e, "bin")] # NoFile
    /\ ReadShard(disk[Path(l, e, "bin")]) = Expert([model |-> m, layer |-> l, expert |-> e])

\* Whenever the converter was killed and however often it ran, every shard that
\* is there reads back as the arrays of that very expert, whole and of one
\* checkpoint: the streaming process may open it at any time.
ShardsWhole ==
    \A l \in Layers, e \in Experts :
       disk[Path(l, e, "bin")] # NoFile => \E m \in Checkpoints : ReadsAs(l, e, m)

\* A run that reports success has written all experts of every layer the
\* checkpoint has anything of, from this checkpoint, whatever earlier runs left.
DoneMeansAll ==
    pc = "done" => \A l \in arrived, e \in Experts : ReadsAs(l, e, model)

\* A shard that is there is never missing or unreadable again, not even while
\* another run replaces it.
NeverLoses ==
    [][\A l \in Layers, e \in Experts :
          disk[Path(l, e, "bin")] # NoFile =>
             disk'[Path(l, e, "bin")] # NoFile /\ ReadShard(disk'[Path(l, e, "bin")]).ok]_shardVars
=============================================================================
