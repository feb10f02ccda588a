------------------------------ MODULE Verifier ------------------------------
(***************************************************************************)
(* The export tool (cli/main.go): what `verify`, `check-files` and `diff`  *)
(* compute from a manifest and a directory of chunk files.                 *)
(*                                                                         *)
(* A file is a sequence of pieces.  The piece <<f, n, t, k>> is the k-th   *)
(* part of record n of the data source, printed in format f by an export   *)
(* that read the source at time t; a printed record n is RecordSize[n] parts *)
(* of text and the end of its line.  The number 0 stands for what a format    *)
(* writes before the records.  SHA-256 has no collisions here: a chunk is  *)
(* its own checksum, and a Merkle root is the sequence of the leaves under *)
(* it, whose length, a power of 2, gives the shape of the tree.            *)
(***************************************************************************)
EXTENDS Integers, Sequences, FiniteSets, SequencesExt

CONSTANTS
    Source,      \* the records of the data source, without created_at
    RecordSize   \* parts of text in each printed record

ASSUME VerifierAssumption ==
    /\ Len(Source) \in Nat
    /\ RecordSize \in [0..Len(Source) -> Nat \ {0}]
    /\ \A n \in 1..Len(Source) : "id" \in DOMAIN Source[n]
    /\ \A m, n \in 1..Len(Source) : Source[m].id = Source[n].id => m = n

\* A record of the source as an export of time t prints it.
Record(n, t) ==
    [f \in DOMAIN Source[n] \cup {"created_at"} |->
        IF f = "created_at" THEN t ELSE Source[n][f]]

EndsRecord(piece) == piece[4] = RecordSize[piece[2]]
IsText(piece) == piece[4] <= RecordSize[piece[2]]
BeginsRecord(piece) == piece[4] = 1

----------------------------------------------------------------------------
(* verify and check-files. *)

\* buildMerkleTree: each level pairs the neighbours of the one below, the
\* last one with itself if odd; the root is the first level of one hash.
VerifierMerkleTree(hashes) ==
    LET level[n \in Nat] ==
            IF n = 0 THEN hashes
            ELSE LET below == level[n - 1]
                 IN  [i \in 1..((Len(below) + 1) \div 2) |->
                        below[2 * i - 1] \o
                        below[IF 2 * i <= Len(below) THEN 2 * i ELSE 2 * i - 1]]
        small == {n \in 0..Len(hashes) : Len(level[n]) <= 1}
    IN  IF hashes = <<>> THEN <<>> ELSE Head(level[Min(small)])

\* verifyMerkleTree, over the checksums the manifest lists.
VerifyMerkleTree(manifest) ==
    VerifierMerkleTree([n \in 1..Len(manifest.Files) |->
                           <<manifest.Files[n].Checksum>>])
        = manifest.MerkleRoot

\* verifySignature only asks for a signature.
VerifySignature(manifest) == manifest.Signature # <<>>

\* verifyExport.
VerifyExport(manifest) == VerifyMerkleTree(manifest) /\ VerifySignature(manifest)

\* verifyFileChecksum, in a directory: file names to contents.
VerifyFileChecksum(dir, file) ==
    /\ file.Name \in DOMAIN dir
    /\ Len(dir[file.Name]) = file.Size
    /\ dir[file.Name] = file.Checksum

\* checkFiles.
CheckFiles(manifest, dir) ==
    \A n \in 1..Len(manifest.Files) :
        VerifyFileChecksum(dir, manifest.Files[n])

----------------------------------------------------------------------------
(* diff. *)

\* Can loadNDJSONFile parse every line?  Only whole records in NDJSON are
\* lines that parse; a record that a chunk boundary cuts is not.
Loads(content) ==
    LET text == {i \in 1..Len(content) : IsText(content[i])}
    IN  text # {} =>
          /\ \A i \in text : content[i][1] = "ndjson"
          /\ BeginsRecord(content[Min(text)])
          /\ EndsRecord(content[Max(text)])

\* The records loadNDJSONFile returns.
LoadNDJSONFile(content) ==
    LET records[i \in 0..Len(content)] ==
            IF i = 0 THEN <<>>
            ELSE IF BeginsRecord(content[i])
                 THEN Append(records[i - 1], Record(content[i][2], content[i][3]))
                 ELSE records[i - 1]
    IN  records[Len(content)]

\* loadDataFromManifest: file by file, in the directory of the manifest.
ManifestLoads(manifest, dir) ==
    \A n \in 1..Len(manifest.Files) :
        /\ manifest.Files[n].Name \in DOMAIN dir
        /\ Loads(dir[manifest.Files[n].Name])

LoadDataFromManifest(manifest, dir) ==
    FlattenSeq([n \in 1..Len(manifest.Files) |->
                   LoadNDJSONFile(dir[manifest.Files[n].Name])])

\* The key of a record without an ID.
GenerateRecordKey(record) ==
    <<record.experiment_type, record.target, record.created_at>>

\* Mutant: the ID of a record is not used.
RecordKeyGenerated(record) == GenerateRecordKey(record)

\* createRecordIndex: of the records with one key, the last one stays.
RecordKey(record) ==
    IF "id" \in DOMAIN record THEN record.id ELSE GenerateRecordKey(record)
CreateRecordIndex(data) ==
    [k \in {RecordKey(data[i]) : i \in DOMAIN data} |->
        data[Max({i \in DOMAIN data : RecordKey(data[i]) = k})]]

\* compareRecords: the fields that one record lacks or that differ.
CompareRecords(record1, record2, ignoreFields) ==
    {f \in (DOMAIN record1 \cup DOMAIN record2) \ ignoreFields :
        (f \in DOMAIN record1 /\ f \in DOMAIN record2) =>
            record1[f] # record2[f]}

\* compareExports.
CompareExports(data1, data2, ignoreFields) ==
    LET index1 == CreateRecordIndex(data1)
        index2 == CreateRecordIndex(data2)
        common == DOMAIN index1 \cap DOMAIN index2
        same   == {k \in common :
                     CompareRecords(index1[k], index2[k], ignoreFields) = {}}
    IN  [Identical    |-> Cardinality(same),
         Modified     |-> Cardinality(common \ same),
         OnlyInFirst  |-> DOMAIN index1 \ DOMAIN index2,
         OnlyInSecond |-> DOMAIN index2 \ DOMAIN index1,
         Total        |-> Len(data1) + Len(data2)]
=============================================================================
