------------------------------- MODULE Exports -------------------------------
(***************************************************************************)
(* ExportService (controller/export_service.go) on FileSystemStorage       *)
(* (controller/storage.go), and a client that downloads a chunk with       *)
(* range requests.                                                         *)
(*                                                                         *)
(* A job is an object; the map refers to it by its ID, which only tells    *)
(* the second of its creation: generateRandomString always returns the     *)
(* same letters.  The goroutine of a job reports its progress through the  *)
(* map, to whichever job its ID means by then, writes the files of its ID, *)
(* and sets the final fields in its own object.  Each access to the map or *)
(* to the storage is a step.                                               *)
(***************************************************************************)
EXTENDS Verifier

CONSTANTS
    Requests,        \* bodies of POST /api/exports, with their user
    ChunkSize,       \* pieces in a chunk
    StorageMayFail,  \* can writing a file fail?
    MaxJobs,         \* bound on the jobs
    MaxSecond,       \* bound on the clock
    Downloaded       \* the indexes of the chunks a client asks for

ASSUME ExportsAssumption ==
    /\ ChunkSize \in Nat \ {0} /\ MaxJobs \in Nat /\ MaxSecond \in Nat
    /\ StorageMayFail \in BOOLEAN

VARIABLES
    second,     \* time.Now().Unix()
    exports,    \* the jobs in the order of their creation
    jobsByID,   \* es.jobs: IDs to the number of a job
    chunkFiles, \* the chunks in the storage, by name: <<ID, index>>
    manifests,  \* the manifests in the storage, by ID
    download    \* the client: the chunk it asks for and what it has of it

exportVars == <<second, exports, jobsByID, chunkFiles, manifests, download>>

JobNumbers == 1..Len(exports)

\* The second a job is created at, as a string with a constant suffix.
GenerateJobID == second

----------------------------------------------------------------------------
(* Data. *)

\* A map or a directory with the content under each of the names.
Written(files, names, content) ==
    [n \in DOMAIN files \cup names |-> IF n \in names THEN content ELSE files[n]]

Filtered == {"experiment_type", "status", "target"}

\* matchesFilters; an empty filter lets everything through.
MatchesFilters(record, filters) ==
    \A f \in Filtered : filters[f] \in {"", record[f]}

\* fetchFilteredData: the numbers of the matching records.
FetchFilteredData(filters) ==
    LET matching[n \in 0..Len(Source)] ==
            IF n = 0 THEN <<>>
            ELSE IF MatchesFilters(Source[n], filters)
                 THEN Append(matching[n - 1], n)
                 ELSE matching[n - 1]
    IN  matching[Len(Source)]

\* formatData; the formats differ in what they print for no records.
SupportedFormats == {"ndjson", "parquet", "csv"}
FormatData(format, t, numbers) ==
    LET Line(n) == [k \in 1..(RecordSize[n] + 1) |-> <<format, n, t, k>>]
        rows    == FlattenSeq([i \in 1..Len(numbers) |-> Line(numbers[i])])
    IN  CASE format = "ndjson"  -> rows
          [] format = "csv"     -> IF numbers = <<>> THEN <<>> ELSE Line(0) \o rows
          [] format = "parquet" -> Line(0) \o rows

\* Mutant: what does not fill a chunk is dropped.
ChunkCountTruncated(data) == Len(data) \div ChunkSize

\* createChunks: the chunks of the data, and what the manifest says of them.
ChunkCount(data) == (Len(data) + ChunkSize - 1) \div ChunkSize
Chunk(data, i) ==
    LET end == (i + 1) * ChunkSize
    IN  SubSeq(data, i * ChunkSize + 1, IF end > Len(data) THEN Len(data) ELSE end)
FileInfo(id, data, i) ==
    [Name     |-> <<id, i>>,
     Size     |-> Len(Chunk(data, i)),
     Checksum |-> Chunk(data, i)]

\* Mutant: the last of an odd number of hashes is dropped.
MerkleTreeOfPairs(hashes) ==
    LET level[n \in Nat] ==
            IF n = 0 THEN hashes
            ELSE LET below == level[n - 1]
                 IN  [i \in 1..(Len(below) \div 2) |->
                        below[2 * i - 1] \o below[2 * i]]
        small == {n \in 0..Len(hashes) : Len(level[n]) <= 1}
    IN  IF hashes = <<>> THEN <<>> ELSE Head(level[Min(small)])

\* buildMerkleTree of the service.
BuildMerkleTree(hashes) ==
    LET level[n \in Nat] ==
            IF n = 0 THEN hashes
            ELSE LET below == level[n - 1]
                 IN  [i \in 1..((Len(below) + 1) \div 2) |->
                        below[2 * i - 1] \o
                        below[IF 2 * i <= Len(below) THEN 2 * i ELSE 2 * i - 1]]
        small == {n \in 0..Len(hashes) : Len(level[n]) <= 1}
    IN  IF hashes = <<>> THEN <<>> ELSE Head(level[Min(small)])

\* generateCryptoProofs and createManifest.
CreateManifest(id, data) ==
    LET files == [n \in 1..ChunkCount(data) |-> FileInfo(id, data, n - 1)]
        root  == BuildMerkleTree([n \in 1..Len(files) |-> <<files[n].Checksum>>])
    IN  [Whole |-> TRUE, Files |-> files, MerkleRoot |-> root,
         Signature |-> <<"sha256", root>>]

\* What is left of a manifest whose writing did not finish.
TornManifest == [CreateManifest(0, <<>>) EXCEPT !.Whole = FALSE]

----------------------------------------------------------------------------
(* Jobs. *)

Statuses == {"pending", "processing", "completed", "failed"}
Steps    == {"start", "fetch", "format", "store", "manifest", "complete",
             "returned", "killed"}

\* The type of every variable.
ExportsTypeOK ==
    /\ second \in 0..MaxSecond
    /\ Len(exports) <= MaxJobs
    /\ \A j \in JobNumbers :
         /\ exports[j].id \in 0..MaxSecond
         /\ exports[j].status \in Statuses
         /\ exports[j].at \in Steps
         /\ exports[j].stored \in 0..ChunkCount(exports[j].data)
         /\ exports[j].ManifestURL \in BOOLEAN
    /\ DOMAIN jobsByID \subseteq 0..MaxSecond
    /\ \A id \in DOMAIN jobsByID : exports[jobsByID[id]].id = id
    /\ DOMAIN manifests \subseteq 0..MaxSecond
    /\ DOMAIN chunkFiles \subseteq (0..MaxSecond) \X Nat

\* NewExportService, NewFileSystemStorage.
ExportsInit ==
    /\ second = 0
    /\ exports = <<>>
    /\ jobsByID = <<>>
    /\ chunkFiles = <<>>
    /\ manifests = <<>>
    /\ download = <<>>

\* StartExportHandler: the format if none is asked for.
RequestedFormat(r) == IF r.format = "" THEN "ndjson" ELSE r.format

\* CreateExportJob, and its goroutine begins.
CreateExportJob(r) ==
    /\ Len(exports) < MaxJobs
    /\ exports' = Append(exports,
         [id     |-> GenerateJobID,
          UserID |-> r.user,
          format |-> RequestedFormat(r),
          filters |-> r.filters,
          status |-> "pending",
          ManifestURL |-> FALSE,
          at     |-> "start",
          data   |-> <<>>,    \* the local variables of processExportJob
          stored |-> 0])
    /\ jobsByID' = Written(jobsByID, {GenerateJobID}, Len(exports) + 1)
    /\ UNCHANGED <<second, chunkFiles, manifests, download>>

\* updateJobStatus: the job that has the ID in the map, not the caller's.
UpdateJobStatus(id, status) ==
    IF id \in DOMAIN jobsByID
    THEN [exports EXCEPT ![jobsByID[id]].status = status]
    ELSE exports

\* The goroutine of job j reports a status, and goes on at the next step.
Proceed(j, status, next) ==
    exports' = [UpdateJobStatus(exports[j].id, status) EXCEPT ![j].at = next]

\* processExportJob to its first report.
Begin(j) ==
    /\ exports[j].at = "start"
    /\ Proceed(j, "processing", "fetch")
    /\ UNCHANGED <<second, jobsByID, chunkFiles, manifests, download>>

\* fetchFilteredData: the records, with the time they are read at.
Fetch(j) ==
    /\ exports[j].at = "fetch"
    /\ exports' =
         [UpdateJobStatus(exports[j].id, "processing") EXCEPT
            ![j].at   = "format",
            ![j].data = <<second, FetchFilteredData(exports[j].filters)>>]
    /\ UNCHANGED <<second, jobsByID, chunkFiles, manifests, download>>

\* formatData; there is no zip.
Format(j) ==
    /\ exports[j].at = "format"
    /\ \/ /\ exports[j].format \in SupportedFormats
          /\ exports' =
               [UpdateJobStatus(exports[j].id, "processing") EXCEPT
                  ![j].at   = "store",
                  ![j].data = FormatData(exports[j].format, @[1], @[2])]
       \/ /\ exports[j].format \notin SupportedFormats
          /\ exports' =
               [UpdateJobStatus(exports[j].id, "failed") EXCEPT
                  ![j].at = "returned", ![j].data = <<>>]
    /\ UNCHANGED <<second, jobsByID, chunkFiles, manifests, download>>

\* One turn of the loop of createChunks.  A chunk is written as a whole, or
\* the write fails, before or after it emptied the file.
StoreChunk(j) ==
    LET job  == exports[j]
        name == <<job.id, job.stored>>
    IN  /\ job.at = "store"
        /\ job.stored < ChunkCount(job.data)
        /\ \/ /\ chunkFiles' = Written(chunkFiles, {name}, Chunk(job.data, job.stored))
              /\ exports' = [exports EXCEPT ![j].stored = @ + 1]
           \/ /\ StorageMayFail
              /\ chunkFiles' \in {chunkFiles, Written(chunkFiles, {name}, <<>>)}
              /\ Proceed(j, "failed", "returned")
        /\ UNCHANGED <<second, jobsByID, manifests, download>>

\* The end of createChunks.
ChunksStored(j) ==
    /\ exports[j].at = "store"
    /\ exports[j].stored = ChunkCount(exports[j].data)
    /\ Proceed(j, "processing", "manifest")
    /\ UNCHANGED <<second, jobsByID, chunkFiles, manifests, download>>

\* generateCryptoProofs, createManifest, storeManifest.
StoreManifest(j) ==
    LET id == exports[j].id
    IN  /\ exports[j].at = "manifest"
        /\ \/ /\ manifests' = Written(manifests, {id}, CreateManifest(id, exports[j].data))
              /\ exports' = [exports EXCEPT ![j].at = "complete"]
           \/ /\ StorageMayFail
              /\ manifests' \in {manifests, Written(manifests, {id}, TornManifest)}
              /\ Proceed(j, "failed", "returned")
        /\ UNCHANGED <<second, jobsByID, chunkFiles, download>>

\* The final fields are set in the goroutine's own job.
Complete(j) ==
    /\ exports[j].at = "complete"
    /\ exports' = [exports EXCEPT ![j].at = "returned",
                                  ![j].status = "completed",
                                  ![j].ManifestURL = TRUE]
    /\ UNCHANGED <<second, jobsByID, chunkFiles, manifests, download>>

ProcessExportJob(j) ==
    \/ Begin(j) \/ Fetch(j) \/ Format(j) \/ StoreChunk(j) \/ ChunksStored(j)
    \/ StoreManifest(j) \/ Complete(j)

----------------------------------------------------------------------------
(* Downloads. *)

\* Mutant: the first byte is counted from 1.
RangeRequestFromOne(length, first, last) ==
    [start |-> IF first <= 0 THEN 0 ELSE first - 1,
     end   |-> IF last >= 0 /\ last < length THEN last ELSE length - 1]

\* handleRangeRequest for "bytes=first-last", -1 for a number that is left
\* out: the first and the last byte that are sent, counted from 0.
HandleRangeRequest(length, first, last) ==
    [start |-> IF first < 0 THEN 0 ELSE first,
     end   |-> IF last >= 0 /\ last < length THEN last ELSE length - 1]

Satisfiable(length, range) == range.start <= range.end /\ range.start < length
Body(content, range)       == SubSeq(content, range.start + 1, range.end + 1)

\* DownloadChunkHandler answers with data only the user of a completed job.
MayDownload(user, id, i) ==
    /\ id \in DOMAIN jobsByID
    /\ exports[jobsByID[id]].UserID = user
    /\ exports[jobsByID[id]].status = "completed"
    /\ <<id, i>> \in DOMAIN chunkFiles

\* The client asks for a chunk of a job of its own.
StartDownload(id, i) ==
    /\ download = <<>>
    /\ id \in DOMAIN jobsByID
    /\ LET user == exports[jobsByID[id]].UserID
       IN  /\ MayDownload(user, id, i)
           /\ download' = [user |-> user, file |-> <<id, i>>, got |-> <<>>]
    /\ UNCHANGED <<second, exports, jobsByID, chunkFiles, manifests>>

\* A request for the rest of the chunk; the connection may break.
Resume(breaks) ==
    /\ download # <<>>
    /\ MayDownload(download.user, download.file[1], download.file[2])
    /\ LET content == chunkFiles[download.file]
           range   == HandleRangeRequest(Len(content), Len(download.got), -1)
           body    == Body(content, range)
       IN  /\ Satisfiable(Len(content), range)
           /\ download' = [download EXCEPT
                 !.got = @ \o IF breaks THEN SubSeq(body, 1, Len(body) \div 2)
                                   ELSE body]
    /\ UNCHANGED <<second, exports, jobsByID, chunkFiles, manifests>>

\* The client is done with the chunk, or gives it up.
EndDownload ==
    /\ download # <<>>
    /\ download' = <<>>
    /\ UNCHANGED <<second, exports, jobsByID, chunkFiles, manifests>>

----------------------------------------------------------------------------
SecondPasses ==
    /\ second < MaxSecond
    /\ second' = second + 1
    /\ UNCHANGED <<exports, jobsByID, chunkFiles, manifests, download>>

\* The controller restarts: the jobs are gone, the files stay; each file that
\* was being written may be left empty.
Writing == {j \in JobNumbers :
              \/ exports[j].at = "store" /\ exports[j].stored < ChunkCount(exports[j].data)
              \/ exports[j].at = "manifest"}

RestartController ==
    /\ jobsByID # <<>>
    /\ jobsByID' = <<>>
    /\ exports' = [j \in JobNumbers |->
         IF exports[j].at = "returned" THEN exports[j]
                                       ELSE [exports[j] EXCEPT !.at = "killed"]]
    /\ \E torn \in SUBSET Writing :
         /\ chunkFiles' = Written(chunkFiles,
              {<<exports[j].id, exports[j].stored>> :
                 j \in {t \in torn : exports[t].at = "store"}}, <<>>)
         /\ manifests' = Written(manifests,
              {exports[j].id : j \in {t \in torn : exports[t].at = "manifest"}},
              TornManifest)
    /\ download' = <<>>
    /\ UNCHANGED second

ExportsNext ==
    \/ \E r \in Requests : CreateExportJob(r)
    \/ \E j \in JobNumbers : ProcessExportJob(j)
    \/ \E id \in DOMAIN jobsByID, i \in Downloaded : StartDownload(id, i)
    \/ \E breaks \in BOOLEAN : Resume(breaks)
    \/ EndDownload
    \/ SecondPasses
    \/ RestartController

ExportSpec == ExportsInit /\ [][ExportsNext]_exportVars
----------------------------------------------------------------------------
(* Properties. *)

\* Is the ID of job j its own?
Unshared(j) == \A k \in JobNumbers : exports[k].id = exports[j].id => k = j

\* A manifest that can be read passes `verify`, and its chunks pass
\* `check-files`, whatever write failed and whenever the controller stopped:
\* processExportJob writes the chunks before the manifest, and the service
\* and the tool build the same Merkle tree.
ManifestSound ==
    \A j \in JobNumbers :
        LET id == exports[j].id
        IN  Unshared(j) /\ id \in DOMAIN manifests /\ manifests[id].Whole =>
                /\ VerifyExport(manifests[id])
                /\ CheckFiles(manifests[id], chunkFiles)

\* The status tells how a job ended, wherever a write failed: a job without a
\* goroutine has completed or failed, and a completed export is in the
\* storage, its manifest and chunks that put together are the data that
\* matched its filters (the early returns of processExportJob).
StatusTellsOutcome ==
    \A j \in JobNumbers :
        LET id == exports[j].id
        IN  /\ Unshared(j) /\ exports[j].at = "returned" =>
                exports[j].status \in {"completed", "failed"}
            /\ Unshared(j) /\ exports[j].status = "completed" =>
                /\ exports[j].ManifestURL
                /\ id \in DOMAIN manifests /\ manifests[id].Whole
                /\ FlattenSeq([n \in 1..Len(manifests[id].Files) |->
                                 chunkFiles[manifests[id].Files[n].Name]])
                     = exports[j].data

\* However often a download broke off, what the client has is the beginning
\* of the chunk, and the answer to its next request is the rest of it
\* (DownloadChunkHandler, handleRangeRequest).
DownloadResumes ==
    \A j \in JobNumbers :
        Unshared(j) /\ download # <<>> /\ download.file[1] = exports[j].id =>
            LET chunk == Chunk(exports[j].data, download.file[2])
                range == HandleRangeRequest(Len(chunk), Len(download.got), -1)
            IN  /\ IsPrefix(download.got, chunk)
                /\ download.got # chunk =>
                      /\ Satisfiable(Len(chunk), range)
                      /\ download.got \o Body(chunk, range) = chunk

\* Are the data lines of NDJSON, and does no chunk end within a record?
LinesPerChunk(data) ==
    LET ends == {i * ChunkSize : i \in 1..(ChunkCount(data) - 1)}
    IN  \A p \in 1..Len(data) :
          IsText(data[p]) => /\ data[p][1] = "ndjson"
                             /\ p \in ends => EndsRecord(data[p])

\* `diff` never reads an export wrongly: it refuses a completed one exactly when
\* a chunk cuts a record or the data are no NDJSON, and two that it loads
\* differ in the records that one filter lets through and the other does not
\* and, created_at left aside, in nothing else (loadDataFromManifest and
\* compareExports, over createChunks, formatData and fetchFilteredData).
DiffExact ==
    LET Exported(n)    == Unshared(n) /\ exports[n].status = "completed"
        LoadsExport(n) == ManifestLoads(manifests[exports[n].id], chunkFiles)
        Data(n)        == LoadDataFromManifest(manifests[exports[n].id], chunkFiles)
        IDs(n)         == {Source[r].id : r \in
                             {r \in 1..Len(Source) :
                                MatchesFilters(Source[r], exports[n].filters)}}
    IN  \A i \in JobNumbers : Exported(i) =>
          /\ LoadsExport(i) <=> LinesPerChunk(exports[i].data)
          /\ \A j \in i..Len(exports) :
               Exported(j) /\ LoadsExport(i) /\ LoadsExport(j) =>
                 LET result == CompareExports(Data(i), Data(j), {"created_at"})
                 IN  /\ result.Modified = 0
                     /\ result.Identical = Cardinality(IDs(i) \cap IDs(j))
                     /\ result.OnlyInFirst = IDs(i) \ IDs(j)
                     /\ result.OnlyInSecond = IDs(j) \ IDs(i)
=============================================================================
