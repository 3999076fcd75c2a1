----------------------------- MODULE StoreQueries ------------------------------
(***************************************************************************)
(* internal/storage/postgres.go: the path of a device on a day             *)
(* (QueryPathPoints) and the paged list of invalid records                 *)
(* (QueryInvalidRecords), read while batches are stored.  A row's id is    *)
(* its position in its table.                                              *)
(***************************************************************************)
EXTENDS Ordering

CONSTANTS
  Devices,    \* the IMEIs with 15 digits
  BadImei,    \* any other
  Times,      \* values of date_time, in order
  Day,        \* those of the day that is asked for
  PathLimit,  \* 50000
  PageLimit,  \* the page size, after it was clamped
  MaxBatch,   \* bound on the rows of a batch
  MaxRows     \* bound on the rows of each table

ASSUME StoreAssumption ==
  /\ BadImei \notin Devices
  /\ Times \subseteq Nat /\ Day \subseteq Times
  /\ PathLimit \in Nat \ {0} /\ PageLimit \in Nat \ {0}
  /\ MaxBatch \in Nat /\ MaxRows \in Nat

VARIABLES
  gpsRecords,  \* imei, date_time and speed = 0 of each row of gps_records
  invalid,     \* created_at of each row of gps_invalid_records
  batches,     \* the clock: batches stored in gps_invalid_records so far
  reader       \* a client that reads page after page

tables == <<gpsRecords, invalid, batches>>
storeVars == <<tables, reader>>

Row == [imei : Devices \cup {BadImei}, time : Times, stop : BOOLEAN]

StoreTypeOK ==
  /\ gpsRecords \in Seq(Row) /\ Len(gpsRecords) <= MaxRows
  /\ batches \in Nat /\ invalid \in Seq(1..batches) /\ Len(invalid) <= MaxRows
  /\ reader \in [at : {"idle", "count", "select", "next", "done"}, page : Nat \ {0}, total : Nat,
                 found : SUBSET (1..MaxRows), seen : SUBSET (1..MaxRows), first : Nat, rows : Nat]

StoreInit ==
  /\ gpsRecords = <<>> /\ invalid = <<>> /\ batches = 0
  /\ reader = [at |-> "idle", page |-> 1, total |-> 0, found |-> {}, seen |-> {}, first |-> 0, rows |-> 0]

-----------------------------------------------------------------------------
(* Storing *)

\* prepareGPSRecordRows: records without an IMEI of 15 digits are left out.
Prepared(records) == Those(records, {k \in DOMAIN records : records[k].imei # BadImei})

\* StoreRecords: a batch in one transaction
StoreRecords(records) ==
  /\ Len(gpsRecords) + Len(records) <= MaxRows
  /\ gpsRecords' = gpsRecords \o Prepared(records)
  /\ UNCHANGED <<invalid, batches, reader>>

\* StoreInvalidRecords: all rows of a batch get the same created_at.
StoreInvalidRecords(n) ==
  /\ Len(invalid) + n <= MaxRows
  /\ batches' = batches + 1
  /\ invalid' = invalid \o [i \in 1..n |-> batches + 1]
  /\ UNCHANGED <<gpsRecords, reader>>

-----------------------------------------------------------------------------
(* QueryPathPoints *)

\* Mutation of Before: rows follow each other as they were stored.
BeforeById(i, j) == i < j

\* ORDER BY date_time, id
Before(i, j) ==
  \/ gpsRecords[i].time < gpsRecords[j].time
  \/ gpsRecords[i].time = gpsRecords[j].time /\ i < j

\* The common table expression base
Base(imei) ==
  {i \in DOMAIN gpsRecords : gpsRecords[i].imei = imei /\ gpsRecords[i].time \in Day}

\* LAG(speed = 0, 1, false): does the row follow a stop?
FollowsStop(rows, i) ==
  \E j \in rows : /\ gpsRecords[j].stop /\ Before(j, i)
                  /\ \A k \in rows : ~(Before(j, k) /\ Before(k, i))

\* A stop that follows a stop is left out.
PathPoints(imei) ==
  LET rows == Base(imei)
      points == {i \in rows : ~(gpsRecords[i].stop /\ FollowsStop(rows, i))}
      path == InOrder(points, {p \in points \X points : Before(p[1], p[2])})
  IN SubSeq(path, 1, IF Len(path) < PathLimit THEN Len(path) ELSE PathLimit)

-----------------------------------------------------------------------------
(* QueryInvalidRecords *)

\* ORDER BY created_at DESC: rows of one batch come in any order, and perhaps in
\* another one the next time.
Listings ==
  {p \in SetToSeqs(DOMAIN invalid) :
     \A i, j \in DOMAIN p : i < j => invalid[p[i]] >= invalid[p[j]]}

\* A client asks for the first page, to read all, or for one beyond the last.
OpenList(page) ==
  /\ reader.at = "idle"
  /\ reader' = [reader EXCEPT !.at = "count", !.page = page,
                              !.first = IF page = 1 THEN Len(invalid) ELSE 0]
  /\ UNCHANGED tables

\* Mutation of LastPage: an incomplete page does not count.
LastPageFull(total) ==
  IF total < PageLimit THEN 1 ELSE total \div PageLimit

LastPage(total) ==
  IF total = 0 THEN 1 ELSE (total + PageLimit - 1) \div PageLimit

\* SELECT COUNT( * ), and the page is clamped to the last one.
Count ==
  /\ reader.at = "count"
  /\ LET total == Len(invalid) IN
     reader' = [reader EXCEPT !.at = "select", !.total = total,
                  !.page = IF @ > LastPage(total) THEN LastPage(total) ELSE @]
  /\ UNCHANGED tables

\* SELECT ... LIMIT OFFSET, a statement of its own
SelectPage ==
  /\ reader.at = "select"
  /\ \E listing \in Listings :
       LET offset == (reader.page - 1) * PageLimit
           found == ToSet(SubSeq(listing, offset + 1,
                       IF offset + PageLimit < Len(listing) THEN offset + PageLimit
                                                           ELSE Len(listing)))
       IN reader' = [reader EXCEPT !.at = "next", !.found = found, !.seen = @ \cup found,
                                       !.rows = Len(listing)]
  /\ UNCHANGED tables

\* The client goes on until it has had the last page.
NextPage ==
  /\ reader.at = "next"
  /\ reader' = IF reader.page < LastPage(reader.total)
               THEN [reader EXCEPT !.at = "count", !.page = @ + 1, !.found = {}]
               ELSE [reader EXCEPT !.at = "done", !.found = {}]
  /\ UNCHANGED tables

-----------------------------------------------------------------------------
(* Batches are stored and paths asked for; meanwhile a client reads the list. *)

StoreRecordsNext ==
  \E n \in 1..MaxBatch : \E records \in [1..n -> Row] : StoreRecords(records)

ListNext ==
  \/ \E n \in 1..MaxBatch : StoreInvalidRecords(n)
  \/ \E page \in 1..MaxRows : OpenList(page)
  \/ Count \/ SelectPage \/ NextPage

StoreSpec == StoreInit /\ [][StoreRecordsNext \/ ListNext]_storeVars

-----------------------------------------------------------------------------
(* Properties *)

Earlier(i, j) ==
  \/ gpsRecords[i].time < gpsRecords[j].time
  \/ gpsRecords[i].time = gpsRecords[j].time /\ i < j

\* "Consecutive stoppages removed" (postgres.go:182), in the order of the device's
\* clock and not of arrival: no two points of a path that follow each other are
\* stops, and every row left out, up to the limit, is a stop with no movement
\* between it and a stop that is shown.
PathFaithful ==
  \A imei \in Devices :
    LET path == PathPoints(imei)
        shown == ToSet(path)
        cut == Len(path) = PathLimit
    IN /\ \A k \in 1..(Len(path) - 1) :
            /\ Earlier(path[k], path[k + 1])
            /\ ~(gpsRecords[path[k]].stop /\ gpsRecords[path[k + 1]].stop)
       /\ \A i \in Base(imei) \ shown :
            \/ cut /\ Earlier(path[Len(path)], i)
            \/ /\ gpsRecords[i].stop
               /\ \E j \in shown :
                    /\ gpsRecords[j].stop /\ Earlier(j, i)
                    /\ \A k \in Base(imei) :
                         Earlier(j, k) /\ Earlier(k, i) => gpsRecords[k].stop

\* A client that reads the list page by page while records are stored never gets an
\* empty page, whichever it asks for, unless there is no record, and sees every
\* record that was there when it began, with two exceptions: the order does not settle
\* ties, so one with the created_at of another may be skipped, and rows stored between
\* the last COUNT and its SELECT push others off the last page (QueryInvalidRecords,
\* StoreInvalidRecords).
ListComplete ==
  /\ reader.at = "next" /\ reader.total > 0 => reader.found # {}
  /\ reader.at = "done" /\ reader.rows = reader.total =>
       \A i \in (1..reader.first) \ reader.seen :
         \E j \in DOMAIN invalid \ {i} : invalid[j] = invalid[i]
=============================================================================
