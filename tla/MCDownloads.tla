----------------------------- MODULE MCDownloads -----------------------------
(* The TLC instance of Downloads.                                          *)
EXTENDS Downloads

(* Of the same length, then shrunk, then empty.                            *)
MCVersions == <<1, 2, 3, 4>>
MCLength == <<[identity |-> 3, br |-> 2], [identity |-> 3, br |-> 2],
              [identity |-> 1, br |-> 1], [identity |-> 0, br |-> 0]>>
(* Written within one second but for the last; the file system, which keeps *)
(* time more finely, gives only the second and third the same.             *)
MCModified == <<1, 1, 1, 2>>
MCStamp == <<1, 2, 2, 3>>
(* The first two are alike to the application.                             *)
MCAlike == <<1, 1, 2, 3>>
MCRanges == {<<>>, <<Suffix(1)>>, <<Offsets(5, -1), Offsets(0, 0)>>}
=============================================================================
