------------------------------ MODULE MCUploads ------------------------------
(* A file of a Store and two files of an Inbox, in two entries.             *)
EXTENDS Uploads

CONSTANTS doc, file1, file2

MCFileSize == doc :> 4 @@ file1 :> 3 @@ file2 :> 2
MCEntryFiles == {<<>>, <<file1>>, <<file1, file2>>}

\* Uploads to a Store and to an Inbox share nothing: they are checked apart.
Apart ==
  \/ file[doc].state = "none"
  \/ (\A x \in {file1, file2} : file[x].state = "none") /\ (\A e \in Entries : entry[e].state = "none")
=============================================================================
