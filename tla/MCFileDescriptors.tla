------------------------- MODULE MCFileDescriptors -------------------------
(* Model-checking instance of FileDescriptors: two processes with four     *)
(* descriptors each (two above stdout, so the table fills), the names of   *)
(* the boot image's kinds: "rtc", the directory ".", a regular file one  *)
(* byte long (so that reads reach its end), and a name not in the image.   *)
EXTENDS FileDescriptors

MCProcs == {1, 2}
MCFdMax == 4
MCNames == {"rtc", ".", "frame0.txt", "nofile"}
MCNameType == [n \in MCNames |->
                  CASE n = "rtc" -> "rtc" [] n = "." -> "dir"
                    [] n = "nofile" -> "none" [] OTHER -> "file"]
MCFileLen == [n \in MCNames |-> 1]
MCRtcName == "rtc"
MCNumDirs == 1
MCLens == {1, 2}
MCRates == {1, 3, 1024, 2048}
=============================================================================
