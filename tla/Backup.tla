------------------------------- MODULE Backup -------------------------------
(***************************************************************************)
(* backup-db.sh and restore-db.sh: two scripts over a directory of         *)
(* archives.  Both stop at the first command that fails (set -e, pipefail) *)
(* and may be killed between any two; files may be damaged meanwhile.  A   *)
(* backup is named by the time it starts.                                  *)
(***************************************************************************)
EXTENDS Integers

CONSTANTS Retention,  \* RETENTION_DAYS
          LastDay     \* bound: days

ASSUME BackupAssumption == Retention \in Nat /\ LastDay \in Nat \ {0}

Days == 1 .. LastDay

VARIABLES today,     \* the date
          sealed,    \* GPG_PASSPHRASE is set
          plain,     \* per backup, its .sql.gz file
          cipher,    \* per backup, its .sql.gz.gpg file
          checksum,  \* per backup, the file its .sha256 file names and what it was made of
          job,       \* the step of backup-db.sh and the backup it makes
          restore,   \* the step of restore-db.sh and its INPUT_FILE
          latest,    \* history: the backup that was completed last; 0: none
          replayed   \* history: the last restoration, once it has come to its end

backupVars == <<today, sealed, plain, cipher, checksum, job, restore, latest, replayed>>

\* What is in a file: a part of the dump, all of it, all of it damaged since; "none": there is
\* no such file.
Content == {"none", "part", "whole", "damaged"}
File    == [content: Content, since: {0} \cup Days]
NoFile  == [content |-> "none", since |-> 0]
Hash    == [about: {"none", "plain", "cipher"}, of: Content, since: {0} \cup Days]
NoHash  == [about |-> "none", of |-> "none", since |-> 0]

Asleep == [step |-> "idle", day |-> 0]
NoRestore == [step |-> "idle", day |-> 0, input |-> "plain", verified |-> FALSE]
NothingReplayed == [input |-> "plain", verified |-> FALSE, content |-> "none"]

Steps == {"idle", "dump", "hash", "encrypt", "remove", "rehash", "upload", "prune"}

BackupTypeOK ==
  /\ today \in Days /\ sealed \in BOOLEAN
  /\ plain \in [Days -> File] /\ cipher \in [Days -> File]
  /\ checksum \in [Days -> Hash]
  /\ job \in [step: Steps, day: {0} \cup Days]
  /\ restore \in [step: {"idle", "confirm", "decrypt", "replay"}, day: {0} \cup Days,
                  input: {"plain", "cipher"}, verified: BOOLEAN]
  /\ latest \in {0} \cup Days
  /\ replayed \in [input: {"plain", "cipher"}, verified: BOOLEAN, content: Content]

BackupInit ==
  /\ today = 1
  /\ sealed \in BOOLEAN
  /\ plain = [d \in Days |-> NoFile]
  /\ cipher = [d \in Days |-> NoFile]
  /\ checksum = [d \in Days |-> NoHash]
  /\ job = Asleep
  /\ restore = NoRestore
  /\ latest = 0
  /\ replayed = NothingReplayed

files   == <<plain, cipher, checksum>>
history == <<latest, replayed>>

-----------------------------------------------------------------------------
\* Outside the scripts

\* A backup takes less than its archive is kept.
NextDay ==
  /\ today < LastDay
  /\ job = Asleep \/ today < job.day + Retention
  /\ today' = today + 1
  /\ UNCHANGED <<sealed, files, job, restore, history>>

\* A disk loses a block of an archive that neither script is using.
Decay(d) ==
  /\ job.day # d /\ restore = NoRestore
  /\ \/ /\ plain[d].content = "whole"
        /\ plain' = [plain EXCEPT ![d].content = "damaged"]
        /\ UNCHANGED cipher
     \/ /\ cipher[d].content = "whole"
        /\ cipher' = [cipher EXCEPT ![d].content = "damaged"]
        /\ UNCHANGED plain
  /\ UNCHANGED <<today, sealed, checksum, job, restore, history>>

-----------------------------------------------------------------------------
\* backup-db.sh

Written(content) == [content |-> content, since |-> today]
HashOf(about, file) == [about |-> about, of |-> file.content, since |-> today]
Goto(step) == job' = [job EXCEPT !.step = step]

\* The redirection creates the archive before pg_dump writes it.
StartBackup ==
  /\ job = Asleep
  /\ plain[today] = NoFile /\ cipher[today] = NoFile
  /\ plain' = [plain EXCEPT ![today] = Written("part")]
  /\ job' = [step |-> "dump", day |-> today]
  /\ UNCHANGED <<today, sealed, cipher, checksum, restore, history>>

DumpCompletes ==
  /\ job.step = "dump"
  /\ plain' = [plain EXCEPT ![job.day] = Written("whole")]
  /\ Goto("hash")
  /\ UNCHANGED <<today, sealed, cipher, checksum, restore, history>>

\* Mutant: without pipefail the script goes on after a failed pg_dump.
DumpedOrNot == {"dump", "hash"}

\* A checksum is made once the dump has been written.
Dumped == {"hash"}

HashPlain ==
  /\ job.step \in Dumped
  /\ checksum' = [checksum EXCEPT ![job.day] = HashOf("plain", plain[job.day])]
  /\ Goto(IF sealed THEN "encrypt" ELSE "upload")
  /\ UNCHANGED <<today, sealed, plain, cipher, restore, history>>

\* gpg writes a second file beside the archive.
Encrypt ==
  /\ job.step = "encrypt"
  /\ \/ /\ cipher' = [cipher EXCEPT ![job.day] = Written("part")]
        /\ UNCHANGED job
     \/ /\ cipher' = [cipher EXCEPT ![job.day] = Written(plain[job.day].content)]
        /\ Goto("remove")
  /\ UNCHANGED <<today, sealed, plain, checksum, restore, history>>

RemovePlain ==
  /\ job.step = "remove"
  /\ plain' = [plain EXCEPT ![job.day] = NoFile]
  /\ Goto("rehash")
  /\ UNCHANGED <<today, sealed, cipher, checksum, restore, history>>

\* CHECKSUM_FILE keeps the name it got before BACKUP_FILE was renamed.
Rehash ==
  /\ job.step = "rehash"
  /\ checksum' = [checksum EXCEPT ![job.day] = HashOf("cipher", cipher[job.day])]
  /\ Goto("upload")
  /\ UNCHANGED <<today, sealed, plain, cipher, restore, history>>

\* To S3 and to GCS, where they are configured.
Upload ==
  /\ job.step = "upload"
  /\ Goto("prune")
  /\ UNCHANGED <<today, sealed, files, restore, history>>

\* Mutant: the backup of today is as old as any.
EveryFile(since) == TRUE

\* find -mtime
Outdated(since) == since + Retention < today

Prune ==
  LET Kept(f, none) == [d \in Days |-> IF Outdated(f[d].since) THEN none ELSE f[d]] IN
  /\ job.step = "prune"
  /\ plain' = Kept(plain, NoFile)
  /\ cipher' = Kept(cipher, NoFile)
  /\ checksum' = Kept(checksum, NoHash)
  /\ latest' = job.day
  /\ job' = Asleep
  /\ UNCHANGED <<today, sealed, restore, replayed>>

\* A command fails, or the script is killed.
BackupFails ==
  /\ job # Asleep
  /\ job' = Asleep
  /\ UNCHANGED <<today, sealed, files, restore, history>>

-----------------------------------------------------------------------------
\* restore-db.sh

Input(d, input) == IF input = "plain" THEN plain[d] ELSE cipher[d]

\* The checksum of an encrypted archive would be <name>.gpg.sha256, which nobody writes.
HasChecksum(d, input) == input = "plain" /\ checksum[d].about # "none"

\* shasum -c looks at the file the checksum names, whatever INPUT_FILE is.
ChecksumHolds(d) == Input(d, checksum[d].about).content = checksum[d].of

StartRestore(d, input) ==
  /\ restore = NoRestore
  /\ Input(d, input) # NoFile
  /\ HasChecksum(d, input) => ChecksumHolds(d)
  /\ restore' = [step |-> "confirm", day |-> d, input |-> input,
                 verified |-> HasChecksum(d, input)]
  /\ replayed' = NothingReplayed
  /\ UNCHANGED <<today, sealed, files, job, latest>>

\* The operator says yes.
Confirm ==
  /\ restore.step = "confirm"
  /\ restore' = [restore EXCEPT !.step = IF restore.input = "cipher" THEN "decrypt" ELSE "replay"]
  /\ UNCHANGED <<today, sealed, files, job, history>>

\* The decrypted archive is written under the name the plain one had.
Decrypt ==
  LET d == restore.day IN
  /\ restore.step = "decrypt"
  /\ \/ /\ plain' = [plain EXCEPT ![d] = Written("part")]
        /\ UNCHANGED restore
     \/ /\ cipher[d].content = "whole"
        /\ plain' = [plain EXCEPT ![d] = Written("whole")]
        /\ restore' = [restore EXCEPT !.step = "replay"]
  /\ UNCHANGED <<today, sealed, cipher, checksum, job, history>>

\* What gzip can read is replayed, then it fails if that is not all; only then a decrypted
\* archive is left behind.
Replay ==
  LET d == restore.day IN
  /\ restore.step = "replay"
  /\ plain[d] # NoFile
  /\ replayed' = [input |-> restore.input, verified |-> restore.verified,
                  content |-> plain[d].content]
  /\ plain' = IF restore.input = "cipher" /\ plain[d].content = "whole"
              THEN [plain EXCEPT ![d] = NoFile] ELSE plain
  /\ restore' = NoRestore
  /\ UNCHANGED <<today, sealed, cipher, checksum, job, latest>>

\* The operator says no, a command fails, or the script is killed.
RestoreFails ==
  /\ restore # NoRestore
  /\ restore' = NoRestore
  /\ UNCHANGED <<today, sealed, files, job, history>>

BackupNext ==
  \/ NextDay
  \/ \E d \in Days : Decay(d)
  \/ StartBackup \/ DumpCompletes \/ HashPlain
  \/ Encrypt \/ RemovePlain \/ Rehash
  \/ Upload \/ Prune \/ BackupFails
  \/ \E d \in Days, input \in {"plain", "cipher"} : StartRestore(d, input)
  \/ Confirm \/ Decrypt \/ Replay \/ RestoreFails

-----------------------------------------------------------------------------
\* The backup that was completed last has its archive, however many later runs fail: only a
\* run that has made a new archive removes old ones
\* (backup-db.sh:70-71).
ArchiveKept ==
  latest # 0 => plain[latest] # NoFile \/ cipher[latest] # NoFile

\* Where archives are not encrypted, what is replayed after "Integrity verification: PASS" is
\* the whole dump: an archive that was cut short has no checksum, a damaged one fails it
\* (restore-db.sh:33-35).  With encryption neither holds: the archive has no checksum under
\* its name, and the one there is says PASS for what an interrupted decryption left behind.
VerifiedIsWhole ==
  ~ sealed /\ replayed.verified => replayed.content = "whole"
=============================================================================
