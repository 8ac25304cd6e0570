-------------------------- MODULE MCVolumeVerifier --------------------------
(* Small instances of VolumeVerifier for TLC: two filesystems and, on each  *)
(* platform, two encrypted volumes; the id of one filesystem extends the    *)
(* other's by what is an encryption id, or the beginning of one.            *)
EXTENDS VolumeVerifier, SequencesExt

a == <<1, 1>>
b == <<1, 1, 2>>
x == <<2, 2>>
y == <<2, 1>>
m == <<1>>
n == <<2>>

MCSymbol == {1, 2}
MCUid == {a, b, Reverse(b)}
MCEnc == {x, y, Reverse(y), m, n}

\* Some UUIDs come out of format_uuid as they went in: a, m and n, not b.
MCFormatUuid == [id \in MCUid \cup MCEnc |-> Reverse(id)]

Vol(uid, enc, hdr, fs) == [uid |-> uid, enc |-> enc, hdr |-> hdr, fs |-> fs]
Nothing == Vol(NoId, NoId, NoId, NoId)

\* Windows: plain, encrypted, encrypted anew, decrypted with its old header
\* left, another filesystem, another encrypted one.
WindowsVolumes ==
  {Nothing, Vol(a, NoId, NoId, a), Vol(a, x, x, a), Vol(a, y, y, a),
   Vol(a, NoId, y, a), Vol(a, NoId, NoId, b), Vol(b, x, x, b)}

\* Linux: plain ext4, the same encrypted in place, a LUKS header the system
\* does not use, other filesystems, and one that is not ext4.
LinuxVolumes ==
  {Nothing, Vol(a, NoId, NoId, a), Vol(a, m, m, NoId), Vol(a, NoId, m, a),
   Vol(a, NoId, NoId, NoId), Vol(a, NoId, NoId, b), Vol(b, n, n, NoId),
   Vol(b, NoId, NoId, b)}

MCVolume ==
  [pf \in Platform |->
     CASE pf = "win32" -> WindowsVolumes
       [] pf = "linux" -> LinuxVolumes
       [] OTHER -> {Nothing}]

\* A plain ext4 filesystem, and the same encrypted in place.
MCEncryptedLater ==
  [pf \in Platform |-> {Vol(a, NoId, NoId, a), Vol(a, m, m, NoId)}]

\* Bound: one identity in the store at a time.
OneEntry == \E k \in Arg : store[k] = NoEntry

\* Bound: no failure of a channel is taken for absence, and the volume changes
\* between invocations only.
Undisturbed == candid /\ (steady \/ pc \in {"idle", "done"})

=============================================================================
