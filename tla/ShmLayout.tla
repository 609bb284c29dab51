----------------------------- MODULE ShmLayout -----------------------------
(****************************************************************************)
(* The layout of the shared memory segment in bytes from its base: one int  *)
(* for every process id, the index area, and behind it the areas for        *)
(* messages (emi_core.c:122-133, 270-285, emi_shmem.c:47-59, shmem.h:53).   *)
(* The segment is sized with the configured size of a message's data, the   *)
(* areas are laid out with the compiled one.                                *)
(****************************************************************************)
EXTENDS Integers

CONSTANTS
    pid_max,                  \* from /proc: process ids are below it
    EMI_MAX_MSG,              \* number of areas
    EMI_DATA_SIZE_PER_MSG,    \* compiled-in size of a message's data
    emi_data_size_per_msg,    \* the size in emi.conf, which data are checked against
    sizeof_emi_msg            \* sizeof(struct emi_msg)

ASSUME LayoutAssumption ==
    /\ pid_max \in Nat /\ EMI_MAX_MSG \in Nat
    /\ EMI_DATA_SIZE_PER_MSG \in Nat /\ emi_data_size_per_msg \in Nat
    /\ sizeof_emi_msg \in Nat \ {0}

sizeof_int == 4

\* What int_global_shm_space asks of shmget; the system may round it up.
SegmentSize == pid_max * sizeof_int
               + sizeof_emi_msg * EMI_MAX_MSG + emi_data_size_per_msg * EMI_MAX_MSG

\* GET_SIZE(struct emi_msg)
GET_SIZE == sizeof_emi_msg + EMI_DATA_SIZE_PER_MSG

\* Where the areas begin, as emi_core passes it to emi_init_msg_space.
bias == pid_max * sizeof_int

\* Areas are numbered from 1.
AreaNumber == 1..EMI_MAX_MSG

\* Faulty variant: the areas are not placed behind the index.
offset_in_index(i) == i * GET_SIZE

\* buf->offset of area i.
offset(i) == bias + i * GET_SIZE

\* The int that holds the index of process pid.
IndexCell(pid) == (pid * sizeof_int)..(pid * sizeof_int + sizeof_int - 1)

\* What the owner of the area at address a writes: the header, and data that
\* were found not larger than the configured size.
Written(a) == a..(a + sizeof_emi_msg + emi_data_size_per_msg - 1)
=============================================================================
