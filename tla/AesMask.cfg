\* A message and its answer, encoded with random masks under several keys.
CONSTANTS
    Encrypt <- emi_aes_encrypt
    Decrypt <- emi_aes_decrypt
    Key <- Keys
    Pad <- Pads
    Stray <- Strays
    Payload <- Payloads
    emi_data_size_per_msg = 52
    MaxTurns = 2
SPECIFICATION Spec
INVARIANTS
    Restored
    CipherIsFips
CHECK_DEADLOCK FALSE
