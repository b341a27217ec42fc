------------------------------ MODULE Tensors -------------------------------
(***************************************************************************)
(* The metadata of one tensor: how many bytes it takes, as core/model.c    *)
(* and as the runtimes compute it, and which element types the runtimes    *)
(* know.  Both compute in words of the target: 2^32 values on the boards   *)
(* of the repository.                                                      *)
(***************************************************************************)
EXTENDS Integers, Sequences
LOCAL INSTANCE SequencesExt

CONSTANTS
  WordSize,            \* how many values size_t and uint32_t have
  MAX_MODEL_TENSOR_DIM \* MAX_MODEL_INPUT_DIM, MAX_MODEL_OUTPUT_DIM

ASSUME TensorsAssumption ==
  /\ WordSize \in Nat \ {0}
  /\ MAX_MODEL_TENSOR_DIM \in Nat

KENNING_BITS_PER_BYTE == 8

\* DATA_TYPE_CODES.
data_type_code_t ==
  {"INT", "UINT", "FLOAT", "OPAQUE_HANDLE", "BFLOAT", "COMPLEX", "BOOL", "FLOAT8_E3M4",
   "FLOAT8_E4M3", "FLOAT8_E4M3B11FNUZ", "FLOAT8_E4M3FN", "FLOAT8_E4M3FNUZ", "FLOAT8_E5M2",
   "FLOAT8_E5M2FNUZ", "FLOAT8_E8M0FNU", "FLOAT6_E2M3FN", "FLOAT6_E3M2FN", "FLOAT4_E2M1FN"}

\* model_spec_input_length, model_spec_output_length.
model_spec_length(shape) ==
  FoldSeq(LAMBDA dim, result : (result * dim) % WordSize, 1, shape)

\* validate_tensors.  A size of zero bits passes.
validate_tensor(tensor) ==
  /\ Len(tensor.shape) \in 1 .. MAX_MODEL_TENSOR_DIM
  /\ \A i \in DOMAIN tensor.shape : tensor.shape[i] # 0
  /\ tensor.bits % KENNING_BITS_PER_BYTE = 0
  /\ tensor.code \in data_type_code_t

\* A tensor's share of model_get_input_size and model_get_output_size: the
\* product is one of words.
model_bytes(length, bits) == ((length * bits) % WordSize) \div KENNING_BITS_PER_BYTE

\* Mutant: every element one byte larger than it is.
compute_size_bytes_rounded_up(bits) == bits \div KENNING_BITS_PER_BYTE + 1

\* The runtimes go by elements of whole bytes.  The division truncates: zero
\* bits give one byte.
compute_size_bytes(bits) == IF bits = 0 THEN 1 ELSE (bits - 1) \div KENNING_BITS_PER_BYTE + 1

compute_structure_size_bytes(length, bits) == (length * compute_size_bytes(bits)) % WordSize

\* What model.c checks buffers against, and what a runtime reads and writes.
ModelBytes(tensor) == model_bytes(model_spec_length(tensor.shape), tensor.bits)
RuntimeBytes(tensor) ==
  compute_structure_size_bytes(model_spec_length(tensor.shape), tensor.bits)

\* The size in bits fits a word.
NoOverflow(tensor) ==
  tensor.bits # 0 /\ model_spec_length(tensor.shape) * tensor.bits < WordSize

-----------------------------------------------------------------------------
(* Element types: the bits one takes in the runtime, 0 for none.           *)

kenning_elem_dtype_to_iree_hal_elem_type(code, bits) ==
  CASE code \in {"INT", "UINT"} /\ bits \in {8, 16, 32, 64} -> bits
    [] code = "FLOAT" /\ bits \in {16, 32} -> bits
    [] OTHER -> 0

\* A complex number is made of two of the bits given.
kenning_elem_dtype_to_executorch_scalar_type(code, bits) ==
  CASE code \in {"INT", "UINT"} /\ bits \in {8, 16, 32, 64} -> bits
    [] code = "FLOAT" /\ bits \in {16, 32, 64} -> bits
    [] code = "COMPLEX" /\ bits \in {16, 32, 64} -> 2 * bits
    [] code = "BFLOAT" /\ bits = 16 -> bits
    [] code \in {"FLOAT8_E4M3FN", "FLOAT8_E4M3FNUZ", "FLOAT8_E5M2", "FLOAT8_E5M2FNUZ"}
         /\ bits = 8 -> bits
    [] code = "BOOL" -> 8
    [] OTHER -> 0
=============================================================================
