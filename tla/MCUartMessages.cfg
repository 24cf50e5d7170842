CONSTANTS
    Char = {x, y}
    CR = CR
    LF = LF
    Nul = Nul
    NoByte = NoByte
    USART_REC_LEN = 3
    MESSAGE_Q_NUM = 1
SPECIFICATION Spec
INVARIANTS
    TypeOK
    SizesAgree
PROPERTIES
    MessageStartsWithLine
