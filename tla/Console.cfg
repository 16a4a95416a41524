CONSTANTS
    Readers = {p1}
    Writers = {p2}
    UART_TX_BUF_SIZE = 2
    TxWrap = 4
    None = None
    Letters = {"x"}
    INPUT_BUF_SIZE = 2
    Wrap = 4
    target = 2
SPECIFICATION Spec
INVARIANTS ConsoleSleepers TxInOrder
PROPERTIES LineDiscipline OutputDrains
